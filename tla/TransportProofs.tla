-------------------------- MODULE TransportProofs --------------------------
(***************************************************************************)
(* Proofs about Transport, for any set of transports and sockets and any   *)
(* bounds.  The safety properties rest on one inductive invariant, IInv,   *)
(* whose parts are about the registration messages and the reference       *)
(* count (Life), the kick (Kick), the end of a transport as SYNC(0) goes   *)
(* round (End), the sockets (Tied) and the input thread's gate (Gate).     *)
(* That the transports implement Link rests on two more, proved on top of  *)
(* it: Told, what the packets under way are about, and Carry, that what    *)
(* was sent and not yet written is still in toIn.                          *)
(***************************************************************************)
EXTENDS Transport, Integers, TLAPS, FiniteSetTheorems, SequenceTheorems

-----------------------------------------------------------------------------
(* Queues.                                                                 *)

\* Appending to a queue: one more element, the others where they were.
LEMMA Appended ==
  ASSUME NEW S, NEW q \in Seq(S), NEW e \in S
  PROVE  /\ Append(q, e) \in Seq(S)
         /\ Append(q, e) # <<>>
         /\ Len(Append(q, e)) = Len(q) + 1
         /\ DOMAIN Append(q, e) = 1..(Len(q) + 1)
         /\ \A i \in 1..Len(q) : Append(q, e)[i] = q[i]
         /\ Append(q, e)[Len(q) + 1] = e
BY AppendProperties, LenProperties

\* Taking the head of a queue: the others move up by one.
LEMMA Taken ==
  ASSUME NEW S, NEW q \in Seq(S), q # <<>>
  PROVE  /\ Head(q) = q[1] /\ Head(q) \in S
         /\ Tail(q) \in Seq(S)
         /\ Len(q) \in Nat \ {0}
         /\ Len(Tail(q)) = Len(q) - 1
         /\ DOMAIN Tail(q) = 1..(Len(q) - 1)
         /\ \A i \in 1..(Len(q) - 1) : Tail(q)[i] = q[i + 1]
BY HeadTailProperties, EmptySeq, LenProperties

\* The shape of a queue.
LEMMA Shape ==
  ASSUME NEW S, NEW q \in Seq(S)
  PROVE  /\ Len(q) \in Nat
         /\ DOMAIN q = 1..Len(q)
         /\ \A i \in 1..Len(q) : q[i] \in S
         /\ q = <<>> <=> Len(q) = 0
BY LenProperties, EmptySeq, ElementOfSeq

-----------------------------------------------------------------------------
(* The inductive invariant.                                                *)

Alive(p) == IF p \in {"none", "done"} THEN 0 ELSE 1
KickSteps == {"kick", "lock", "call", "unref", "done"}

\* The output thread has queued its SYNC(0), and main has handled it.
Over(t) == outpc[t] \in KickSteps /\ toMain[t] = <<>>

\* The life of a transport follows its two threads.
LifeOf(t) ==
  /\ stage[t] \in {"none", "queued"} => outpc[t] = "none" /\ inpc[t] = "none"
  /\ stage[t] = "live" =>
       /\ outpc[t] # "none" /\ inpc[t] # "none"
       /\ outpc[t] # "done" \/ inpc[t] # "done"
  /\ stage[t] \in {"removing", "freed"} => outpc[t] = "done" /\ inpc[t] = "done"
  /\ ref[t] = Alive(outpc[t]) + Alive(inpc[t])
  /\ t \in tlist \/ adding = t => stage[t] \in {"live", "removing"}

\* The registration socket holds what the stages say, each message once.
Queue ==
  /\ \A i \in DOMAIN regq :
       stage[regq[i].t] = IF regq[i].action = 1 THEN "queued" ELSE "removing"
  /\ \A i, j \in DOMAIN regq : regq[i].t = regq[j].t => i = j
  /\ \A t \in Transports :
       stage[t] \in {"queued", "removing"} => \E i \in DOMAIN regq : regq[i].t = t

\* kicked is set by one thread, which then calls t->kick, and by then no
\* thread is past its own kick.
KickOf(t) ==
  /\ ~kicked[t] =>
       /\ kicks[t] = 0
       /\ outpc[t] \notin {"call", "unref", "done"} /\ inpc[t] \notin {"call", "unref", "done"}
  /\ kicked[t] =>
       \/ kicks[t] = 1 /\ outpc[t] # "call" /\ inpc[t] # "call"
       \/ kicks[t] = 0 /\ outpc[t] = "call" /\ inpc[t] # "call"
       \/ kicks[t] = 0 /\ outpc[t] # "call" /\ inpc[t] = "call"

\* SYNC(0) is the last packet of the output thread; when main has handled it
\* the transport is offline for good, and only then the input thread stops.
EndOf(t) ==
  /\ \A i \in DOMAIN toMain[t] :
       toMain[t][i].cmd = "SYNC0" <=> outpc[t] \in KickSteps /\ i = Len(toMain[t])
  /\ \A i \in DOMAIN toIn[t] : toIn[t][i].cmd = "SYNC0" => Over(t)
  /\ inpc[t] \in KickSteps \cup {"closeall"} => Over(t)
  /\ online[t] => conn[t] # "OFFLINE"
  /\ Over(t) => conn[t] = "OFFLINE"

\* A socket is tied to a transport only while someone is left to close it.
TiedOf(s) ==
  /\ sock[s].st \in {"new", "dead"} => sock[s].t = NoTransport
  /\ sock[s].st \in {"linked", "waiting"} => sock[s].t \in Transports
  /\ sock[s].st = "linked" => online[sock[s].t]
  /\ sock[s].st = "waiting" => inpc[sock[s].t] \in {"read", "closeall"}

\* The SYNC(1) of the output thread goes round before anything else is sent.
GateOf(t) ==
  /\ outpc[t] \in {"none", "sync"} =>
       /\ toMain[t] = <<>> /\ toIn[t] = <<>> /\ conn[t] = "OFFLINE"
  /\ outpc[t] \notin {"none", "sync"} =>
       \/ active[t]
       \/ stage[t] = "freed" /\ toIn[t] = <<>>
       \/ /\ toIn[t] = <<>> /\ conn[t] = "OFFLINE"
          /\ toMain[t] # <<>> /\ toMain[t][1] = Sync(1, token[t])
       \/ toIn[t] # <<>> /\ toIn[t][1] = Sync(1, token[t])

Life == (\A t \in Transports : LifeOf(t)) /\ Queue
Kick == \A t \in Transports : KickOf(t)
End == \A t \in Transports : EndOf(t)
Tied == \A s \in Sockets : TiedOf(s)
Gate == \A t \in Transports : GateOf(t)

IInv == TypeOK /\ Life /\ Kick /\ End /\ Tied /\ Gate

-----------------------------------------------------------------------------
(* Type correctness.                                                       *)

\* The packets that main and the host make.
LEMMA PacketTypes ==
  /\ \A n \in Nat : Sync(1, n) \in SyncPacket /\ ~ NotSync(Sync(1, n))
  /\ Sync(0, 0) \in SyncPacket
  /\ \A c \in {"CNXN", "OPEN", "OKAY", "CLSE", "WRTE"}, i \in Sockets \cup {0} :
       [cmd |-> c, id |-> i] \in AppPacket
  /\ \A p \in SyncPacket \cup AppPacket : IsSync(p) \/ p \in AppPacket
BY DEF Sync, SyncPacket, AppPacket, NotSync, IsSync

\* send_packet keeps the types of the two queues it writes.
LEMMA SendTypes ==
  ASSUME TypeOK, NEW t \in Transports, NEW p \in SyncPacket \cup AppPacket, send_packet(t, p)
  PROVE  /\ toIn' \in [Transports -> Seq(SyncPacket \cup AppPacket)]
         /\ sent' \in [Transports -> Seq(AppPacket)]
<1>1. toIn' \in [Transports -> Seq(SyncPacket \cup AppPacket)]
  BY Appended DEF TypeOK, send_packet
<1>2. ASSUME p \in AppPacket PROVE Append(sent[t], p) \in Seq(AppPacket)
  BY <1>2, Appended DEF TypeOK
<1>3. sent' \in [Transports -> Seq(AppPacket)]
  BY <1>2, PacketTypes DEF TypeOK, send_packet
<1> QED BY <1>1, <1>3

\* What main takes from a transport, and what it leaves.
LEMMA ReceiveTypes ==
  ASSUME TypeOK, NEW t \in Transports, NEW cmd, receive(t, cmd)
  PROVE  /\ Head(toMain[t]) \in SyncPacket \cup AppPacket
         /\ toMain' \in [Transports -> Seq(SyncPacket \cup AppPacket)]
<1>1. toMain[t] \in Seq(SyncPacket \cup AppPacket) /\ toMain[t] # <<>>
  BY DEF TypeOK, receive
<1> QED BY <1>1, Taken DEF TypeOK, receive


\* Every step keeps the types.  That ref_count stays between 0 and 2 needs
\* Life: it counts the threads.
LEMMA TypeStep ==
  ASSUME TypeOK, Life, Tied, [Next]_vars
  PROVE  TypeOK'
<1> USE DEF vars, mainVars, lifeVars, stateVars, threadVars, hostVars, threadOnly
<1>u. CASE UNCHANGED vars
  BY <1>u DEF TypeOK
<1>1. ASSUME NEW t \in Transports, register_socket_transport(t) PROVE TypeOK'
  <2>1. Append(regq, [t |-> t, action |-> 1]) \in Seq(TMsg)
    BY Appended DEF TypeOK, TMsg
  <2> QED BY <1>1, <2>1 DEF TypeOK, register_socket_transport, Stages
<1>2. ASSUME NEW t \in Transports, start_transport(t) PROVE TypeOK'
  <2>1. Tail(regq) \in Seq(TMsg)
    BY <1>2, Taken DEF TypeOK, start_transport
  <2>2. ref' \in [Transports -> 0..2]
    BY <1>2 DEF TypeOK, start_transport, initial_refs
  <2> QED BY <1>2, <2>1, <2>2 DEF TypeOK, start_transport, Stages, OutSteps, InSteps
<1>3. ASSUME NEW t \in Transports, list_transport(t) PROVE TypeOK'
  BY <1>3 DEF TypeOK, list_transport
<1>4. ASSUME NEW t \in Transports, free_transport(t) PROVE TypeOK'
  <2>1. Tail(regq) \in Seq(TMsg)
    BY <1>4, Taken DEF TypeOK, free_transport
  <2>2. <<>> \in Seq(SyncPacket \cup AppPacket)
    BY EmptySeq
  <2>3. sock' \in [Sockets -> [st : {"new", "waiting", "linked", "dead"},
                           t : Transports \cup {NoTransport}]]
    BY <1>4 DEF TypeOK, free_transport, run_transport_disconnects, DeadSocket
  <2> QED BY <1>4, <2>1, <2>2, <2>3 DEF TypeOK, free_transport, unlink_transport, Stages
<1>5. ASSUME NEW t \in Transports, MainPacket(t) PROVE TypeOK'
  <2> DEFINE p == Head(toMain[t])
  <2> DEFINE Packet == SyncPacket \cup AppPacket
  <2>0. ASSUME NEW cmd, receive(t, cmd),
               \/ UNCHANGED <<toIn, sent>>
               \/ \E u \in Transports, q \in Packet : send_packet(u, q),
               conn' \in [Transports -> {"OFFLINE", "HOST"}],
               online' \in [Transports -> BOOLEAN],
               sock' \in [Sockets -> [st : {"new", "waiting", "linked", "dead"},
                                      t : Transports \cup {NoTransport}]]
        PROVE  TypeOK'
    <3>1. toMain' \in [Transports -> Seq(Packet)]
      BY <2>0, ReceiveTypes
    <3>2. /\ toIn' \in [Transports -> Seq(Packet)]
          /\ sent' \in [Transports -> Seq(AppPacket)]
      BY <2>0, SendTypes DEF TypeOK
    <3> QED BY <2>0, <3>1, <3>2 DEF TypeOK, receive
  <2>s. ASSUME NEW cmd, receive(t, cmd) PROVE p \in Packet
    BY <2>s, ReceiveTypes
  <2>d. /\ DeadSocket \in [st : {"new", "waiting", "linked", "dead"},
                            t : Transports \cup {NoTransport}]
        /\ run_transport_disconnects(t) \in
             [Sockets -> [st : {"new", "waiting", "linked", "dead"},
                          t : Transports \cup {NoTransport}]]
    BY DEF TypeOK, run_transport_disconnects, DeadSocket
  <2>1. CASE handle_SYNC1(t)
    BY <2>1, <2>0, <2>s DEF handle_SYNC1, TypeOK
  <2>2. CASE handle_SYNC0(t)
    BY <2>2, <2>0, <2>s, <2>d DEF handle_SYNC0, handle_offline, TypeOK
  <2>3. CASE handle_CNXN(t)
    <3>1. [cmd |-> "CNXN", id |-> 0] \in Packet
      BY PacketTypes
    <3> HIDE DEF Packet
    <3> QED BY <2>3, <2>0, <3>1, <2>d DEF handle_CNXN, TypeOK
  <2>4. ASSUME NEW s \in Sockets, handle_OPEN(t, s) PROVE TypeOK'
    <3>1. [cmd |-> "OKAY", id |-> s] \in Packet
      BY PacketTypes
    <3> HIDE DEF Packet
    <3> QED BY <2>4, <2>0, <3>1 DEF handle_OPEN, TypeOK
  <2>5. CASE refuse_OPEN(t)
    <3>1. [cmd |-> "CLSE", id |-> 0] \in Packet
      BY PacketTypes
    <3> HIDE DEF Packet
    <3> QED BY <2>5, <2>0, <3>1 DEF refuse_OPEN, TypeOK
  <2>6. CASE handle_OKAY(t)
    BY <2>6, <2>0 DEF handle_OKAY, TypeOK
  <2>7. CASE handle_CLSE(t)
    <3> DEFINE s == p.id
    <3>1. /\ receive(t, "CLSE") /\ s \in Sockets
          /\ sock' = [sock EXCEPT ![s] = DeadSocket]
          /\ UNCHANGED <<conn, online>>
      BY <2>7 DEF handle_CLSE
    <3>2. CASE UNCHANGED <<toIn, sent>>
      BY <3>1, <3>2, <2>0, <2>d DEF TypeOK
    <3>3. CASE sock[s].st = "linked" /\ send_packet(sock[s].t, [cmd |-> "CLSE", id |-> s])
      <4>1. [cmd |-> "CLSE", id |-> s] \in Packet /\ sock[s].t \in Transports
        BY <3>1, <3>3, PacketTypes DEF Tied, TiedOf
      <4> HIDE DEF Packet, s
      <4> QED BY <3>1, <3>3, <4>1, <2>0, <2>d DEF TypeOK
    <3> QED BY <2>7, <3>2, <3>3 DEF handle_CLSE
  <2>8. CASE drop_packet(t)
    BY <2>8, <2>0 DEF drop_packet, TypeOK
  <2> QED BY <1>5, <2>1, <2>2, <2>3, <2>4, <2>5, <2>6, <2>7, <2>8 DEF MainPacket
<1>6. ASSUME NEW s \in Sockets, MainSocket(s) PROVE TypeOK'
  <2> DEFINE Packet == SyncPacket \cup AppPacket
  <2>0. ASSUME NEW u \in Transports, NEW q \in Packet, send_packet(u, q),
               UNCHANGED <<mainVars, lifeVars, stateVars, threadVars, hostVars, toMain, wire>>,
               writes' \in Nat,
               sock' \in [Sockets -> [st : {"new", "waiting", "linked", "dead"},
                                      t : Transports \cup {NoTransport}]]
        PROVE  TypeOK'
    <3>1. /\ toIn' \in [Transports -> Seq(Packet)]
          /\ sent' \in [Transports -> Seq(AppPacket)]
      BY <2>0, SendTypes
    <3> QED BY <2>0, <3>1 DEF TypeOK
  <2>p. /\ [cmd |-> "OPEN", id |-> s] \in Packet
        /\ [cmd |-> "WRTE", id |-> s] \in Packet
        /\ [cmd |-> "CLSE", id |-> s] \in Packet
    BY PacketTypes
  <2>l. sock[s].st = "linked" => sock[s].t \in Transports
    BY DEF Tied, TiedOf
  <2> HIDE DEF Packet
  <2>1. ASSUME NEW t \in Transports, smart_socket_connect(t, s) PROVE TypeOK'
    <3>1. PICK r \in {[st |-> "waiting", t |-> t], DeadSocket} : sock' = [sock EXCEPT ![s] = r]
      BY <2>1 DEF smart_socket_connect
    <3>2. r \in [st : {"new", "waiting", "linked", "dead"}, t : Transports \cup {NoTransport}]
      BY DEF DeadSocket
    <3> QED BY <2>1, <2>0, <2>p, <3>1, <3>2 DEF smart_socket_connect, TypeOK
  <2>2. CASE remote_socket_enqueue(s)
    <3>1. writes' \in Nat
      BY <2>2 DEF remote_socket_enqueue, TypeOK
    <3> QED BY <2>2, <2>0, <2>p, <2>l, <3>1 DEF remote_socket_enqueue, TypeOK
  <2>3. CASE remote_socket_close(s)
    BY <2>3, <2>0, <2>p, <2>l DEF remote_socket_close, TypeOK, DeadSocket
  <2> QED BY <1>6, <2>1, <2>2, <2>3 DEF MainSocket
<1>7. ASSUME NEW t \in Transports, Output(t) PROVE TypeOK'
  <2>1. CASE out_sync(t)
    <3>1. Append(toMain[t], first_packet(t)) \in Seq(SyncPacket \cup AppPacket)
      BY PacketTypes, Appended DEF TypeOK, first_packet
    <3>0. token \in [Transports -> Nat] /\ token[t] + 1 \in Nat
      BY SMTT(30) DEF TypeOK
    <3>t. token' = [token EXCEPT ![t] = token[t] + 1]
      BY <2>1 DEF out_sync
    <3>2. token' \in [Transports -> Nat]
      BY <3>0, <3>t
    <3> QED BY <2>1, <3>1, <3>2 DEF TypeOK, out_sync, OutSteps
  <2>2. CASE out_read(t)
    <3>1. Head(inbound[t]) \in AppPacket /\ Tail(inbound[t]) \in Seq(AppPacket \cup {BadPacket})
      BY <2>2, Taken DEF TypeOK, out_read
    <3>2. Append(toMain[t], Head(inbound[t])) \in Seq(SyncPacket \cup AppPacket)
      BY <3>1, Appended DEF TypeOK
    <3> QED BY <2>2, <3>1, <3>2 DEF TypeOK, out_read
  <2>3. CASE out_fail(t)
    BY <2>3 DEF TypeOK, out_fail, after_loop, OutSteps
  <2>4. CASE out_offline(t)
    <3>1. Append(toMain[t], Sync(0, 0)) \in Seq(SyncPacket \cup AppPacket)
      BY PacketTypes, Appended DEF TypeOK
    <3> QED BY <2>4, <3>1 DEF TypeOK, out_offline, OutSteps
  <2> QED BY <1>7, <2>1, <2>2, <2>3, <2>4 DEF Output
<1>8. ASSUME NEW t \in Transports, InputSure(t) \/ in_write(t) PROVE TypeOK'
  <2>t. ASSUME in_next(t)
        PROVE  /\ Head(toIn[t]) \in SyncPacket \cup AppPacket
               /\ Tail(toIn[t]) \in Seq(SyncPacket \cup AppPacket)
    BY <2>t, Taken DEF TypeOK, in_next
  <2>1. CASE in_sync(t)
    BY <2>1, <2>t DEF TypeOK, in_sync
  <2>2. CASE in_stop(t)
    BY <2>2, <2>t DEF TypeOK, in_stop, InSteps
  <2>3. CASE in_drop(t)
    BY <2>3, <2>t DEF TypeOK, in_drop
  <2>4. ASSUME NEW s \in Sockets, in_close_socket(t, s) PROVE TypeOK'
    <3>1. [cmd |-> "CLSE", id |-> s] \in SyncPacket \cup AppPacket
      BY PacketTypes
    <3>2. /\ toIn' \in [Transports -> Seq(SyncPacket \cup AppPacket)]
          /\ sent' \in [Transports -> Seq(AppPacket)]
      BY <2>4, <3>1, SendTypes DEF TypeOK, in_close_socket
    <3> QED BY <2>4, <3>2 DEF TypeOK, in_close_socket, DeadSocket
  <2>5. CASE in_closed(t)
    BY <2>5 DEF TypeOK, in_closed, InSteps
  <2>6. CASE in_write(t)
    <3>1. Append(wire[t], Head(toIn[t])) \in Seq(AppPacket)
      BY <2>6, <2>t, PacketTypes, Appended DEF TypeOK, in_write, NotSync
    <3> QED BY <2>6, <2>t, <3>1 DEF TypeOK, in_write
  <2> QED BY <1>8, <2>1, <2>2, <2>3, <2>4, <2>5, <2>6 DEF InputSure
<1>9. ASSUME NEW t \in Transports, NEW th \in Threads, Teardown(th, t) PROVE TypeOK'
  <2>g. ASSUME NEW step \in {"lock", "call", "unref", "done"}, goto(th, t, step)
        PROVE  /\ outpc' \in [Transports -> OutSteps]
               /\ inpc' \in [Transports -> InSteps]
               /\ active' \in [Transports -> BOOLEAN]
    BY <2>g DEF TypeOK, goto, OutSteps, InSteps
  <2>1. CASE kick_check(th, t)
    BY <2>1, <2>g DEF TypeOK, kick_check
  <2>2. CASE kick_lock(th, t)
    BY <2>2, <2>g DEF TypeOK, kick_lock
  <2>3. CASE kick_call(th, t)
    <3>1. kicks' \in [Transports -> Nat]
      BY <2>3, SMTT(30) DEF TypeOK, kick_call
    <3> QED BY <2>3, <2>g, <3>1 DEF TypeOK, kick_call
  <2>4. CASE transport_unref(th, t)
    <3>1. Append(regq, [t |-> t, action |-> 0]) \in Seq(TMsg)
      BY Appended DEF TypeOK, TMsg
    <3>2. ref[t] - 1 \in 0..2
      <4>1. pc(th)[t] = "unref" /\ LifeOf(t)
        BY <2>4 DEF transport_unref, Life
      <4> QED BY <4>1, SMTT(30) DEF LifeOf, Alive, pc, TypeOK, Threads
    <3>3. regq' \in Seq(TMsg) /\ ref' \in [Transports -> 0..2]
      BY <2>4, <3>1, <3>2 DEF TypeOK, transport_unref
    <3>4. kicks' \in [Transports -> Nat]
      <4>1. kicks[t] \in Nat /\ kicks[t] + 1 \in Nat
        BY DEF TypeOK
      <4>2. \/ kicks' = kicks
            \/ kicks' = [kicks EXCEPT ![t] = kicks[t]]
            \/ kicks' = [kicks EXCEPT ![t] = kicks[t] + 1]
        BY <2>4, Zenon DEF transport_unref
      <4> QED BY <4>1, <4>2 DEF TypeOK
    <3>5. /\ kicked' \in [Transports -> BOOLEAN]
          /\ stage' \in [Transports -> Stages]
      BY <2>4 DEF TypeOK, transport_unref, Stages
    <3> QED BY <2>4, <2>g, <3>3, <3>4, <3>5 DEF TypeOK, transport_unref
  <2> QED BY <1>9, <2>1, <2>2, <2>3, <2>4 DEF Teardown
<1>10. ASSUME NEW t \in Transports, host_send(t) PROVE TypeOK'
  <2>1. host_packet(t) \subseteq AppPacket \cup {BadPacket}
    BY DEF host_packet, host_knows, AppPacket
  <2>2. \A p \in host_packet(t) : Append(inbound[t], p) \in Seq(AppPacket \cup {BadPacket})
    BY <2>1, Appended DEF TypeOK
  <2>3. hostn' \in Nat
    BY <1>10 DEF TypeOK, host_send
  <2>4. inbound' \in [Transports -> Seq(AppPacket \cup {BadPacket})]
    <3>1. PICK p \in host_packet(t) : inbound' = [inbound EXCEPT ![t] = Append(@, p)]
      BY <1>10 DEF host_send
    <3> QED BY <2>2, <3>1 DEF TypeOK
  <2> QED BY <1>10, <2>3, <2>4 DEF TypeOK, host_send
<1>11. ASSUME NEW t \in Transports, link_down(t) PROVE TypeOK'
  BY <1>11 DEF TypeOK, link_down
<1> QED
  BY <1>u, <1>1, <1>2, <1>3, <1>4, <1>5, <1>6, <1>7, <1>8, <1>9, <1>10, <1>11
  DEF Next, MainRegistration

-----------------------------------------------------------------------------
(* The life of the transports.                                             *)

\* Steps of one thread that neither start nor end it.
LEMMA LifeThread ==
  ASSUME TypeOK, Life, NEW t \in Transports,
         UNCHANGED <<regq, adding, tlist, stage, ref>>,
         \/ /\ outpc[t] \notin {"none", "done"}
            /\ \E p \in OutSteps \ {"none", "done"} : outpc' = [outpc EXCEPT ![t] = p]
            /\ inpc' = inpc
         \/ /\ inpc[t] \notin {"none", "done"}
            /\ \E p \in InSteps \ {"none", "done"} : inpc' = [inpc EXCEPT ![t] = p]
            /\ outpc' = outpc
         \/ outpc' = outpc /\ inpc' = inpc
  PROVE  Life'
<1>1. Queue'
  BY DEF Life, Queue
<1>2. ASSUME NEW u \in Transports PROVE LifeOf(u)'
  <2>1. LifeOf(u)
    BY DEF Life
  <2>2. /\ outpc'[u] = outpc[u] \/ {outpc[u], outpc'[u]} \cap {"none", "done"} = {}
        /\ inpc'[u] = inpc[u] \/ {inpc[u], inpc'[u]} \cap {"none", "done"} = {}
    BY DEF TypeOK
  <2> QED BY <2>1, <2>2 DEF LifeOf, Alive
<1> QED BY <1>1, <1>2 DEF Life

\* The registration queue when a message for t goes in.
LEMMA QueueIn ==
  ASSUME TypeOK, Queue, NEW t \in Transports, NEW a \in {0, 1}, NEW from, NEW to,
         stage[t] = from, from \notin {"queued", "removing"},
         to = IF a = 1 THEN "queued" ELSE "removing",
         regq' = Append(regq, [t |-> t, action |-> a]),
         stage' = [stage EXCEPT ![t] = to]
  PROVE  Queue'
<1> DEFINE m == [t |-> t, action |-> a]
<1>1. m \in TMsg /\ regq \in Seq(TMsg) /\ stage \in [Transports -> Stages]
  BY DEF TypeOK, TMsg
<1>2. /\ DOMAIN regq = 1..Len(regq) /\ Len(regq) \in Nat
      /\ \A i \in 1..Len(regq) : regq[i] \in TMsg
  BY <1>1, Shape
<1>3. /\ DOMAIN regq' = 1..(Len(regq) + 1)
      /\ \A i \in 1..Len(regq) : regq'[i] = regq[i]
      /\ regq'[Len(regq) + 1] = m
  BY <1>1, Appended
<1>4. \A i \in DOMAIN regq : regq[i].t # t /\ regq[i].t \in Transports
  BY <1>1, <1>2 DEF Queue, TMsg
<1>5. \A i \in DOMAIN regq' : stage'[regq'[i].t] = IF regq'[i].action = 1 THEN "queued" ELSE "removing"
  BY <1>1, <1>2, <1>3, <1>4 DEF Queue
<1>6. \A i, j \in DOMAIN regq' : regq'[i].t = regq'[j].t => i = j
  BY <1>2, <1>3, <1>4 DEF Queue
<1>7. ASSUME NEW u \in Transports, stage'[u] \in {"queued", "removing"}
      PROVE  \E i \in DOMAIN regq' : regq'[i].t = u
  <2>1. CASE u = t
    BY <2>1, <1>2, <1>3
  <2>2. CASE u # t
    BY <2>2, <1>1, <1>2, <1>3, <1>7 DEF Queue
  <2> QED BY <2>1, <2>2
<1> QED BY <1>5, <1>6, <1>7 DEF Queue

\* The registration queue when main takes the message for t.
LEMMA QueueOut ==
  ASSUME TypeOK, Queue, NEW t \in Transports, NEW to,
         regq # <<>>, Head(regq).t = t, to \notin {"queued", "removing"},
         regq' = Tail(regq),
         stage' = [stage EXCEPT ![t] = to]
  PROVE  Queue'
<1>1. regq \in Seq(TMsg) /\ stage \in [Transports -> Stages]
  BY DEF TypeOK
<1>2. /\ DOMAIN regq = 1..Len(regq)
      /\ \A i \in 1..Len(regq) : regq[i] \in TMsg
  BY <1>1, Shape
<1>3. /\ DOMAIN regq' = 1..(Len(regq) - 1) /\ Len(regq) \in Nat \ {0}
      /\ \A i \in 1..(Len(regq) - 1) : regq'[i] = regq[i + 1]
      /\ regq[1].t = t
  BY <1>1, Taken
<1>4. ASSUME NEW i \in DOMAIN regq' PROVE regq'[i].t # t /\ regq'[i].t \in Transports
  <2>1. i + 1 \in DOMAIN regq /\ 1 \in DOMAIN regq /\ i + 1 # 1 /\ regq'[i] = regq[i + 1]
    BY <1>2, <1>3
  <2>2. regq[i + 1] \in TMsg
    BY <2>1, <1>2
  <2> QED BY <2>1, <2>2, <1>3 DEF Queue, TMsg
<1>5. \A i \in DOMAIN regq' : stage'[regq'[i].t] = IF regq'[i].action = 1 THEN "queued" ELSE "removing"
  BY <1>1, <1>2, <1>3, <1>4 DEF Queue
<1>6. \A i, j \in DOMAIN regq' : regq'[i].t = regq'[j].t => i = j
  BY <1>2, <1>3 DEF Queue
<1>7. ASSUME NEW u \in Transports, stage'[u] \in {"queued", "removing"}
      PROVE  \E i \in DOMAIN regq' : regq'[i].t = u
  <2>1. u # t /\ stage[u] \in {"queued", "removing"}
    BY <1>7, <1>1
  <2>2. PICK i \in DOMAIN regq : regq[i].t = u
    BY <2>1 DEF Queue
  <2>3. i # 1 /\ i - 1 \in DOMAIN regq' /\ regq'[i - 1] = regq[i]
    BY <2>1, <2>2, <1>2, <1>3
  <2> QED BY <2>2, <2>3
<1> QED BY <1>5, <1>6, <1>7 DEF Queue


\* Every step keeps Life.
LEMMA LifeStep ==
  ASSUME TypeOK, Life, [Next]_vars
  PROVE  Life'
<1> USE DEF vars, mainVars, lifeVars, stateVars, threadVars, hostVars, threadOnly
<1>q. Queue /\ \A t \in Transports : LifeOf(t)
  BY DEF Life
<1>f. ASSUME UNCHANGED <<regq, adding, tlist, stage, ref, outpc, inpc>> PROVE Life'
  BY <1>f, <1>q DEF Life, LifeOf, Queue, Alive
<1>1. ASSUME NEW t \in Transports, register_socket_transport(t) PROVE Life'
  <2>1. Queue'
    BY <1>1, <1>q, QueueIn DEF register_socket_transport
  <2>2. ASSUME NEW u \in Transports PROVE LifeOf(u)'
    BY <1>1, <1>q DEF register_socket_transport, TypeOK, LifeOf, Alive
  <2> QED BY <2>1, <2>2 DEF Life
<1>2. ASSUME NEW t \in Transports, start_transport(t) PROVE Life'
  <2>1. Queue'
    <3>1. /\ regq # <<>> /\ Head(regq).t = t /\ "live" \notin {"queued", "removing"}
          /\ regq' = Tail(regq) /\ stage' = [stage EXCEPT ![t] = "live"]
      BY <1>2 DEF start_transport
    <3> QED BY <3>1, <1>q, QueueOut
  <2>2. regq[1].t = t /\ regq[1].action = 1 /\ 1 \in DOMAIN regq
    BY <1>2, Taken, Shape DEF TypeOK, start_transport
  <2>3. stage[t] = "queued"
    BY <2>2, <1>q DEF Queue
  <2>4. ASSUME NEW u \in Transports PROVE LifeOf(u)'
    <3>1. CASE u = t
      BY <1>2, <1>q, <2>3, <3>1 DEF start_transport, initial_refs, TypeOK, LifeOf, Alive
    <3>2. CASE u # t
      BY <1>2, <1>q, <3>2, ConstantsAssumption DEF start_transport, TypeOK, LifeOf, Alive
    <3> QED BY <3>1, <3>2
  <2> QED BY <2>1, <2>4 DEF Life
<1>3. ASSUME NEW t \in Transports, list_transport(t) PROVE Life'
  <2>1. Queue'
    BY <1>3, <1>q DEF list_transport, Queue
  <2>2. ASSUME NEW u \in Transports PROVE LifeOf(u)'
    BY <1>3, <1>q, ConstantsAssumption DEF list_transport, TypeOK, LifeOf, Alive
  <2> QED BY <2>1, <2>2 DEF Life
<1>4. ASSUME NEW t \in Transports, free_transport(t) PROVE Life'
  <2>1. Queue'
    <3>1. /\ regq # <<>> /\ Head(regq).t = t /\ "freed" \notin {"queued", "removing"}
          /\ regq' = Tail(regq) /\ stage' = [stage EXCEPT ![t] = "freed"]
      BY <1>4 DEF free_transport
    <3> QED BY <3>1, <1>q, QueueOut
  <2>2. regq[1].t = t /\ regq[1].action = 0 /\ 1 \in DOMAIN regq
    BY <1>4, Taken, Shape DEF TypeOK, free_transport
  <2>3. stage[t] = "removing"
    BY <2>2, <1>q DEF Queue
  <2>4. ASSUME NEW u \in Transports PROVE LifeOf(u)'
    BY <1>4, <1>q, <2>3, ConstantsAssumption
    DEF free_transport, unlink_transport, TypeOK, LifeOf, Alive
  <2> QED BY <2>1, <2>4 DEF Life
<1>5. ASSUME NEW t \in Transports, MainPacket(t) PROVE Life'
  <2>1. \E cmd : receive(t, cmd)
    BY <1>5 DEF MainPacket, handle_SYNC1, handle_SYNC0, handle_CNXN, handle_OPEN, refuse_OPEN,
                handle_OKAY, handle_CLSE, drop_packet
  <2> QED BY <2>1, <1>f DEF receive
<1>6. ASSUME NEW s \in Sockets, MainSocket(s) PROVE Life'
  BY <1>6, <1>f DEF MainSocket, smart_socket_connect, remote_socket_enqueue, remote_socket_close
<1>7. ASSUME NEW t \in Transports, Output(t) PROVE Life'
  <2>1. CASE out_sync(t)
    BY <2>1, LifeThread DEF out_sync, OutSteps
  <2>2. CASE out_read(t)
    BY <2>2, <1>f DEF out_read
  <2>3. CASE out_fail(t)
    BY <2>3, LifeThread DEF out_fail, after_loop, OutSteps
  <2>4. CASE out_offline(t)
    BY <2>4, LifeThread DEF out_offline, OutSteps
  <2> QED BY <1>7, <2>1, <2>2, <2>3, <2>4 DEF Output
<1>8. ASSUME NEW t \in Transports, InputSure(t) \/ in_write(t) PROVE Life'
  <2>1. CASE in_stop(t)
    BY <2>1, LifeThread DEF in_stop, in_next, InSteps
  <2>2. CASE in_closed(t)
    BY <2>2, LifeThread DEF in_closed, InSteps
  <2>3. CASE in_sync(t) \/ in_drop(t) \/ in_write(t) \/ \E s \in Sockets : in_close_socket(t, s)
    BY <2>3, <1>f DEF in_sync, in_drop, in_write, in_close_socket
  <2> QED BY <1>8, <2>1, <2>2, <2>3 DEF InputSure
<1>9. ASSUME NEW t \in Transports, NEW th \in Threads, Teardown(th, t) PROVE Life'
  <2>g. ASSUME NEW step \in {"lock", "call", "unref"}, goto(th, t, step),
               pc(th)[t] \in {"kick", "lock", "call"},
               UNCHANGED <<regq, adding, tlist, stage, ref>>
        PROVE  Life'
    BY <2>g, LifeThread DEF goto, pc, OutSteps, InSteps, Threads
  <2>1. CASE kick_check(th, t)
    BY <2>1, <2>g DEF kick_check
  <2>2. CASE kick_lock(th, t)
    BY <2>2, <2>g DEF kick_lock
  <2>3. CASE kick_call(th, t)
    BY <2>3, <2>g DEF kick_call
  <2>4. CASE transport_unref(th, t)
    <3>1. /\ stage[t] = "live" /\ ref[t] \in {1, 2}
          /\ ref[t] = 1 <=> IF th = "out" THEN inpc[t] = "done" ELSE outpc[t] = "done"
      <4>1. LifeOf(t) /\ pc(th)[t] = "unref" /\ stage[t] \in Stages
        BY <2>4, <1>q DEF transport_unref, TypeOK
      <4> QED BY <4>1 DEF LifeOf, Alive, pc, Threads, Stages
    <3>2. Queue'
      <4>1. CASE ref[t] = 1
        <5>1. /\ stage[t] \notin {"queued", "removing"} /\ 0 \in {0, 1}
              /\ "removing" = IF 0 = 1 THEN "queued" ELSE "removing"
              /\ regq' = Append(regq, [t |-> t, action |-> 0])
              /\ stage' = [stage EXCEPT ![t] = "removing"]
          BY <2>4, <4>1, <3>1 DEF transport_unref
        <5> QED BY <5>1, <1>q, QueueIn
      <4>2. CASE ref[t] # 1
        BY <2>4, <4>2, <1>q DEF transport_unref, Queue
      <4> QED BY <4>1, <4>2
    <3>3. ASSUME NEW u \in Transports PROVE LifeOf(u)'
      <4>1. CASE u # t
        BY <4>1, <2>4, <1>q, ZenonT(60) DEF transport_unref, goto, TypeOK, LifeOf, Alive
      <4>2. CASE u = t /\ th = "out"
        BY <4>2, <2>4, <1>q, <3>1 DEF transport_unref, goto, pc, TypeOK, LifeOf, Alive
      <4>3. CASE u = t /\ th = "in"
        BY <4>3, <2>4, <1>q, <3>1 DEF transport_unref, goto, pc, TypeOK, LifeOf, Alive
      <4> QED BY <4>1, <4>2, <4>3 DEF Threads
    <3> QED BY <3>2, <3>3 DEF Life
  <2> QED BY <1>9, <2>1, <2>2, <2>3, <2>4 DEF Teardown
<1>10. ASSUME NEW t \in Transports, host_send(t) \/ link_down(t) PROVE Life'
  BY <1>10, <1>f DEF host_send, link_down
<1> QED
  BY <1>f, <1>1, <1>2, <1>3, <1>4, <1>5, <1>6, <1>7, <1>8, <1>9, <1>10
  DEF Next, MainRegistration

-----------------------------------------------------------------------------
(* The kick.                                                               *)

\* Steps that leave kicked and kicks alone and take no thread to or from the
\* places Kick is about.
LEMMA KickThread ==
  ASSUME TypeOK, Kick, NEW t \in Transports, UNCHANGED <<kicked, kicks>>,
         \/ /\ outpc[t] \notin {"call", "unref", "done"}
            /\ \E p \in {"sync", "read", "offline", "kick", "lock"} :
                 outpc' = [outpc EXCEPT ![t] = p]
         \/ outpc' = outpc,
         \/ /\ inpc[t] \notin {"call", "unref", "done"}
            /\ \E p \in {"read", "closeall", "kick", "lock"} : inpc' = [inpc EXCEPT ![t] = p]
         \/ inpc' = inpc
  PROVE  Kick'
<1> SUFFICES ASSUME NEW u \in Transports PROVE KickOf(u)'
  BY DEF Kick
<1>1. KickOf(u)
  BY DEF Kick
<1>2. /\ outpc'[u] = outpc[u] \/ {outpc[u], outpc'[u]} \cap {"call", "unref", "done"} = {}
      /\ inpc'[u] = inpc[u] \/ {inpc[u], inpc'[u]} \cap {"call", "unref", "done"} = {}
  BY DEF TypeOK
<1> QED BY <1>1, <1>2 DEF KickOf

\* Every step keeps Kick.
LEMMA KickStep ==
  ASSUME TypeOK, Life, Kick, [Next]_vars
  PROVE  Kick'
<1> USE DEF vars, mainVars, lifeVars, stateVars, threadVars, hostVars, threadOnly
<1>f. ASSUME UNCHANGED <<kicked, kicks, outpc, inpc>> PROVE Kick'
  BY <1>f DEF Kick, KickOf
<1>1. ASSUME NEW t \in Transports, start_transport(t) PROVE Kick'
  <2>1. regq[1].t = t /\ regq[1].action = 1 /\ 1 \in DOMAIN regq
    BY <1>1, Taken, Shape DEF TypeOK, start_transport
  <2>2. stage[t] = "queued"
    BY <2>1 DEF Life, Queue
  <2>3. outpc[t] = "none" /\ inpc[t] = "none"
    BY <2>2 DEF Life, LifeOf
  <2> QED BY <1>1, <2>3, KickThread DEF start_transport
<1>2. ASSUME NEW t \in Transports,
             register_socket_transport(t) \/ list_transport(t) \/ free_transport(t)
      PROVE Kick'
  BY <1>2, <1>f DEF register_socket_transport, list_transport, free_transport
<1>3. ASSUME NEW t \in Transports, MainPacket(t) PROVE Kick'
  <2>1. \E cmd : receive(t, cmd)
    BY <1>3 DEF MainPacket, handle_SYNC1, handle_SYNC0, handle_CNXN, handle_OPEN, refuse_OPEN,
                handle_OKAY, handle_CLSE, drop_packet
  <2> QED BY <2>1, <1>f DEF receive
<1>4. ASSUME NEW s \in Sockets, MainSocket(s) PROVE Kick'
  BY <1>4, <1>f DEF MainSocket, smart_socket_connect, remote_socket_enqueue, remote_socket_close
<1>5. ASSUME NEW t \in Transports, Output(t) PROVE Kick'
  <2>1. CASE out_sync(t)
    BY <2>1, KickThread DEF out_sync
  <2>2. CASE out_read(t)
    BY <2>2, <1>f DEF out_read
  <2>3. CASE out_fail(t)
    BY <2>3, KickThread DEF out_fail, after_loop
  <2>4. CASE out_offline(t)
    BY <2>4, KickThread DEF out_offline
  <2> QED BY <1>5, <2>1, <2>2, <2>3, <2>4 DEF Output
<1>6. ASSUME NEW t \in Transports, InputSure(t) \/ in_write(t) PROVE Kick'
  <2>1. CASE in_stop(t)
    BY <2>1, KickThread DEF in_stop, in_next
  <2>2. CASE in_closed(t)
    BY <2>2, KickThread DEF in_closed
  <2>3. CASE in_sync(t) \/ in_drop(t) \/ in_write(t) \/ \E s \in Sockets : in_close_socket(t, s)
    BY <2>3, <1>f DEF in_sync, in_drop, in_write, in_close_socket
  <2> QED BY <1>6, <2>1, <2>2, <2>3 DEF InputSure
<1>7. ASSUME NEW t \in Transports, NEW th \in Threads, Teardown(th, t) PROVE Kick'
  <2> SUFFICES ASSUME NEW u \in Transports PROVE KickOf(u)'
    BY DEF Kick
  <2>k. KickOf(u)
    BY DEF Kick
  <2>g. ASSUME NEW step, goto(th, t, step)
        PROVE  /\ outpc' = [outpc EXCEPT ![t] = IF th = "out" THEN step ELSE @]
               /\ inpc' = [inpc EXCEPT ![t] = IF th = "in" THEN step ELSE @]
    BY <2>g DEF goto, TypeOK, Threads
  <2>t. KickOf(t) /\ th \in {"out", "in"} /\ t \in DOMAIN kicked /\ t \in DOMAIN kicks
    BY DEF Kick, Threads, TypeOK
  <2>o. CASE u # t
    <3>1. outpc'[u] = outpc[u] /\ inpc'[u] = inpc[u]
      BY <1>7, <2>o, <2>g, SMTT(30) DEF Teardown, kick_check, kick_lock, kick_call, transport_unref, TypeOK
    <3>2. kicked'[u] = kicked[u] /\ kicks'[u] = kicks[u]
      BY <1>7, <2>o, SMTT(30) DEF Teardown, kick_check, kick_lock, kick_call, transport_unref, TypeOK
    <3> QED BY <3>1, <3>2, <2>k DEF KickOf
  <2>p. ASSUME NEW step, goto(th, t, step)
        PROVE  /\ th = "out" => outpc'[t] = step /\ inpc'[t] = inpc[t]
               /\ th = "in" => outpc'[t] = outpc[t] /\ inpc'[t] = step
    BY <2>p, <2>g DEF TypeOK
  <2>1. CASE u = t /\ kick_check(th, t)
    BY <2>1, <2>p, <2>t DEF kick_check, pc, KickOf
  <2>2. CASE u = t /\ kick_lock(th, t)
    <3>1. kicked'[t] /\ kicks'[t] = kicks[t]
      BY <2>2, <2>t DEF kick_lock
    <3>2. pc(th)[t] = "lock" /\ goto(th, t, IF ~kicked[t] THEN "call" ELSE "unref")
      BY <2>2 DEF kick_lock, first_to_kick
    <3> QED BY <3>1, <3>2, <2>2, <2>p, <2>t DEF pc, KickOf
  <2>3. CASE u = t /\ kick_call(th, t)
    <3>1. pc(th)[t] = "call" /\ goto(th, t, "unref") /\ kicks[t] = 0 /\ kicked[t]
      BY <2>3, <2>t DEF kick_call, pc, KickOf
    <3>2. kicks'[t] = 1 /\ kicked'[t]
      BY <2>3, <2>t, <3>1 DEF kick_call
    <3>3. outpc[t] # "call" \/ inpc[t] # "call"
      BY <2>t DEF KickOf
    <3>4. outpc'[t] # "call" /\ inpc'[t] # "call"
      BY <3>1, <3>3, <2>p, <2>t DEF pc
    <3> QED BY <3>2, <3>4, <2>3 DEF KickOf
  <2>4. CASE u = t /\ transport_unref(th, t)
    <3>1. pc(th)[t] = "unref" /\ goto(th, t, "done") /\ kicked[t]
      BY <2>4, <2>t DEF transport_unref, pc, KickOf
    <3>2. kicked'[t] /\ kicks'[t] = kicks[t]
      BY <2>4, <2>t, <3>1 DEF transport_unref
    <3> QED BY <3>1, <3>2, <2>4, <2>p, <2>t DEF pc, KickOf
  <2> QED BY <1>7, <2>o, <2>1, <2>2, <2>3, <2>4 DEF Teardown
<1>8. ASSUME NEW t \in Transports, host_send(t) \/ link_down(t) PROVE Kick'
  BY <1>8, <1>f DEF host_send, link_down
<1> QED
  BY <1>f, <1>1, <1>2, <1>3, <1>4, <1>5, <1>6, <1>7, <1>8
  DEF Next, MainRegistration

-----------------------------------------------------------------------------
(* The end of a transport.                                                 *)

Packet == SyncPacket \cup AppPacket

\* SYNC(0) is queued for the input thread of u only when u is over.
StopOf(u) == \A i \in DOMAIN toIn[u] : toIn[u][i].cmd = "SYNC0" => Over(u)

\* What a send adds to the input queues.
LEMMA SendEffect ==
  ASSUME TypeOK, NEW t \in Transports, NEW p \in Packet, send_packet(t, p), NEW u \in Transports
  PROVE  /\ u # t => toIn'[u] = toIn[u]
         /\ u = t => /\ DOMAIN toIn'[u] = 1..(Len(toIn[u]) + 1)
                     /\ DOMAIN toIn[u] = 1..Len(toIn[u]) /\ Len(toIn[u]) \in Nat
                     /\ \A i \in 1..Len(toIn[u]) : toIn'[u][i] = toIn[u][i]
                     /\ toIn'[u][Len(toIn[u]) + 1] = p
                     /\ toIn'[u] # <<>>
<1>1. toIn[u] \in Seq(Packet) /\ u \in DOMAIN toIn
  BY DEF TypeOK, Packet
<1>2. DOMAIN toIn[u] = 1..Len(toIn[u]) /\ Len(toIn[u]) \in Nat
  BY <1>1, Shape
<1>3. u = t => toIn'[u] = Append(toIn[u], p)
  BY <1>1 DEF send_packet
<1>4. u # t => toIn'[u] = toIn[u]
  BY <1>1 DEF send_packet
<1> QED BY <1>1, <1>2, <1>3, <1>4, Appended

LEMMA SendNoStop ==
  ASSUME TypeOK, End, NEW t \in Transports, NEW p \in Packet, send_packet(t, p),
         p.cmd # "SYNC0", NEW u \in Transports
  PROVE  \A i \in DOMAIN toIn'[u] : toIn'[u][i].cmd = "SYNC0" => Over(u)
<1>1. StopOf(u)
  BY DEF End, EndOf, StopOf
<1>2. CASE u # t
  BY <1>1, <1>2, SendEffect DEF StopOf
<1>3. CASE u = t
  <2>1. /\ DOMAIN toIn'[u] = 1..(Len(toIn[u]) + 1)
        /\ DOMAIN toIn[u] = 1..Len(toIn[u]) /\ Len(toIn[u]) \in Nat
        /\ \A i \in 1..Len(toIn[u]) : toIn'[u][i] = toIn[u][i]
        /\ toIn'[u][Len(toIn[u]) + 1] = p
    BY <1>3, SendEffect
  <2> SUFFICES ASSUME NEW i \in DOMAIN toIn'[u], toIn'[u][i].cmd = "SYNC0" PROVE Over(u)
    OBVIOUS
  <2>2. i # Len(toIn[u]) + 1
    BY <2>1
  <2>3. i \in DOMAIN toIn[u]
    BY <2>1, <2>2
  <2> QED BY <1>1, <2>1, <2>3 DEF StopOf
<1> QED BY <1>2, <1>3

\* Steps that do not touch what main has still to handle.
LEMMA EndKept ==
  ASSUME End, NEW u \in Transports,
         toMain'[u] = toMain[u], conn'[u] = conn[u], online'[u] = online[u],
         outpc'[u] \in KickSteps <=> outpc[u] \in KickSteps,
         inpc'[u] \in KickSteps \cup {"closeall"} => Over(u),
         \A i \in DOMAIN toIn'[u] : toIn'[u][i].cmd = "SYNC0" => Over(u)
  PROVE  EndOf(u)'
BY DEF End, EndOf, Over

\* Steps of main and of the sockets that at most send on a transport.
LEMMA EndSend ==
  ASSUME TypeOK, End, UNCHANGED <<toMain, conn, online, outpc, inpc>>,
         \/ toIn' = toIn
         \/ \E t \in Transports, p \in Packet : send_packet(t, p) /\ p.cmd # "SYNC0"
  PROVE  End'
<1> SUFFICES ASSUME NEW u \in Transports PROVE EndOf(u)'
  BY DEF End
<1>1. \A i \in DOMAIN toIn'[u] : toIn'[u][i].cmd = "SYNC0" => Over(u)
  BY SendNoStop DEF End, EndOf
<1>2. inpc[u] \in KickSteps \cup {"closeall"} => Over(u)
  BY DEF End, EndOf
<1> QED BY <1>1, <1>2, EndKept

\* main takes a packet other than SYNC(0) from t: t was not over, and is not.
LEMMA EndReceive ==
  ASSUME TypeOK, End, NEW t \in Transports, NEW cmd, receive(t, cmd), cmd # "SYNC0",
         \/ toIn' = toIn
         \/ \E u \in Transports, p \in Packet : send_packet(u, p) /\ p.cmd # "SYNC0",
         \A u \in Transports \ {t} : conn'[u] = conn[u] /\ online'[u] = online[u],
         online'[t] => conn'[t] # "OFFLINE"
  PROVE  End'
<1> SUFFICES ASSUME NEW u \in Transports PROVE EndOf(u)'
  BY DEF End
<1>1. \A i \in DOMAIN toIn'[u] : toIn'[u][i].cmd = "SYNC0" => Over(u)
  BY SendNoStop DEF End, EndOf
<1>2. /\ toMain[t] \in Seq(Packet) /\ toMain[t] # <<>> /\ Head(toMain[t]).cmd = cmd
      /\ toMain' = [toMain EXCEPT ![t] = Tail(@)] /\ toMain \in [Transports -> Seq(Packet)]
      /\ outpc' = outpc /\ inpc' = inpc
  BY DEF receive, TypeOK, Packet, threadVars
<1>3. inpc[u] \in KickSteps \cup {"closeall"} => Over(u)
  BY DEF End, EndOf
<1>4. CASE u # t
  <2>1. toMain'[u] = toMain[u]
    BY <1>2, <1>4
  <2> QED BY <1>1, <1>2, <1>3, <1>4, <2>1, EndKept
<1>5. CASE u = t
  <2>1. /\ toMain'[t] = Tail(toMain[t])
        /\ DOMAIN toMain[t] = 1..Len(toMain[t])
    BY <1>2, Shape
  <2>2. /\ Len(toMain[t]) \in Nat \ {0} /\ toMain[t][1].cmd # "SYNC0"
        /\ toMain'[t] \in Seq(Packet)
        /\ Len(toMain'[t]) = Len(toMain[t]) - 1
        /\ DOMAIN toMain'[t] = 1..(Len(toMain[t]) - 1)
        /\ \A i \in 1..(Len(toMain[t]) - 1) : toMain'[t][i] = toMain[t][i + 1]
    BY <1>2, <2>1, Taken
  <2>3. EndOf(t) /\ ~Over(t)
    BY <1>2 DEF End, Over
  <2>4. outpc[t] \in KickSteps => toMain'[t] # <<>>
    <3>1. outpc[t] \in KickSteps => Len(toMain[t]) # 1
      BY <2>1, <2>2, <2>3 DEF EndOf
    <3>2. toMain'[t] = <<>> <=> Len(toMain'[t]) = 0
      BY <2>2, Shape
    <3> QED BY <3>1, <3>2, <2>2
  <2>5. \A i \in DOMAIN toMain'[t] :
          toMain'[t][i].cmd = "SYNC0" <=> outpc[t] \in KickSteps /\ i = Len(toMain'[t])
    BY <2>1, <2>2, <2>3 DEF EndOf
  <2>6. ~ Over(t)'
    BY <2>4, <1>2 DEF Over
  <2> QED BY <1>1, <1>2, <1>3, <1>5, <2>3, <2>5, <2>6 DEF EndOf
<1> QED BY <1>4, <1>5

\* The output thread adds p to what main has to handle.
LEMMA EndOutput ==
  ASSUME TypeOK, End, NEW t \in Transports, NEW p \in Packet, NEW step \in OutSteps,
         outpc[t] \notin KickSteps, p.cmd = "SYNC0" <=> step \in KickSteps,
         toMain' = [toMain EXCEPT ![t] = Append(@, p)],
         outpc' = [outpc EXCEPT ![t] = step],
         UNCHANGED <<conn, online, inpc, toIn>>
  PROVE  End'
<1> SUFFICES ASSUME NEW u \in Transports PROVE EndOf(u)'
  BY DEF End
<1>1. EndOf(u) /\ toMain[u] \in Seq(Packet) /\ u \in DOMAIN toMain /\ u \in DOMAIN outpc
  BY DEF End, TypeOK, Packet
<1>2. CASE u # t
  <2>1. toMain'[u] = toMain[u] /\ outpc'[u] = outpc[u]
    BY <1>1, <1>2
  <2> QED BY <1>1, <2>1, EndKept DEF EndOf
<1>3. CASE u = t
  <2>1. /\ toMain'[t] = Append(toMain[t], p) /\ outpc'[t] = step
        /\ DOMAIN toMain[t] = 1..Len(toMain[t]) /\ Len(toMain[t]) \in Nat
    BY <1>1, <1>3, Shape
  <2>2. /\ toMain'[t] # <<>>
        /\ Len(toMain'[t]) = Len(toMain[t]) + 1
        /\ DOMAIN toMain'[t] = 1..(Len(toMain[t]) + 1)
        /\ \A i \in 1..Len(toMain[t]) : toMain'[t][i] = toMain[t][i]
        /\ toMain'[t][Len(toMain[t]) + 1] = p
    BY <1>1, <1>3, <2>1, Appended
  <2>3. ~Over(t) /\ ~ Over(t)'
    BY <2>2 DEF Over
  <2>4. \A i \in DOMAIN toMain'[t] :
          toMain'[t][i].cmd = "SYNC0" <=> outpc'[t] \in KickSteps /\ i = Len(toMain'[t])
    BY <1>1, <1>3, <2>1, <2>2 DEF EndOf
  <2> QED BY <1>1, <1>3, <2>3, <2>4 DEF EndOf
<1> QED BY <1>2, <1>3


\* Every step keeps End.
LEMMA EndStep ==
  ASSUME TypeOK, Life, End, Tied, [Next]_vars
  PROVE  End'
<1> USE DEF vars, mainVars, lifeVars, stateVars, threadVars, hostVars, threadOnly
<1>p. /\ \A n \in Nat : Sync(1, n) \in Packet /\ Sync(1, n).cmd # "SYNC0"
      /\ Sync(0, 0) \in Packet /\ Sync(0, 0).cmd = "SYNC0"
      /\ \A c \in {"CNXN", "OPEN", "OKAY", "CLSE", "WRTE"}, i \in Sockets \cup {0} :
           [cmd |-> c, id |-> i] \in Packet /\ [cmd |-> c, id |-> i].cmd # "SYNC0"
  BY PacketTypes DEF Packet, Sync
<1>l. \A s \in Sockets : sock[s].st = "linked" => sock[s].t \in Transports
  BY DEF Tied, TiedOf
<1>f. ASSUME UNCHANGED <<toMain, toIn, conn, online, outpc, inpc>> PROVE End'
  BY <1>f DEF End, EndOf, Over
<1>k. ASSUME NEW t \in Transports, UNCHANGED <<toMain, conn, online>>,
             \A u \in Transports : outpc'[u] \in KickSteps <=> outpc[u] \in KickSteps,
             \A u \in Transports \ {t} : inpc'[u] = inpc[u] /\ toIn'[u] = toIn[u],
             inpc'[t] \in KickSteps \cup {"closeall"} => Over(t),
             \A i \in DOMAIN toIn'[t] : toIn'[t][i].cmd = "SYNC0" => Over(t)
      PROVE  End'
  BY <1>k, EndKept DEF End, EndOf
<1>1. ASSUME NEW t \in Transports, start_transport(t) PROVE End'
  <2>1. regq[1].t = t /\ regq[1].action = 1 /\ 1 \in DOMAIN regq
    BY <1>1, Taken, Shape DEF TypeOK, start_transport
  <2>2. stage[t] = "queued"
    BY <2>1 DEF Life, Queue
  <2>3. outpc[t] = "none"
    BY <2>2 DEF Life, LifeOf
  <2>4. \A u \in Transports : outpc'[u] \in KickSteps <=> outpc[u] \in KickSteps
    BY <1>1, <2>3 DEF start_transport, TypeOK, KickSteps
  <2>5. inpc'[t] = "read" /\ \A u \in Transports \ {t} : inpc'[u] = inpc[u]
    BY <1>1 DEF start_transport, TypeOK
  <2>6. "read" \notin KickSteps \cup {"closeall"}
    BY DEF KickSteps
  <2>7. UNCHANGED <<toMain, toIn, conn, online>>
    BY <1>1 DEF start_transport
  <2> QED BY <2>4, <2>5, <2>6, <2>7, <1>k DEF End, EndOf
<1>2. ASSUME NEW t \in Transports, register_socket_transport(t) \/ list_transport(t) PROVE End'
  BY <1>2, <1>f DEF register_socket_transport, list_transport
<1>3. ASSUME NEW t \in Transports, free_transport(t) PROVE End'
  <2>1. regq[1].t = t /\ regq[1].action = 0 /\ 1 \in DOMAIN regq
    BY <1>3, Taken, Shape DEF TypeOK, free_transport
  <2>2. stage[t] = "removing"
    BY <2>1 DEF Life, Queue
  <2>3. Over(t)
    BY <2>2 DEF Life, LifeOf, End, EndOf, KickSteps
  <2>4. toMain' = toMain
    BY <1>3, <2>3 DEF free_transport, Over, TypeOK
  <2>5. toIn'[t] = <<>> /\ \A u \in Transports \ {t} : toIn'[u] = toIn[u]
    BY <1>3 DEF free_transport, TypeOK
  <2> QED BY <1>3, <2>3, <2>4, <2>5, <1>k DEF free_transport
<1>4. ASSUME NEW t \in Transports, MainPacket(t) PROVE End'
  <2>1. CASE handle_SYNC1(t)
    <3>1. receive(t, "SYNC1") /\ Head(toMain[t]) \in Packet /\ Head(toMain[t]).cmd = "SYNC1"
      BY <2>1, ReceiveTypes DEF handle_SYNC1, receive, Packet
    <3> QED BY <2>1, <3>1, EndReceive DEF handle_SYNC1, End, EndOf
  <2>2. CASE handle_SYNC0(t)
    <3>1. receive(t, "SYNC0") /\ Head(toMain[t]) \in Packet
      BY <2>2, ReceiveTypes DEF handle_SYNC0, Packet
    <3>2. /\ toMain[t] \in Seq(Packet) /\ toMain[t] # <<>> /\ Head(toMain[t]).cmd = "SYNC0"
          /\ toMain' = [toMain EXCEPT ![t] = Tail(@)] /\ toMain \in [Transports -> Seq(Packet)]
          /\ outpc' = outpc /\ inpc' = inpc
      BY <3>1 DEF receive, TypeOK, Packet
    <3>3. outpc[t] \in KickSteps /\ Len(toMain[t]) = 1
      <4>1. 1 \in DOMAIN toMain[t] /\ toMain[t][1].cmd = "SYNC0"
        BY <3>2, Taken, Shape
      <4> QED BY <4>1 DEF End, EndOf
    <3>4. toMain'[t] = <<>>
      <4>1. toMain'[t] = Tail(toMain[t]) /\ Tail(toMain[t]) \in Seq(Packet)
            /\ Len(Tail(toMain[t])) = 0
        BY <3>2, <3>3, Taken
      <4> QED BY <4>1, Shape
    <3>5. Over(t)' /\ conn'[t] = "OFFLINE" /\ ~online'[t]
      BY <2>2, <3>2, <3>3, <3>4 DEF Over, handle_SYNC0, handle_offline, TypeOK
    <3>6. ASSUME NEW u \in Transports, u # t PROVE EndOf(u)'
      <4>1. toMain'[u] = toMain[u] /\ conn'[u] = conn[u] /\ online'[u] = online[u]
        BY <2>2, <3>2, <3>6 DEF handle_SYNC0, handle_offline, TypeOK
      <4>2. toIn'[u] = toIn[u]
        BY <2>2, <3>1, <3>6, SendEffect DEF handle_SYNC0
      <4> QED BY <3>2, <4>1, <4>2, EndKept DEF End, EndOf
    <3>7. EndOf(t)'
      <4>1. DOMAIN toMain'[t] = {}
        BY <3>4
      <4> QED BY <3>5, <4>1 DEF EndOf
    <3> QED BY <3>6, <3>7 DEF End
  <2>3. CASE handle_CNXN(t)
    <3>1. receive(t, "CNXN") /\ send_packet(t, [cmd |-> "CNXN", id |-> 0])
      BY <2>3 DEF handle_CNXN
    <3>2. /\ \A u \in Transports \ {t} : conn'[u] = conn[u] /\ online'[u] = online[u]
          /\ conn'[t] # "OFFLINE"
      BY <2>3 DEF handle_CNXN, TypeOK
    <3>3. [cmd |-> "CNXN", id |-> 0] \in Packet /\ [cmd |-> "CNXN", id |-> 0].cmd # "SYNC0"
      BY <1>p
    <3> QED BY <3>1, <3>2, <3>3, EndReceive
  <2>4. ASSUME NEW cmd \in {"OPEN", "OKAY", "CLSE"}, receive(t, cmd), UNCHANGED <<conn, online>>,
               \/ toIn' = toIn
               \/ \E u \in Transports, p \in Packet : send_packet(u, p) /\ p.cmd # "SYNC0"
        PROVE  End'
    BY <2>4, EndReceive DEF End, EndOf
  <2>5. ASSUME NEW s \in Sockets, handle_OPEN(t, s) PROVE End'
    <3>1. [cmd |-> "OKAY", id |-> s] \in Packet /\ [cmd |-> "OKAY", id |-> s].cmd # "SYNC0"
      BY <1>p
    <3> QED BY <2>5, <3>1, <2>4 DEF handle_OPEN
  <2>6. CASE refuse_OPEN(t)
    <3>1. [cmd |-> "CLSE", id |-> 0] \in Packet /\ [cmd |-> "CLSE", id |-> 0].cmd # "SYNC0"
      BY <1>p
    <3> QED BY <2>6, <3>1, <2>4 DEF refuse_OPEN
  <2>7. CASE handle_OKAY(t)
    BY <2>7, <2>4 DEF handle_OKAY
  <2>8. CASE handle_CLSE(t)
    <3> DEFINE s == Head(toMain[t]).id
    <3>1. s \in Sockets /\ receive(t, "CLSE") /\ UNCHANGED <<conn, online>>
      BY <2>8 DEF handle_CLSE
    <3>2. [cmd |-> "CLSE", id |-> s] \in Packet /\ [cmd |-> "CLSE", id |-> s].cmd # "SYNC0"
      BY <3>1, <1>p
    <3>3. \/ toIn' = toIn
          \/ sock[s].t \in Transports /\ send_packet(sock[s].t, [cmd |-> "CLSE", id |-> s])
      BY <2>8, <3>1, <1>l DEF handle_CLSE
    <3> HIDE DEF s
    <3> QED BY <3>1, <3>2, <3>3, <2>4
  <2>9. CASE drop_packet(t)
    BY <2>9, <2>4 DEF drop_packet
  <2> QED BY <1>4, <2>1, <2>2, <2>3, <2>5, <2>6, <2>7, <2>8, <2>9 DEF MainPacket
<1>5. ASSUME NEW s \in Sockets, MainSocket(s) PROVE End'
  <2>1. \A c \in {"OPEN", "CLSE", "WRTE"} :
          [cmd |-> c, id |-> s] \in Packet /\ [cmd |-> c, id |-> s].cmd # "SYNC0"
    BY <1>p
  <2>2. \E t \in Transports, c \in {"OPEN", "CLSE", "WRTE"} : send_packet(t, [cmd |-> c, id |-> s])
    BY <1>5, <1>l DEF MainSocket, smart_socket_connect, remote_socket_enqueue, remote_socket_close
  <2>3. UNCHANGED <<toMain, conn, online, outpc, inpc>>
    BY <1>5 DEF MainSocket, smart_socket_connect, remote_socket_enqueue, remote_socket_close
  <2> QED BY <2>1, <2>2, <2>3, EndSend
<1>6. ASSUME NEW t \in Transports, Output(t) PROVE End'
  <2>1. CASE out_sync(t)
    <3>1. first_packet(t) \in Packet /\ first_packet(t).cmd # "SYNC0"
      BY <1>p, SMTT(30) DEF first_packet, TypeOK
    <3> QED BY <2>1, <3>1, EndOutput DEF out_sync, KickSteps, OutSteps
  <2>2. CASE out_read(t)
    <3>1. Head(inbound[t]) \in AppPacket
      BY <2>2, Taken DEF TypeOK, out_read
    <3>2. Head(inbound[t]) \in Packet /\ Head(inbound[t]).cmd # "SYNC0"
      BY <3>1 DEF Packet, AppPacket
    <3>3. outpc' = [outpc EXCEPT ![t] = "read"]
      BY <2>2 DEF out_read, TypeOK
    <3> QED BY <2>2, <3>2, <3>3, EndOutput DEF out_read, KickSteps, OutSteps
  <2>3. CASE out_fail(t)
    BY <2>3, <1>k DEF out_fail, after_loop, KickSteps, TypeOK, End, EndOf
  <2>4. CASE out_offline(t)
    BY <2>4, <1>p, EndOutput DEF out_offline, KickSteps, OutSteps
  <2> QED BY <1>6, <2>1, <2>2, <2>3, <2>4 DEF Output
<1>7. ASSUME NEW t \in Transports, InputSure(t) \/ in_write(t) PROVE End'
  <2>t. ASSUME in_next(t), toIn' = [toIn EXCEPT ![t] = Tail(@)]
        PROVE  /\ \A u \in Transports \ {t} : toIn'[u] = toIn[u]
               /\ \A i \in DOMAIN toIn'[t] : toIn'[t][i].cmd = "SYNC0" => Over(t)
               /\ Head(toIn[t]).cmd = "SYNC0" => Over(t)
    <3>1. toIn[t] \in Seq(Packet) /\ toIn[t] # <<>> /\ toIn'[t] = Tail(toIn[t])
      BY <2>t DEF in_next, TypeOK, Packet
    <3>2. /\ Head(toIn[t]) = toIn[t][1] /\ Len(toIn[t]) \in Nat \ {0}
          /\ DOMAIN toIn[t] = 1..Len(toIn[t])
          /\ DOMAIN toIn'[t] = 1..(Len(toIn[t]) - 1)
          /\ \A i \in 1..(Len(toIn[t]) - 1) : toIn'[t][i] = toIn[t][i + 1]
      BY <3>1, Taken, Shape
    <3>3. \A i \in DOMAIN toIn[t] : toIn[t][i].cmd = "SYNC0" => Over(t)
      BY DEF End, EndOf
    <3>4. \A i \in DOMAIN toIn'[t] : toIn'[t][i].cmd = "SYNC0" => Over(t)
      BY <3>2, <3>3, SMTT(30)
    <3>5. 1 \in DOMAIN toIn[t]
      BY <3>2
    <3>6. Head(toIn[t]).cmd = "SYNC0" => Over(t)
      BY <3>2, <3>3, <3>5
    <3>7. \A u \in Transports \ {t} : toIn'[u] = toIn[u]
      BY <2>t DEF TypeOK
    <3> QED BY <3>4, <3>6, <3>7
  <2>0. ~ "read" \in KickSteps \cup {"closeall"}
    BY DEF KickSteps
  <2>1. CASE in_stop(t)
    BY <2>1, <2>t, <1>k DEF in_stop, TypeOK
  <2>2. CASE in_sync(t) \/ in_drop(t) \/ in_write(t)
    BY <2>2, <2>t, <2>0, <1>k DEF in_sync, in_drop, in_write, in_next
  <2>3. ASSUME NEW s \in Sockets, in_close_socket(t, s) PROVE End'
    <3>1. [cmd |-> "CLSE", id |-> s] \in Packet /\ [cmd |-> "CLSE", id |-> s].cmd # "SYNC0"
      BY <1>p
    <3> QED BY <2>3, <3>1, EndSend DEF in_close_socket
  <2>4. CASE in_closed(t)
    BY <2>4, <1>k DEF in_closed, TypeOK, End, EndOf
  <2> QED BY <1>7, <2>1, <2>2, <2>3, <2>4 DEF InputSure
<1>8. ASSUME NEW t \in Transports, NEW th \in Threads, Teardown(th, t) PROVE End'
  <2>1. /\ \E step \in KickSteps : goto(th, t, step)
        /\ pc(th)[t] \in KickSteps /\ UNCHANGED <<toMain, toIn, conn, online>>
    BY <1>8 DEF Teardown, kick_check, kick_lock, kick_call, transport_unref, KickSteps
  <2>2. /\ \A u \in Transports : outpc'[u] \in KickSteps <=> outpc[u] \in KickSteps
        /\ \A u \in Transports \ {t} : inpc'[u] = inpc[u]
        /\ inpc'[t] \in KickSteps \cup {"closeall"} => inpc[t] \in KickSteps \cup {"closeall"}
    BY <2>1 DEF goto, pc, Threads, TypeOK
  <2> QED BY <2>1, <2>2, <1>k DEF End, EndOf
<1>9. ASSUME NEW t \in Transports, host_send(t) \/ link_down(t) PROVE End'
  BY <1>9, <1>f DEF host_send, link_down
<1> QED
  BY <1>f, <1>1, <1>2, <1>3, <1>4, <1>5, <1>6, <1>7, <1>8, <1>9
  DEF Next, MainRegistration

-----------------------------------------------------------------------------
(* The sockets.                                                            *)

\* run_transport_disconnects(t) leaves no socket linked to t.
LEMMA Disconnected ==
  ASSUME TypeOK, Tied, NEW t \in Transports, NEW s \in Sockets,
         sock' = run_transport_disconnects(t)
  PROVE  /\ sock'[s].st = "linked" => sock[s].st = "linked" /\ sock'[s].t # t
         /\ sock'[s] = sock[s] \/ sock'[s] = DeadSocket
<1>1. sock'[s] = IF s \in Linked(t) THEN DeadSocket ELSE sock[s]
  BY DEF run_transport_disconnects
<1>2. sock[s].st = "linked" /\ sock[s].t = t => s \in Linked(t)
  BY DEF TypeOK, Linked
<1>3. DeadSocket.st # "linked"
  BY DEF DeadSocket
<1> QED BY <1>1, <1>2, <1>3

\* Every step keeps Tied.
LEMMA TiedStep ==
  ASSUME TypeOK, Life, End, Tied, [Next]_vars
  PROVE  Tied'
<1> USE DEF vars, mainVars, lifeVars, stateVars, threadVars, hostVars, threadOnly
<1>t. \A s \in Sockets : TiedOf(s)
  BY DEF Tied
<1>d. /\ DeadSocket.st = "dead" /\ DeadSocket.t = NoTransport
      /\ NewSocket.st = "new" /\ NewSocket.t = NoTransport
  BY DEF DeadSocket, NewSocket
<1>f. ASSUME UNCHANGED <<sock, online>>,
             \A u \in Transports : inpc'[u] = inpc[u] \/ inpc'[u] \in {"read", "closeall"}
                                     \/ inpc[u] \notin {"read", "closeall"}
      PROVE  Tied'
  BY <1>f, <1>t DEF Tied, TiedOf
<1>s. ASSUME NEW s \in Sockets, UNCHANGED <<online, inpc>>,
             sock' = [sock EXCEPT ![s] = DeadSocket]
      PROVE  Tied'
  <2> SUFFICES ASSUME NEW r \in Sockets PROVE TiedOf(r)'
    BY DEF Tied
  <2> QED BY <1>s, <1>t, <1>d DEF TiedOf, TypeOK
<1>1. ASSUME NEW t \in Transports, register_socket_transport(t) \/ list_transport(t) PROVE Tied'
  BY <1>1, <1>f DEF register_socket_transport, list_transport
<1>2. ASSUME NEW t \in Transports, start_transport(t) PROVE Tied'
  BY <1>2, <1>f DEF start_transport, TypeOK
<1>3. ASSUME NEW t \in Transports, free_transport(t) PROVE Tied'
  <2> SUFFICES ASSUME NEW s \in Sockets PROVE TiedOf(s)'
    BY DEF Tied
  <2>1. sock'[s] = sock[s] \/ sock'[s] = DeadSocket
    BY <1>3, Disconnected DEF free_transport
  <2> QED BY <1>3, <2>1, <1>t, <1>d DEF free_transport, TiedOf
<1>4. ASSUME NEW t \in Transports, MainPacket(t) PROVE Tied'
  <2>i. ASSUME NEW cmd, receive(t, cmd) PROVE inpc' = inpc
    BY <2>i DEF receive
  <2>1. CASE handle_SYNC1(t) \/ refuse_OPEN(t) \/ drop_packet(t)
    BY <2>1, <2>i, <1>f DEF handle_SYNC1, refuse_OPEN, drop_packet
  <2>2. CASE handle_SYNC0(t)
    <3> SUFFICES ASSUME NEW s \in Sockets PROVE TiedOf(s)'
      BY DEF Tied
    <3>1. /\ sock'[s].st = "linked" => sock[s].st = "linked" /\ sock'[s].t # t
          /\ sock'[s] = sock[s] \/ sock'[s] = DeadSocket
      BY <2>2, Disconnected DEF handle_SYNC0, handle_offline
    <3>2. \A u \in Transports \ {t} : online'[u] = online[u]
      BY <2>2 DEF handle_SYNC0, handle_offline, TypeOK
    <3>3. inpc' = inpc
      BY <2>2, <2>i DEF handle_SYNC0
    <3> QED BY <3>1, <3>2, <3>3, <1>t, <1>d DEF TiedOf
  <2>3. CASE handle_CNXN(t)
    <3> SUFFICES ASSUME NEW s \in Sockets PROVE TiedOf(s)'
      BY DEF Tied
    <3>1. sock'[s] = sock[s] \/ sock'[s] = DeadSocket
      BY <2>3, Disconnected DEF handle_CNXN
    <3>2. \A u \in Transports : online[u] => online'[u]
      BY <2>3 DEF handle_CNXN, TypeOK
    <3>3. inpc' = inpc
      BY <2>3, <2>i DEF handle_CNXN
    <3> QED BY <3>1, <3>2, <3>3, <1>t, <1>d DEF TiedOf
  <2>4. ASSUME NEW s \in Sockets, handle_OPEN(t, s) PROVE Tied'
    <3> SUFFICES ASSUME NEW r \in Sockets PROVE TiedOf(r)'
      BY DEF Tied
    <3>1. inpc' = inpc /\ online' = online /\ online[t]
      BY <2>4, <2>i DEF handle_OPEN
    <3>2. sock' = [sock EXCEPT ![s] = [st |-> "linked", t |-> t]]
      BY <2>4 DEF handle_OPEN
    <3> QED BY <3>1, <3>2, <1>t DEF TiedOf, TypeOK
  <2>5. CASE handle_OKAY(t)
    <3> DEFINE s == Head(toMain[t]).id
    <3> SUFFICES ASSUME NEW r \in Sockets PROVE TiedOf(r)'
      BY DEF Tied
    <3>1. inpc' = inpc /\ online' = online /\ online[t] /\ s \in Sockets
      BY <2>5, <2>i DEF handle_OKAY
    <3>2. sock' = [sock EXCEPT ![s] = IF @.st = "waiting" THEN [st |-> "linked", t |-> t] ELSE @]
      BY <2>5 DEF handle_OKAY
    <3> HIDE DEF s
    <3> QED BY <3>1, <3>2, <1>t DEF TiedOf, TypeOK
  <2>6. CASE handle_CLSE(t)
    BY <2>6, <2>i, <1>s DEF handle_CLSE
  <2> QED BY <1>4, <2>1, <2>2, <2>3, <2>4, <2>5, <2>6 DEF MainPacket
<1>5. ASSUME NEW s \in Sockets, MainSocket(s) PROVE Tied'
  <2>1. ASSUME NEW t \in Transports, smart_socket_connect(t, s) PROVE Tied'
    <3>1. t \in tlist /\ conn[t] # "OFFLINE"
      BY <2>1 DEF smart_socket_connect, acquire_one_transport
    <3>2. inpc[t] # "none"
      BY <3>1 DEF Life, LifeOf
    <3>3. inpc[t] \notin KickSteps \cup {"closeall"}
      BY <3>1 DEF End, EndOf
    <3>4. inpc[t] = "read"
      BY <3>2, <3>3 DEF KickSteps, InSteps, TypeOK
    <3> SUFFICES ASSUME NEW r \in Sockets PROVE TiedOf(r)'
      BY DEF Tied
    <3>5. inpc' = inpc /\ online' = online
      BY <2>1 DEF smart_socket_connect
    <3>6. CASE sock' = [sock EXCEPT ![s] = [st |-> "waiting", t |-> t]]
      BY <3>4, <3>5, <3>6, <1>t DEF TiedOf, TypeOK
    <3>7. CASE sock' = [sock EXCEPT ![s] = DeadSocket]
      BY <3>5, <3>7, <1>t, <1>d DEF TiedOf, TypeOK
    <3> QED BY <2>1, <3>6, <3>7 DEF smart_socket_connect
  <2>2. CASE remote_socket_enqueue(s)
    BY <2>2, <1>f DEF remote_socket_enqueue
  <2>3. CASE remote_socket_close(s)
    BY <2>3, <1>s DEF remote_socket_close
  <2> QED BY <1>5, <2>1, <2>2, <2>3 DEF MainSocket
<1>6. ASSUME NEW t \in Transports, Output(t) PROVE Tied'
  BY <1>6, <1>f DEF Output, out_sync, out_read, out_fail, out_offline
<1>7. ASSUME NEW t \in Transports, InputSure(t) \/ in_write(t) PROVE Tied'
  <2>1. CASE in_sync(t) \/ in_stop(t) \/ in_drop(t) \/ in_write(t)
    BY <2>1, <1>f DEF in_sync, in_stop, in_drop, in_write, in_next, TypeOK
  <2>2. ASSUME NEW s \in Sockets, in_close_socket(t, s) PROVE Tied'
    BY <2>2, <1>s DEF in_close_socket
  <2>3. CASE in_closed(t)
    <3> SUFFICES ASSUME NEW s \in Sockets PROVE TiedOf(s)'
      BY DEF Tied
    <3>1. ~(sock[s].st = "waiting" /\ sock[s].t = t)
      BY <2>3 DEF in_closed, close_all_sockets, Waiting, TypeOK
    <3>2. /\ \A u \in Transports \ {t} : inpc'[u] = inpc[u]
          /\ sock' = sock /\ online' = online
      BY <2>3 DEF in_closed, TypeOK
    <3> QED BY <3>1, <3>2, <1>t DEF TiedOf
  <2> QED BY <1>7, <2>1, <2>2, <2>3 DEF InputSure
<1>8. ASSUME NEW t \in Transports, NEW th \in Threads, Teardown(th, t) PROVE Tied'
  <2>1. /\ \E step : goto(th, t, step)
        /\ pc(th)[t] \in KickSteps /\ UNCHANGED <<sock, online>>
    BY <1>8 DEF Teardown, kick_check, kick_lock, kick_call, transport_unref, KickSteps
  <2>2. \A u \in Transports : inpc'[u] = inpc[u] \/ inpc[u] \in KickSteps
    BY <2>1 DEF goto, pc, Threads, TypeOK
  <2> QED BY <2>1, <2>2, <1>f DEF KickSteps
<1>9. ASSUME NEW t \in Transports, host_send(t) \/ link_down(t) PROVE Tied'
  BY <1>9, <1>f DEF host_send, link_down
<1> QED
  BY <1>f, <1>1, <1>2, <1>3, <1>4, <1>5, <1>6, <1>7, <1>8, <1>9
  DEF Next, MainRegistration

-----------------------------------------------------------------------------
(* The gate of the input thread.                                           *)

\* The gate of u is open, or opens before the next packet passes.
Opens(u) == active[u] \/ (toIn[u] # <<>> /\ toIn[u][1] = Sync(1, token[u]))

\* A transport that has been online has an open gate.
LEMMA OnlineOpens ==
  ASSUME Life, End, Gate, NEW u \in Transports, conn[u] # "OFFLINE"
  PROVE  outpc[u] \notin {"none", "sync"} /\ Opens(u)
<1>1. stage[u] # "freed"
  BY DEF Life, LifeOf, End, EndOf, KickSteps
<1> QED BY <1>1 DEF Gate, GateOf, Opens

\* A send leaves the first packet where it is.
LEMMA SendFirst ==
  ASSUME TypeOK, NEW t \in Transports, NEW p \in Packet, send_packet(t, p),
         NEW u \in Transports, toIn[u] # <<>>
  PROVE  toIn'[u] # <<>> /\ toIn'[u][1] = toIn[u][1]
<1>1. toIn[u] \in Seq(Packet)
  BY DEF TypeOK, Packet
<1>2. Len(toIn[u]) \in Nat \ {0}
  BY <1>1, Shape
<1> QED BY <1>2, SendEffect

\* Sends on transports that are not offline.
LEMMA GateSend ==
  ASSUME TypeOK, Life, End, Gate, NEW t \in Transports, NEW p \in Packet, send_packet(t, p),
         conn[t] # "OFFLINE", UNCHANGED <<outpc, toMain, conn, active, stage, token>>
  PROVE  Gate'
<1> SUFFICES ASSUME NEW u \in Transports PROVE GateOf(u)'
  BY DEF Gate
<1>1. CASE u = t
  <2>1. outpc[u] \notin {"none", "sync"} /\ Opens(u)
    BY <1>1, OnlineOpens
  <2>2. toIn[u] # <<>> => toIn'[u] # <<>> /\ toIn'[u][1] = toIn[u][1]
    BY SendFirst
  <2> QED BY <2>1, <2>2 DEF GateOf, Opens
<1>2. CASE u # t
  <2>1. toIn'[u] = toIn[u]
    BY <1>2, SendEffect
  <2> QED BY <2>1 DEF Gate, GateOf
<1> QED BY <1>1, <1>2

\* main takes anything but SYNC(1) from t.
LEMMA GateReceive ==
  ASSUME TypeOK, Life, End, Gate, NEW t \in Transports, NEW cmd, receive(t, cmd), cmd # "SYNC1",
         \/ toIn' = toIn
         \/ \E u \in Transports, p \in Packet :
              send_packet(u, p) /\ (u = t \/ conn[u] # "OFFLINE"),
         \A u \in Transports \ {t} : conn'[u] = conn[u]
  PROVE  Gate'
<1>1. /\ UNCHANGED <<outpc, active, stage, token>>
      /\ stage[t] # "freed" /\ toMain[t] # <<>> /\ Head(toMain[t]).cmd = cmd
      /\ \A u \in Transports \ {t} : toMain'[u] = toMain[u]
  BY DEF receive, lifeVars, threadVars, TypeOK
<1>2. toMain[t][1].cmd # "SYNC1"
  <2>1. toMain[t] \in Seq(Packet)
    BY DEF TypeOK, Packet
  <2> QED BY <1>1, <2>1, Taken
<1>3. outpc[t] \notin {"none", "sync"} /\ Opens(t)
  <2>1. Sync(1, token[t]).cmd = "SYNC1"
    BY DEF Sync
  <2> QED BY <1>1, <1>2, <2>1 DEF Gate, GateOf, Opens
<1>4. ASSUME NEW u \in Transports, toIn[u] # <<>>
      PROVE  toIn'[u] # <<>> /\ toIn'[u][1] = toIn[u][1]
  BY <1>4, SendFirst
<1>5. GateOf(t)'
  BY <1>1, <1>3, <1>4 DEF GateOf, Opens
<1>6. ASSUME NEW u \in Transports \ {t} PROVE GateOf(u)'
  <2>1. CASE toIn'[u] = toIn[u]
    BY <1>1, <2>1 DEF Gate, GateOf
  <2>2. CASE conn[u] # "OFFLINE"
    <3>1. outpc[u] \notin {"none", "sync"} /\ Opens(u)
      BY <2>2, OnlineOpens
    <3> QED BY <1>1, <1>4, <3>1 DEF GateOf, Opens
  <2>3. toIn'[u] = toIn[u] \/ conn[u] # "OFFLINE"
    BY <1>6, SendEffect
  <2> QED BY <2>1, <2>2, <2>3
<1> QED BY <1>5, <1>6 DEF Gate


\* Every step keeps Gate.
LEMMA GateStep ==
  ASSUME TypeOK, Life, End, Tied, Gate, [Next]_vars
  PROVE  Gate'
<1> USE DEF vars, mainVars, lifeVars, stateVars, threadVars, hostVars, threadOnly
<1>p. /\ \A c \in {"CNXN", "OPEN", "OKAY", "CLSE", "WRTE"}, i \in Sockets \cup {0} :
           [cmd |-> c, id |-> i] \in Packet
      /\ \A n \in Nat : Sync(1, n) \in Packet /\ Sync(1, n).cmd = "SYNC1"
  BY PacketTypes DEF Packet, Sync
<1>l. \A s \in Sockets : sock[s].st = "linked" =>
        sock[s].t \in Transports /\ conn[sock[s].t] # "OFFLINE"
  BY DEF Tied, TiedOf, End, EndOf
<1>f. ASSUME UNCHANGED <<outpc, toMain, toIn, conn, active, stage, token>> PROVE Gate'
  BY <1>f DEF Gate, GateOf
<1>k. ASSUME UNCHANGED <<toMain, toIn, conn, active, token>>,
             \A u \in Transports :
               /\ outpc'[u] \in {"none", "sync"} <=> outpc[u] \in {"none", "sync"}
               /\ stage[u] = "freed" => stage'[u] = "freed"
      PROVE  Gate'
  BY <1>k DEF Gate, GateOf
<1>1. ASSUME NEW t \in Transports, register_socket_transport(t) PROVE Gate'
  <2> SUFFICES ASSUME NEW u \in Transports PROVE GateOf(u)'
    BY DEF Gate
  <2>1. outpc[t] = "none"
    BY <1>1 DEF register_socket_transport, Life, LifeOf
  <2>2. u # t => stage'[u] = stage[u] /\ token'[u] = token[u]
    BY <1>1 DEF register_socket_transport, TypeOK
  <2> QED BY <1>1, <2>1, <2>2 DEF register_socket_transport, Gate, GateOf
<1>2. ASSUME NEW t \in Transports, start_transport(t) PROVE Gate'
  <2>1. regq[1].t = t /\ regq[1].action = 1 /\ 1 \in DOMAIN regq
    BY <1>2, Taken, Shape DEF TypeOK, start_transport
  <2>2. stage[t] = "queued"
    BY <2>1 DEF Life, Queue
  <2>3. outpc[t] = "none"
    BY <2>2 DEF Life, LifeOf
  <2> QED BY <1>2, <2>2, <2>3, <1>k DEF start_transport, TypeOK
<1>3. ASSUME NEW t \in Transports, list_transport(t) PROVE Gate'
  BY <1>3, <1>f DEF list_transport
<1>4. ASSUME NEW t \in Transports, free_transport(t) PROVE Gate'
  <2> SUFFICES ASSUME NEW u \in Transports PROVE GateOf(u)'
    BY DEF Gate
  <2>1. regq[1].t = t /\ regq[1].action = 0 /\ 1 \in DOMAIN regq
    BY <1>4, Taken, Shape, SMTT(30) DEF TypeOK, free_transport
  <2>2. stage[t] = "removing"
    BY <2>1 DEF Life, Queue
  <2>3. outpc[t] = "done"
    BY <2>2 DEF Life, LifeOf
  <2>4. CASE u = t
    BY <1>4, <2>3, <2>4 DEF free_transport, GateOf, TypeOK
  <2>5. CASE u # t
    <3>1. stage'[u] = stage[u] /\ toMain'[u] = toMain[u] /\ toIn'[u] = toIn[u]
      BY <1>4, <2>5 DEF free_transport, TypeOK
    <3> QED BY <1>4, <3>1 DEF free_transport, Gate, GateOf
  <2> QED BY <2>4, <2>5
<1>5. ASSUME NEW t \in Transports, MainPacket(t) PROVE Gate'
  <2>1. CASE handle_SYNC1(t)
    <3> DEFINE p == Head(toMain[t])
    <3>1. /\ receive(t, "SYNC1") /\ send_packet(t, p) /\ conn' = conn
          /\ UNCHANGED <<outpc, active, stage, token>> /\ toMain[t] # <<>>
      BY <2>1 DEF handle_SYNC1, receive
    <3>2. p \in Packet /\ p = toMain[t][1]
      <4>1. toMain[t] \in Seq(Packet)
        BY DEF TypeOK, Packet
      <4> QED BY <3>1, <4>1, Taken
    <3> HIDE DEF p
    <3> SUFFICES ASSUME NEW u \in Transports PROVE GateOf(u)'
      BY DEF Gate
    <3>3. CASE u # t
      <4>1. toIn'[u] = toIn[u] /\ toMain'[u] = toMain[u]
        BY <3>1, <3>2, <3>3, SendEffect, ZenonT(60) DEF receive, TypeOK
      <4> QED BY <3>1, <4>1 DEF Gate, GateOf
    <3>4. CASE u = t
      <4>1. /\ DOMAIN toIn'[t] = 1..(Len(toIn[t]) + 1) /\ toIn'[t] # <<>>
            /\ toIn'[t][Len(toIn[t]) + 1] = p
        BY <3>1, <3>2, SendEffect
      <4>2. toIn[t] = <<>> => toIn'[t][1] = p
        BY <4>1
      <4>3. toIn[t] # <<>> => toIn'[t][1] = toIn[t][1]
        BY <3>1, <3>2, SendFirst
      <4>4. GateOf(t) /\ stage[t] # "freed"
        BY <3>1 DEF Gate, receive
      <4>5. outpc[t] \notin {"none", "sync"}
        BY <3>1, <4>4 DEF GateOf
      <4> QED BY <3>1, <3>2, <3>4, <4>1, <4>2, <4>3, <4>4, <4>5 DEF GateOf
    <3> QED BY <3>3, <3>4
  <2>2. CASE handle_SYNC0(t)
    <3>1. /\ receive(t, "SYNC0") /\ Head(toMain[t]) \in Packet
          /\ send_packet(t, Head(toMain[t]))
      BY <2>2, ReceiveTypes DEF handle_SYNC0, Packet
    <3>2. \A u \in Transports \ {t} : conn'[u] = conn[u]
      BY <2>2 DEF handle_SYNC0, handle_offline, TypeOK
    <3> QED BY <3>1, <3>2, GateReceive
  <2>3. CASE handle_CNXN(t)
    <3>1. receive(t, "CNXN") /\ send_packet(t, [cmd |-> "CNXN", id |-> 0])
      BY <2>3 DEF handle_CNXN
    <3>2. \A u \in Transports \ {t} : conn'[u] = conn[u]
      BY <2>3 DEF handle_CNXN, TypeOK
    <3>3. [cmd |-> "CNXN", id |-> 0] \in Packet
      BY <1>p
    <3> QED BY <3>1, <3>2, <3>3, GateReceive
  <2>4. ASSUME NEW cmd \in {"OPEN", "OKAY", "CLSE"}, receive(t, cmd), conn' = conn,
               \/ toIn' = toIn
               \/ \E u \in Transports, p \in Packet :
                    send_packet(u, p) /\ (u = t \/ conn[u] # "OFFLINE")
        PROVE  Gate'
    BY <2>4, GateReceive
  <2>5. ASSUME NEW s \in Sockets, handle_OPEN(t, s) PROVE Gate'
    <3>1. [cmd |-> "OKAY", id |-> s] \in Packet
      BY <1>p
    <3> QED BY <2>5, <3>1, <2>4 DEF handle_OPEN
  <2>6. CASE refuse_OPEN(t)
    <3>1. [cmd |-> "CLSE", id |-> 0] \in Packet
      BY <1>p
    <3> QED BY <2>6, <3>1, <2>4 DEF refuse_OPEN
  <2>7. CASE handle_OKAY(t)
    BY <2>7, <2>4 DEF handle_OKAY
  <2>8. CASE handle_CLSE(t)
    <3> DEFINE s == Head(toMain[t]).id
    <3>1. s \in Sockets /\ receive(t, "CLSE") /\ conn' = conn
      BY <2>8 DEF handle_CLSE
    <3>2. [cmd |-> "CLSE", id |-> s] \in Packet
      BY <3>1, <1>p
    <3>3. \/ toIn' = toIn
          \/ /\ sock[s].t \in Transports /\ conn[sock[s].t] # "OFFLINE"
             /\ send_packet(sock[s].t, [cmd |-> "CLSE", id |-> s])
      BY <2>8, <3>1, <1>l DEF handle_CLSE
    <3> HIDE DEF s
    <3> QED BY <3>1, <3>2, <3>3, <2>4
  <2>9. CASE drop_packet(t)
    BY <2>9, <2>4 DEF drop_packet
  <2> QED BY <1>5, <2>1, <2>2, <2>3, <2>5, <2>6, <2>7, <2>8, <2>9 DEF MainPacket
<1>6. ASSUME NEW s \in Sockets, MainSocket(s) PROVE Gate'
  <2>1. \A c \in {"OPEN", "CLSE", "WRTE"} : [cmd |-> c, id |-> s] \in Packet
    BY <1>p
  <2>2. \E t \in Transports, c \in {"OPEN", "CLSE", "WRTE"} :
          conn[t] # "OFFLINE" /\ send_packet(t, [cmd |-> c, id |-> s])
    BY <1>6, <1>l DEF MainSocket, smart_socket_connect, acquire_one_transport,
                      remote_socket_enqueue, remote_socket_close
  <2>3. UNCHANGED <<outpc, toMain, conn, active, stage, token>>
    BY <1>6 DEF MainSocket, smart_socket_connect, remote_socket_enqueue, remote_socket_close
  <2> QED BY <2>1, <2>2, <2>3, GateSend
<1>7. ASSUME NEW t \in Transports, Output(t) PROVE Gate'
  <2>a. ASSUME NEW p \in Packet, toMain' = [toMain EXCEPT ![t] = Append(@, p)],
               toMain[t] # <<>>
        PROVE  toMain'[t] # <<>> /\ toMain'[t][1] = toMain[t][1]
    <3>1. toMain[t] \in Seq(Packet) /\ toMain'[t] = Append(toMain[t], p)
      BY <2>a DEF TypeOK, Packet
    <3>2. Len(toMain[t]) \in Nat \ {0}
      BY <2>a, <3>1, Shape
    <3> QED BY <3>1, <3>2, Appended
  <2>b. ASSUME NEW p \in Packet, toMain' = [toMain EXCEPT ![t] = Append(@, p)],
               outpc[t] \notin {"none", "sync"}, UNCHANGED <<toIn, conn, active, stage, token>>,
               \A u \in Transports \ {t} : outpc'[u] = outpc[u],
               outpc'[t] \notin {"none", "sync"}
        PROVE  Gate'
    <3> SUFFICES ASSUME NEW u \in Transports PROVE GateOf(u)'
      BY DEF Gate
    <3>1. CASE u # t
      BY <2>b, <3>1 DEF Gate, GateOf, TypeOK
    <3>2. CASE u = t
      BY <2>a, <2>b, <3>2 DEF Gate, GateOf
    <3> QED BY <3>1, <3>2
  <2>1. CASE out_sync(t)
    <3>1. /\ toMain[t] = <<>> /\ toIn[t] = <<>> /\ conn[t] = "OFFLINE"
      BY <2>1 DEF out_sync, Gate, GateOf
    <3>2. /\ toMain'[t] = Append(<<>>, Sync(1, token[t] + 1)) /\ token'[t] = token[t] + 1
          /\ outpc'[t] = "read"
      BY <2>1, <3>1 DEF out_sync, first_packet, TypeOK
    <3>3. toMain'[t] # <<>> /\ toMain'[t][1] = Sync(1, token'[t])
      BY <3>2
    <3> SUFFICES ASSUME NEW u \in Transports PROVE GateOf(u)'
      BY DEF Gate
    <3>4. CASE u = t
      BY <2>1, <3>1, <3>2, <3>3, <3>4 DEF out_sync, GateOf
    <3>5. CASE u # t
      <4>1. toMain'[u] = toMain[u] /\ token'[u] = token[u] /\ outpc'[u] = outpc[u]
        BY <2>1, <3>5 DEF out_sync, TypeOK
      <4> QED BY <2>1, <4>1 DEF out_sync, Gate, GateOf
    <3> QED BY <3>4, <3>5
  <2>2. CASE out_read(t)
    <3>1. Head(inbound[t]) \in Packet
      BY <2>2, Taken DEF TypeOK, out_read, Packet
    <3> QED BY <2>2, <3>1, <2>b DEF out_read
  <2>3. CASE out_fail(t)
    BY <2>3, <1>k DEF out_fail, after_loop, TypeOK
  <2>4. CASE out_offline(t)
    <3>1. Sync(0, 0) \in Packet
      BY PacketTypes DEF Packet
    <3>2. outpc'[t] = "kick" /\ \A u \in Transports \ {t} : outpc'[u] = outpc[u]
      BY <2>4 DEF out_offline, TypeOK
    <3> QED BY <2>4, <3>1, <3>2, <2>b DEF out_offline
  <2> QED BY <1>7, <2>1, <2>2, <2>3, <2>4 DEF Output
<1>8. ASSUME NEW t \in Transports, InputSure(t) \/ in_write(t) PROVE Gate'
  <2>t. ASSUME in_next(t) PROVE Head(toIn[t]) = toIn[t][1] /\ toIn[t] # <<>>
    BY <2>t, Taken DEF in_next, TypeOK
  <2>o. ASSUME in_next(t), toIn' = [toIn EXCEPT ![t] = Tail(@)],
               UNCHANGED <<outpc, toMain, conn, stage, token>>,
               \A u \in Transports \ {t} : active'[u] = active[u],
               active'[t] = (active[t] \/ Head(toIn[t]) = Sync(1, token[t]))
        PROVE  Gate'
    <3> SUFFICES ASSUME NEW u \in Transports PROVE GateOf(u)'
      BY DEF Gate
    <3>1. CASE u # t
      <4>1. toIn'[u] = toIn[u]
        BY <2>o, <3>1 DEF TypeOK
      <4> QED BY <2>o, <3>1, <4>1 DEF Gate, GateOf
    <3>2. CASE u = t
      BY <2>o, <2>t, <3>2 DEF Gate, GateOf
    <3> QED BY <3>1, <3>2
  <2>1. CASE in_sync(t)
    <3>1. /\ in_next(t) /\ toIn' = [toIn EXCEPT ![t] = Tail(@)]
          /\ UNCHANGED <<outpc, toMain, conn, stage, token>>
          /\ active' = [active EXCEPT ![t] = @ \/ Head(toIn[t]).id = token[t]]
          /\ Head(toIn[t]).cmd = "SYNC1"
      BY <2>1 DEF in_sync
    <3>2. Head(toIn[t]) \in Packet
      BY <3>1, Taken DEF in_next, TypeOK, Packet
    <3>3. Head(toIn[t]).id = token[t] <=> Head(toIn[t]) = Sync(1, token[t])
      BY <3>1, <3>2 DEF Packet, SyncPacket, AppPacket, Sync
    <3>4. /\ active'[t] = (active[t] \/ Head(toIn[t]) = Sync(1, token[t]))
          /\ \A u \in Transports \ {t} : active'[u] = active[u]
      BY <3>1, <3>3 DEF TypeOK
    <3> QED BY <3>1, <3>4, <2>o
  <2>2. CASE in_stop(t) \/ in_drop(t) \/ in_write(t)
    <3>1. /\ in_next(t) /\ toIn' = [toIn EXCEPT ![t] = Tail(@)]
          /\ UNCHANGED <<outpc, toMain, conn, active, stage, token>>
          /\ Head(toIn[t]).cmd # "SYNC1"
      BY <2>2 DEF in_stop, in_drop, in_write, NotSync, IsSync
    <3>2. Head(toIn[t]) # Sync(1, token[t])
      BY <3>1, <1>p DEF TypeOK
    <3>3. active'[t] = (active[t] \/ Head(toIn[t]) = Sync(1, token[t]))
      BY <3>1, <3>2 DEF TypeOK
    <3> QED BY <3>1, <3>3, <2>o
  <2>3. ASSUME NEW s \in Sockets, in_close_socket(t, s) PROVE Gate'
    <3>1. [cmd |-> "CLSE", id |-> s] \in Packet
      BY <1>p
    <3>2. sock[s].st = "linked" => conn[t] # "OFFLINE"
      BY <2>3, <1>l DEF in_close_socket, close_all_sockets, Linked, Waiting
    <3>3. UNCHANGED <<outpc, toMain, conn, active, stage, token>>
      BY <2>3 DEF in_close_socket
    <3>4. toIn' = toIn \/ (conn[t] # "OFFLINE" /\ send_packet(t, [cmd |-> "CLSE", id |-> s]))
      BY <2>3, <3>2 DEF in_close_socket
    <3> QED BY <3>1, <3>3, <3>4, <1>f, GateSend
  <2>4. CASE in_closed(t)
    BY <2>4, <1>f DEF in_closed
  <2> QED BY <1>8, <2>1, <2>2, <2>3, <2>4 DEF InputSure
<1>9. ASSUME NEW t \in Transports, NEW th \in Threads, Teardown(th, t) PROVE Gate'
  <2>1. /\ \E step \in KickSteps : goto(th, t, step)
        /\ pc(th)[t] \in KickSteps \ {"done"}
        /\ UNCHANGED <<toMain, toIn, conn, token>>
        /\ stage' = stage \/ \E x : stage' = [stage EXCEPT ![t] = x]
    BY <1>9 DEF Teardown, kick_check, kick_lock, kick_call, transport_unref, KickSteps
  <2>2. /\ \A u \in Transports : outpc'[u] = outpc[u] \/ {outpc[u], outpc'[u]} \subseteq KickSteps
        /\ active' = active
    BY <2>1 DEF goto, pc, Threads, TypeOK
  <2>3. stage[t] # "freed"
    BY <2>1 DEF Life, LifeOf, pc, Threads
  <2>4. \A u \in Transports : stage[u] = "freed" => stage'[u] = "freed"
    BY <2>1, <2>3 DEF TypeOK
  <2>5. \A u \in Transports : outpc'[u] \in {"none", "sync"} <=> outpc[u] \in {"none", "sync"}
    BY <2>2 DEF KickSteps
  <2> QED BY <2>1, <2>2, <2>4, <2>5, <1>k
<1>10. ASSUME NEW t \in Transports, host_send(t) \/ link_down(t) PROVE Gate'
  BY <1>10, <1>f DEF host_send, link_down
<1> QED
  BY <1>f, <1>1, <1>2, <1>3, <1>4, <1>5, <1>6, <1>7, <1>8, <1>9, <1>10
  DEF Next, MainRegistration

-----------------------------------------------------------------------------
(* The invariant, and the properties that follow from it.                  *)

\* The program starts in the invariant: no transport, no thread, no socket.
LEMMA InitInv == Init => IInv
<1> SUFFICES ASSUME Init PROVE IInv
  OBVIOUS
<1>1. TypeOK
  BY EmptySeq DEF Init, TypeOK, NewSocket, Stages, OutSteps, InSteps
<1>2. Life
  BY ConstantsAssumption DEF Init, Life, LifeOf, Queue, Alive
<1>3. Kick /\ Tied /\ Gate
  BY DEF Init, Kick, KickOf, Tied, TiedOf, NewSocket, Gate, GateOf
<1>4. End
  BY DEF Init, End, EndOf, KickSteps, Over
<1> QED BY <1>1, <1>2, <1>3, <1>4 DEF IInv

\* Every step keeps the invariant.
LEMMA Inductive == IInv /\ [Next]_vars => IInv'
BY TypeStep, LifeStep, KickStep, EndStep, TiedStep, GateStep DEF IInv

\* The inductive invariant holds in every reachable state.
THEOREM Invariance == Spec => []IInv
BY InitInv, Inductive, PTL DEF Spec

\* The variables keep their types; in particular ref_count never leaves 0..2.
THEOREM TypeCorrect == Spec => []TypeOK
<1>1. IInv => TypeOK
  BY DEF IInv
<1> QED BY <1>1, Invariance, PTL

\* Running(t) counts as Life counts.
LEMMA RunningCount ==
  ASSUME NEW t \in Transports
  PROVE  /\ Cardinality(Running(t)) = Alive(outpc[t]) + Alive(inpc[t])
         /\ outpc[t] = "done" /\ inpc[t] = "done" => Running(t) = {}
<1>1. /\ "out" \in Running(t) <=> outpc[t] \notin {"none", "done"}
      /\ "in" \in Running(t) <=> inpc[t] \notin {"none", "done"}
      /\ Running(t) \subseteq {"out", "in"}
  BY DEF Running, Threads, pc
<1>2. Cardinality({}) = 0 /\ Cardinality({"out"}) = 1 /\ Cardinality({"in"}) = 1
  BY FS_EmptySet, FS_Singleton
<1>3. Cardinality({"out", "in"}) = 2
  <2>1. IsFiniteSet({"out"}) /\ "in" \notin {"out"}
    BY FS_Singleton
  <2>2. Cardinality({"out"} \cup {"in"}) = Cardinality({"out"}) + 1
    BY <2>1, FS_AddElement
  <2>3. {"out"} \cup {"in"} = {"out", "in"}
    OBVIOUS
  <2> QED BY <1>2, <2>2, <2>3
<1>4. \/ Running(t) = {} \/ Running(t) = {"out"} \/ Running(t) = {"in"}
      \/ Running(t) = {"out", "in"}
  BY <1>1
<1> QED BY <1>1, <1>2, <1>3, <1>4 DEF Alive

\* ref_count is the number of threads that still run, and each message is
\* queued once (transport_unref_locked, remove_transport).
THEOREM RefCountCorrect == Spec => []RefCounted
<1>1. IInv => RefCounted
  <2> SUFFICES ASSUME IInv PROVE RefCounted
    OBVIOUS
  <2>1. Queue /\ \A t \in Transports : LifeOf(t)
    BY DEF IInv, Life
  <2>2. \A i \in DOMAIN regq : regq[i] \in TMsg
    BY Shape DEF IInv, TypeOK
  <2>3. \A i, j \in DOMAIN regq : regq[i] = regq[j] => i = j
    BY <2>1 DEF Queue
  <2>4. ASSUME NEW t \in Transports PROVE ref[t] = Cardinality(Running(t))
    BY <2>1, RunningCount DEF LifeOf
  <2>5. ASSUME NEW t \in Transports PROVE Messages(t, 0) # {} <=> stage[t] = "removing"
    <3>1. ASSUME NEW i \in Messages(t, 0) PROVE stage[t] = "removing"
      BY <2>1 DEF Messages, Queue
    <3>2. ASSUME stage[t] = "removing" PROVE Messages(t, 0) # {}
      <4>1. PICK i \in DOMAIN regq : regq[i].t = t
        BY <2>1, <3>2 DEF Queue
      <4>2. regq[i].action = 0
        BY <2>1, <2>2, <3>2, <4>1 DEF Queue, TMsg
      <4>3. regq[i] = [t |-> t, action |-> 0]
        BY <2>2, <4>1, <4>2 DEF TMsg
      <4> QED BY <4>3 DEF Messages
    <3> QED BY <3>1, <3>2
  <2> QED BY <2>3, <2>4, <2>5 DEF RefCounted
<1> QED BY <1>1, Invariance, PTL

\* When t->fd is closed main has nothing more to do with the transport.
LEMMA ClosedIsQuiet == IInv => QuietWhenClosed
<1> SUFFICES ASSUME IInv, NEW t \in Transports, stage[t] \in {"removing", "freed"}
             PROVE  /\ toMain[t] = <<>>
                    /\ conn[t] = "OFFLINE" /\ ~online[t]
                    /\ \A s \in Sockets : sock[s].t # t
  BY DEF QuietWhenClosed
<1>1. inpc[t] = "done"
  BY DEF IInv, Life, LifeOf
<1>2. Over(t)
  BY <1>1 DEF IInv, End, EndOf, KickSteps
<1>3. toMain[t] = <<>> /\ conn[t] = "OFFLINE" /\ ~online[t]
  BY <1>2 DEF IInv, End, EndOf, Over
<1>4. ASSUME NEW s \in Sockets PROVE sock[s].t # t
  <2>1. TiedOf(s) /\ sock[s].st \in {"new", "waiting", "linked", "dead"}
    BY DEF IInv, Tied, TypeOK
  <2> QED BY <1>1, <1>3, <2>1, ConstantsAssumption DEF TiedOf
<1> QED BY <1>3, <1>4

\* send_packet never meets a closed socketpair.
THEOREM NeverSendsOnClosed == Spec => []QuietWhenClosed
BY ClosedIsQuiet, Invariance, PTL

\* Nothing refers to a transport that transport_registration_func has freed.
THEOREM FreeIsSafe == Spec => []NoUseAfterFree
<1>1. IInv => NoUseAfterFree
  <2> SUFFICES ASSUME IInv, NEW t \in Transports, stage[t] = "freed"
               PROVE  /\ Running(t) = {}
                      /\ t \notin tlist /\ adding # t
                      /\ Messages(t, 0) = {} /\ Messages(t, 1) = {}
                      /\ \A s \in Sockets : sock[s].t # t
    BY DEF NoUseAfterFree
  <2>1. Queue /\ LifeOf(t)
    BY DEF IInv, Life
  <2>2. Running(t) = {}
    BY <2>1, RunningCount DEF LifeOf
  <2>3. t \notin tlist /\ adding # t
    BY <2>1 DEF LifeOf
  <2>4. Messages(t, 0) = {} /\ Messages(t, 1) = {}
    BY <2>1 DEF Queue, Messages
  <2>5. \A s \in Sockets : sock[s].t # t
    BY ClosedIsQuiet DEF QuietWhenClosed
  <2> QED BY <2>2, <2>3, <2>4, <2>5
<1> QED BY <1>1, Invariance, PTL

\* t->kick is called once, and before the transport is closed.
THEOREM KickIsOnce == Spec => []KickedOnce
<1>1. IInv => KickedOnce
  <2> SUFFICES ASSUME IInv, NEW t \in Transports
               PROVE  kicks[t] <= 1 /\ (stage[t] \in {"removing", "freed"} => kicks[t] = 1)
    BY DEF KickedOnce
  <2>1. KickOf(t) /\ LifeOf(t)
    BY DEF IInv, Kick, Life
  <2>2. kicks[t] = 0 \/ kicks[t] = 1
    BY <2>1 DEF KickOf
  <2>3. stage[t] \in {"removing", "freed"} => kicks[t] = 1
    BY <2>1 DEF KickOf, LifeOf
  <2> QED BY <2>2, <2>3
<1> QED BY <1>1, Invariance, PTL

\* The input thread's gate never drops a packet of main.
THEOREM GateIsOpen == Spec => []GateOpens
<1>1. IInv => GateOpens
  <2> SUFFICES ASSUME IInv, NEW t \in Transports, NEW i \in DOMAIN toIn[t],
                      NotSync(toIn[t][i]), ~active[t]
               PROVE  \E j \in 1..(i-1) : toIn[t][j] = Sync(1, token[t])
    BY DEF GateOpens
  <2>1. DOMAIN toIn[t] = 1..Len(toIn[t]) /\ Len(toIn[t]) \in Nat
    BY Shape DEF IInv, TypeOK
  <2>2. toIn[t] # <<>>
    BY <2>1
  <2>3. toIn[t][1] = Sync(1, token[t])
    BY <2>2 DEF IInv, Gate, GateOf
  <2>4. i # 1
    BY <2>3, PacketTypes DEF IInv, TypeOK
  <2>5. 1 \in 1..(i-1)
    BY <2>1, <2>4
  <2> QED BY <2>3, <2>5
<1> QED BY <1>1, Invariance, PTL

\* A remote socket exists only on a transport that is online.
THEOREM StreamsHaveSession == Spec => []StreamsNeedSession
<1>1. IInv => StreamsNeedSession
  BY DEF IInv, Tied, TiedOf, StreamsNeedSession
<1> QED BY <1>1, Invariance, PTL


-----------------------------------------------------------------------------
(* After the end.                                                          *)

\* A transport whose end main has handled is over.
LEMMA EndedIsOver ==
  ASSUME IInv, NEW t \in Transports, Ended(t)
  PROVE  Over(t)
<1>1. toMain[t] \in Seq(Packet) /\ EndOf(t)
  BY DEF IInv, TypeOK, End, Packet
<1>2. /\ DOMAIN toMain[t] = 1..Len(toMain[t]) /\ Len(toMain[t]) \in Nat
      /\ toMain[t] = <<>> <=> Len(toMain[t]) = 0
  BY <1>1, Shape
<1>3. Len(toMain[t]) \notin DOMAIN toMain[t]
  BY <1>1 DEF Ended, EndOf, KickSteps
<1> QED BY <1>2, <1>3 DEF Over, Ended, KickSteps

\* A send on another transport.
LEMMA SentElsewhere ==
  ASSUME TypeOK, NEW t \in Transports, NEW u \in Transports, t # u, NEW p, send_packet(u, p)
  PROVE  sent'[t] = sent[t]
BY DEF send_packet, TypeOK

\* A step leaves a transport that is over as it is.
LEMMA OverIsQuiet ==
  ASSUME IInv, [Next]_vars, NEW t \in Transports, Over(t)
  PROVE  sent'[t] = sent[t] /\ online'[t] = online[t]
<1> USE DEF vars, mainVars, lifeVars, stateVars, threadVars, hostVars, threadOnly
<1>0. TypeOK /\ toMain[t] = <<>> /\ conn[t] = "OFFLINE" /\ ~online[t]
  BY DEF IInv, Over, End, EndOf
<1>l. \A s \in Sockets : sock[s].st = "linked" => sock[s].t \in Transports /\ sock[s].t # t
  BY <1>0 DEF IInv, Tied, TiedOf
<1>f. ASSUME UNCHANGED <<sent, online>> PROVE sent'[t] = sent[t] /\ online'[t] = online[t]
  BY <1>f
<1>1. ASSUME NEW u \in Transports, MainPacket(u)
      PROVE  sent'[t] = sent[t] /\ online'[t] = online[t]
  <2>1. u # t
    BY <1>0, <1>1 DEF MainPacket, handle_SYNC1, handle_SYNC0, handle_CNXN, handle_OPEN,
                      refuse_OPEN, handle_OKAY, handle_CLSE, drop_packet, receive
  <2>2. online'[t] = online[t]
    BY <1>0, <1>1, <2>1 DEF MainPacket, handle_SYNC1, handle_SYNC0, handle_offline, handle_CNXN,
                            handle_OPEN, refuse_OPEN, handle_OKAY, handle_CLSE, drop_packet, TypeOK
  <2>3. CASE handle_CLSE(u)
    <3> DEFINE s == Head(toMain[u]).id
    <3>1. s \in Sockets
      BY <2>3 DEF handle_CLSE
    <3>2. \/ sent' = sent
          \/ /\ sock[s].t \in Transports /\ sock[s].t # t
             /\ send_packet(sock[s].t, [cmd |-> "CLSE", id |-> s])
      BY <2>3, <3>1, <1>l DEF handle_CLSE
    <3> HIDE DEF s
    <3> QED BY <1>0, <2>2, <3>2, SentElsewhere
  <2>4. CASE handle_OKAY(u) \/ drop_packet(u)
    BY <2>2, <2>4 DEF handle_OKAY, drop_packet
  <2>5. CASE handle_SYNC1(u) \/ handle_SYNC0(u) \/ handle_CNXN(u) \/ refuse_OPEN(u)
               \/ \E s \in Sockets : handle_OPEN(u, s)
    <3>1. \E p : send_packet(u, p)
      BY <2>5 DEF handle_SYNC1, handle_SYNC0, handle_CNXN, refuse_OPEN, handle_OPEN
    <3> QED BY <1>0, <2>1, <2>2, <3>1, SentElsewhere
  <2> QED BY <1>1, <2>3, <2>4, <2>5 DEF MainPacket
<1>2. ASSUME NEW s \in Sockets, MainSocket(s)
      PROVE  sent'[t] = sent[t] /\ online'[t] = online[t]
  <2>1. online' = online
    BY <1>2 DEF MainSocket, smart_socket_connect, remote_socket_enqueue, remote_socket_close
  <2>2. \E u \in Transports \ {t} : \E p : send_packet(u, p)
    BY <1>0, <1>2, <1>l DEF MainSocket, smart_socket_connect, acquire_one_transport,
                            remote_socket_enqueue, remote_socket_close
  <2> QED BY <1>0, <2>1, <2>2, SentElsewhere
<1>3. ASSUME NEW u \in Transports, InputSure(u) \/ in_write(u)
      PROVE  sent'[t] = sent[t] /\ online'[t] = online[t]
  <2>1. ASSUME NEW s \in Sockets, in_close_socket(u, s)
        PROVE  sent'[t] = sent[t] /\ online'[t] = online[t]
    <3>1. sock[s].st = "linked" => u # t
      BY <2>1, <1>l DEF in_close_socket, close_all_sockets, Linked, Waiting
    <3>2. online' = online
      BY <2>1 DEF in_close_socket
    <3>3. sent' = sent \/ (u # t /\ send_packet(u, [cmd |-> "CLSE", id |-> s]))
      BY <2>1, <3>1 DEF in_close_socket
    <3> QED BY <1>0, <3>2, <3>3, SentElsewhere
  <2>2. CASE in_sync(u) \/ in_stop(u) \/ in_drop(u) \/ in_closed(u) \/ in_write(u)
    BY <2>2, <1>f DEF in_sync, in_stop, in_drop, in_closed, in_write
  <2> QED BY <1>3, <2>1, <2>2 DEF InputSure
<1>4. ASSUME NEW u \in Transports,
             \/ register_socket_transport(u) \/ MainRegistration(u) \/ Output(u)
             \/ host_send(u) \/ link_down(u)
             \/ \E th \in Threads : Teardown(th, u)
      PROVE  sent'[t] = sent[t] /\ online'[t] = online[t]
  BY <1>4, <1>f DEF register_socket_transport, MainRegistration, start_transport, list_transport,
                    free_transport, Output, out_sync, out_read, out_fail, out_offline,
                    host_send, link_down, Teardown, kick_check, kick_lock, kick_call,
                    transport_unref
<1> QED BY <1>f, <1>1, <1>2, <1>3, <1>4 DEF Next

\* Nothing is sent on a transport, nor does it come online again, after main
\* has handled the SYNC(0) that ends it.
THEOREM QuietAfterEnd == Spec => NothingAfterEnd
<1>1. IInv /\ [Next]_vars =>
        [\A t \in Transports : Ended(t) => sent'[t] = sent[t] /\ online'[t] = online[t]]_vars
  BY EndedIsOver, OverIsQuiet
<1> QED BY <1>1, Invariance, PTL DEF Spec, NothingAfterEnd

-----------------------------------------------------------------------------
(* The refinement of Link.                                                 *)

\* The host and main speak of a socket only on its own transport.
About(t, p) ==
  NotSync(p) /\ p.id \in Sockets => sock[p.id].st = "dead" \/ sock[p.id].t = t
AllAbout(t, q) == \A i \in DOMAIN q : About(t, q[i])
ToldOf(t) ==
  AllAbout(t, toIn[t]) /\ AllAbout(t, toMain[t]) /\ AllAbout(t, wire[t]) /\ AllAbout(t, inbound[t])
Told == \A t \in Transports : ToldOf(t)

\* The packets of q, but for the SYNCs, are what of S is still to follow w: f
\* is how much of S is on its way at each place of q.
Carried(q, w, S) ==
  \E f \in [0..Len(q) -> 0..Len(S)] :
    /\ f[0] = Len(w) /\ f[Len(q)] = Len(S)
    /\ \A i \in 1..Len(q) :
         IF IsSync(q[i]) THEN f[i] = f[i - 1]
         ELSE f[i] = f[i - 1] + 1 /\ S[f[i]] = q[i]

\* Until the connection is lost or shut down nothing is lost or reordered.
CarriedOf(t) == up[t] /\ kicks[t] = 0 => Carried(toIn[t], wire[t], sent[t])
Carry == \A t \in Transports : CarriedOf(t)

\* A SYNC is queued.
LEMMA CarriedSync ==
  ASSUME NEW q \in Seq(Packet), NEW w \in Seq(AppPacket), NEW S \in Seq(AppPacket),
         NEW p \in Packet, Carried(q, w, S), IsSync(p)
  PROVE  Carried(Append(q, p), w, S)
<1>1. PICK f \in [0..Len(q) -> 0..Len(S)] :
        /\ f[0] = Len(w) /\ f[Len(q)] = Len(S)
        /\ \A i \in 1..Len(q) :
             IF IsSync(q[i]) THEN f[i] = f[i - 1]
             ELSE f[i] = f[i - 1] + 1 /\ S[f[i]] = q[i]
  BY DEF Carried
<1> DEFINE n == Len(q)
           r == Append(q, p)
           g == [k \in 0..(n + 1) |-> IF k = n + 1 THEN Len(S) ELSE f[k]]
<1>2. n \in Nat /\ Len(S) \in Nat
  BY Shape
<1>3. Len(r) = n + 1 /\ r[n + 1] = p /\ \A i \in 1..n : r[i] = q[i]
  BY Appended
<1> HIDE DEF n, r
<1>4. g \in [0..Len(r) -> 0..Len(S)] /\ g[0] = Len(w) /\ g[Len(r)] = Len(S)
  BY <1>1, <1>2, <1>3 DEF n
<1>5. ASSUME NEW i \in 1..Len(r)
      PROVE  IF IsSync(r[i]) THEN g[i] = g[i - 1]
             ELSE g[i] = g[i - 1] + 1 /\ S[g[i]] = r[i]
  <2>1. CASE i = n + 1
    <3>1. g[i] = Len(S) /\ g[i - 1] = f[n]
      BY <1>2, <2>1
    <3> QED BY <1>1, <1>3, <2>1, <3>1 DEF n
  <2>2. CASE i # n + 1
    <3>1. i \in 1..n /\ g[i] = f[i] /\ g[i - 1] = f[i - 1] /\ r[i] = q[i]
      BY <1>2, <1>3, <2>2
    <3> HIDE DEF g
    <3> QED BY <1>1, <3>1 DEF n
  <2> QED BY <2>1, <2>2
<1> HIDE DEF g
<1> QED BY <1>4, <1>5 DEF Carried, r

\* Another packet is queued, and sent.
LEMMA CarriedSend ==
  ASSUME NEW q \in Seq(Packet), NEW w \in Seq(AppPacket), NEW S \in Seq(AppPacket),
         NEW p \in AppPacket, Carried(q, w, S), NotSync(p)
  PROVE  Carried(Append(q, p), w, Append(S, p))
<1>1. PICK f \in [0..Len(q) -> 0..Len(S)] :
        /\ f[0] = Len(w) /\ f[Len(q)] = Len(S)
        /\ \A i \in 1..Len(q) :
             IF IsSync(q[i]) THEN f[i] = f[i - 1]
             ELSE f[i] = f[i - 1] + 1 /\ S[f[i]] = q[i]
  BY DEF Carried
<1> DEFINE n == Len(q)
           r == Append(q, p)
           m == Len(S)
           T == Append(S, p)
           g == [k \in 0..(n + 1) |-> IF k = n + 1 THEN m + 1 ELSE f[k]]
<1>2. n \in Nat /\ m \in Nat /\ p \in Packet
  BY Shape DEF Packet
<1>3. Len(r) = n + 1 /\ r[n + 1] = p /\ \A i \in 1..n : r[i] = q[i]
  BY <1>2, Appended
<1>4. Len(T) = m + 1 /\ T[m + 1] = p /\ \A i \in 1..m : T[i] = S[i]
  BY Appended
<1> HIDE DEF n, r, m, T
<1>5. /\ f \in [0..n -> 0..m] /\ f[0] = Len(w) /\ f[n] = m
      /\ \A i \in 1..n : IF IsSync(q[i]) THEN f[i] = f[i - 1]
                         ELSE f[i] = f[i - 1] + 1 /\ S[f[i]] = q[i]
  BY <1>1 DEF n, m
<1>6. g \in [0..Len(r) -> 0..Len(T)] /\ g[0] = Len(w) /\ g[Len(r)] = Len(T)
  BY <1>2, <1>3, <1>4, <1>5
<1>7. ASSUME NEW i \in 1..Len(r)
      PROVE  IF IsSync(r[i]) THEN g[i] = g[i - 1]
             ELSE g[i] = g[i - 1] + 1 /\ T[g[i]] = r[i]
  <2>1. CASE i = n + 1
    <3>1. g[i] = m + 1 /\ g[i - 1] = f[n] /\ r[i] = p
      BY <1>2, <1>3, <2>1
    <3> HIDE DEF g
    <3> QED BY <1>4, <1>5, <3>1 DEF NotSync
  <2>2. CASE i # n + 1
    <3>1. i \in 1..n /\ g[i] = f[i] /\ g[i - 1] = f[i - 1] /\ r[i] = q[i]
      BY <1>2, <1>3, <2>2
    <3>2. i - 1 \in 0..n /\ i \in 0..n
      BY <1>2, <3>1
    <3>3. f[i] \in 0..m /\ f[i - 1] \in 0..m
      BY <1>5, <3>2
    <3> HIDE DEF g
    <3>4. CASE IsSync(q[i])
      BY <1>5, <3>1, <3>4
    <3>5. CASE ~IsSync(q[i])
      <4>1. f[i] = f[i - 1] + 1 /\ S[f[i]] = q[i]
        BY <1>5, <3>1, <3>5
      <4>2. f[i] \in 1..m
        BY <1>2, <3>3, <4>1
      <4> QED BY <1>4, <3>1, <3>5, <4>1, <4>2
    <3> QED BY <3>4, <3>5
  <2> QED BY <2>1, <2>2
<1> HIDE DEF g
<1> QED BY <1>6, <1>7 DEF Carried, r, T

\* The input thread takes a packet: a SYNC, or the next one for the host.
LEMMA CarriedTake ==
  ASSUME NEW q \in Seq(Packet), NEW w \in Seq(AppPacket), NEW S \in Seq(AppPacket),
         Carried(q, w, S), q # <<>>
  PROVE  /\ IsSync(Head(q)) => Carried(Tail(q), w, S)
         /\ NotSync(Head(q)) =>
              /\ Head(q) \in AppPacket
              /\ Len(w) < Len(S) /\ Head(q) = S[Len(w) + 1]
              /\ Carried(Tail(q), Append(w, Head(q)), S)
<1>1. PICK f \in [0..Len(q) -> 0..Len(S)] :
        /\ f[0] = Len(w) /\ f[Len(q)] = Len(S)
        /\ \A i \in 1..Len(q) :
             IF IsSync(q[i]) THEN f[i] = f[i - 1]
             ELSE f[i] = f[i - 1] + 1 /\ S[f[i]] = q[i]
  BY DEF Carried
<1> DEFINE n == Len(q)
           m == Len(S)
           r == Tail(q)
           p == Head(q)
           g == [k \in 0..(n - 1) |-> f[k + 1]]
<1>2. /\ n \in Nat \ {0} /\ m \in Nat /\ Len(w) \in Nat /\ p = q[1] /\ p \in Packet
      /\ Len(r) = n - 1 /\ \A i \in 1..(n - 1) : r[i] = q[i + 1]
  BY Taken, Shape
<1> HIDE DEF n, r, m, p
<1>3. /\ f \in [0..n -> 0..m] /\ f[0] = Len(w) /\ f[n] = m
      /\ \A i \in 1..n : IF IsSync(q[i]) THEN f[i] = f[i - 1]
                         ELSE f[i] = f[i - 1] + 1 /\ S[f[i]] = q[i]
  BY <1>1 DEF n, m
<1>4. g \in [0..Len(r) -> 0..m] /\ g[0] = f[1] /\ g[Len(r)] = m
  BY <1>2, <1>3
<1>5. ASSUME NEW i \in 1..Len(r)
      PROVE  IF IsSync(r[i]) THEN g[i] = g[i - 1]
             ELSE g[i] = g[i - 1] + 1 /\ S[g[i]] = r[i]
  <2>1. /\ i + 1 \in 1..n /\ g[i] = f[i + 1] /\ g[i - 1] = f[i] /\ r[i] = q[i + 1]
        /\ (i + 1) - 1 = i
    BY <1>2
  <2> HIDE DEF g
  <2> QED BY <1>3, <2>1
<1> HIDE DEF g
<1>6. 1 \in 1..n /\ 1 - 1 = 0 /\ f[1] \in 0..m
  BY <1>2, <1>3
<1>7. ASSUME IsSync(p) PROVE Carried(r, w, S)
  <2>1. f[1] = Len(w)
    BY <1>2, <1>3, <1>6, <1>7
  <2> QED BY <1>4, <1>5, <2>1 DEF Carried, m
<1>8. ASSUME NotSync(p)
      PROVE  p \in AppPacket /\ Len(w) < m /\ p = S[Len(w) + 1] /\ Carried(r, Append(w, p), S)
  <2>1. p \in AppPacket
    BY <1>2, <1>8, PacketTypes DEF Packet, NotSync
  <2>2. f[1] = Len(w) + 1 /\ S[f[1]] = p
    BY <1>2, <1>3, <1>6, <1>8 DEF NotSync
  <2>3. Len(Append(w, p)) = Len(w) + 1
    BY <2>1, Appended
  <2>4. Carried(r, Append(w, p), S)
    BY <1>4, <1>5, <2>2, <2>3 DEF Carried, m
  <2> QED BY <1>2, <1>6, <2>1, <2>2, <2>4
<1> QED BY <1>7, <1>8 DEF p, r, m

-----------------------------------------------------------------------------

\* Whatever a step does to a socket, it stays with its transport.
Settles ==
  \A s \in Sockets, t \in Transports :
    sock[s].st = "dead" \/ sock[s].t = t => sock'[s].st = "dead" \/ sock'[s].t = t

\* About, of a packet that is queued by the step.
Fits(t, p) ==
  NotSync(p) /\ p.id \in Sockets => sock'[p.id].st = "dead" \/ sock'[p.id].t = t

\* What a queue of t holds after a step: what it held, and packets that fit.
Fed(t, new, old) ==
  \A i \in DOMAIN new : (\E j \in DOMAIN old : new[i] = old[j]) \/ Fits(t, new[i])

LEMMA FedSame == \A t, q : Fed(t, q, q)
BY DEF Fed

LEMMA FedAppend ==
  ASSUME NEW t, NEW S, NEW q \in Seq(S), NEW p \in S, Fits(t, p)
  PROVE  Fed(t, Append(q, p), q)
<1>1. /\ DOMAIN Append(q, p) = 1..(Len(q) + 1) /\ DOMAIN q = 1..Len(q) /\ Len(q) \in Nat
      /\ Append(q, p)[Len(q) + 1] = p /\ \A i \in 1..Len(q) : Append(q, p)[i] = q[i]
  BY Appended, Shape
<1> SUFFICES ASSUME NEW i \in 1..(Len(q) + 1)
             PROVE  (\E j \in DOMAIN q : Append(q, p)[i] = q[j]) \/ Fits(t, Append(q, p)[i])
  BY <1>1 DEF Fed
<1>2. CASE i = Len(q) + 1
  BY <1>1, <1>2
<1>3. CASE i # Len(q) + 1
  <2>1. i \in DOMAIN q /\ Append(q, p)[i] = q[i]
    BY <1>1, <1>3
  <2> QED BY <2>1
<1> QED BY <1>2, <1>3

LEMMA FedTail ==
  ASSUME NEW t, NEW S, NEW q \in Seq(S), q # <<>>
  PROVE  Fed(t, Tail(q), q)
<1>1. /\ DOMAIN Tail(q) = 1..(Len(q) - 1) /\ DOMAIN q = 1..Len(q) /\ Len(q) \in Nat
      /\ \A i \in 1..(Len(q) - 1) : Tail(q)[i] = q[i + 1]
  BY Taken, Shape
<1>2. ASSUME NEW i \in 1..(Len(q) - 1) PROVE i + 1 \in DOMAIN q /\ Tail(q)[i] = q[i + 1]
  BY <1>1
<1> QED BY <1>1, <1>2 DEF Fed

LEMMA ToldKept ==
  ASSUME Told, Settles, NEW t \in Transports,
         Fed(t, toIn'[t], toIn[t]), Fed(t, toMain'[t], toMain[t]),
         Fed(t, wire'[t], wire[t]), Fed(t, inbound'[t], inbound[t])
  PROVE  ToldOf(t)'
<1>1. ASSUME NEW old, NEW new, AllAbout(t, old), Fed(t, new, old), NEW i \in DOMAIN new
      PROVE  Fits(t, new[i])
  <2>1. ASSUME NEW j \in DOMAIN old, new[i] = old[j] PROVE Fits(t, new[i])
    <3>1. About(t, new[i])
      BY <1>1, <2>1 DEF AllAbout
    <3> QED BY <3>1 DEF About, Fits, Settles
  <2> QED BY <1>1, <2>1 DEF Fed
<1>2. AllAbout(t, toIn[t]) /\ AllAbout(t, toMain[t]) /\ AllAbout(t, wire[t]) /\ AllAbout(t, inbound[t])
  BY DEF Told, ToldOf
<1>3. /\ \A i \in DOMAIN toIn'[t] : Fits(t, toIn'[t][i])
      /\ \A i \in DOMAIN toMain'[t] : Fits(t, toMain'[t][i])
      /\ \A i \in DOMAIN wire'[t] : Fits(t, wire'[t][i])
      /\ \A i \in DOMAIN inbound'[t] : Fits(t, inbound'[t][i])
  BY <1>1, <1>2
<1> QED BY <1>3 DEF ToldOf, AllAbout, About, Fits

\* main takes the next packet of t.
Takes(t) == toMain[t] # <<>> /\ toMain' = [toMain EXCEPT ![t] = Tail(@)]

\* Steps of main, which take a packet at most and send one at most.
LEMMA ToldMain ==
  ASSUME TypeOK, Told, Settles, UNCHANGED <<wire, inbound>>,
         \/ toMain' = toMain
         \/ \E t \in Transports : Takes(t),
         \/ toIn' = toIn
         \/ \E t \in Transports, p \in Packet : send_packet(t, p) /\ Fits(t, p)
  PROVE  Told'
<1> SUFFICES ASSUME NEW u \in Transports PROVE ToldOf(u)'
  BY DEF Told
<1>1. toMain[u] \in Seq(Packet) /\ toIn[u] \in Seq(Packet)
  BY DEF TypeOK, Packet
<1>2. Fed(u, toMain'[u], toMain[u])
  <2>1. ASSUME NEW t \in Transports, Takes(t)
        PROVE  Fed(u, toMain'[u], toMain[u])
    <3>1. toMain'[u] = toMain[u] \/ (toMain[u] # <<>> /\ toMain'[u] = Tail(toMain[u]))
      BY <2>1 DEF Takes, TypeOK
    <3> QED BY <1>1, <3>1, FedSame, FedTail
  <2> QED BY <2>1, FedSame
<1>3. Fed(u, toIn'[u], toIn[u])
  <2>1. ASSUME NEW t \in Transports, NEW p \in Packet, send_packet(t, p), Fits(t, p)
        PROVE  Fed(u, toIn'[u], toIn[u])
    <3>1. toIn'[u] = toIn[u] \/ (u = t /\ toIn'[u] = Append(toIn[u], p))
      BY <2>1 DEF send_packet, TypeOK
    <3> QED BY <1>1, <2>1, <3>1, FedSame, FedAppend
  <2> QED BY <2>1, FedSame
<1>4. Fed(u, wire'[u], wire[u]) /\ Fed(u, inbound'[u], inbound[u])
  BY FedSame
<1> QED BY <1>2, <1>3, <1>4, ToldKept

\* What changes of the sockets.
LEMMA SettlesHow ==
  ASSUME TypeOK, Tied,
         \/ sock' = sock
         \/ \E t \in Transports : sock' = run_transport_disconnects(t)
         \/ \E s \in Sockets : sock' = [sock EXCEPT ![s] = DeadSocket]
         \/ \E s \in Sockets : \E r : sock[s] = NewSocket /\ sock' = [sock EXCEPT ![s] = r]
         \/ \E s \in Sockets, t \in Transports :
              sock[s].t = t /\ sock' = [sock EXCEPT ![s] = IF @.st = "waiting"
                                                           THEN [st |-> "linked", t |-> t] ELSE @]
  PROVE  Settles
<1> SUFFICES ASSUME NEW x \in Sockets, NEW u \in Transports, sock[x].st = "dead" \/ sock[x].t = u
             PROVE  sock'[x].st = "dead" \/ sock'[x].t = u
  BY DEF Settles
<1>0. x \in DOMAIN sock /\ DeadSocket.st = "dead" /\ NewSocket.st = "new" /\ NewSocket.t # u
  BY ConstantsAssumption DEF TypeOK, DeadSocket, NewSocket
<1>1. CASE sock' = sock
  BY <1>1
<1>2. ASSUME NEW t \in Transports, sock' = run_transport_disconnects(t)
      PROVE  sock'[x].st = "dead" \/ sock'[x].t = u
  BY <1>0, <1>2, Disconnected
<1>3. ASSUME NEW s \in Sockets, sock' = [sock EXCEPT ![s] = DeadSocket]
      PROVE  sock'[x].st = "dead" \/ sock'[x].t = u
  BY <1>0, <1>3
<1>4. ASSUME NEW s \in Sockets, NEW r, sock[s] = NewSocket, sock' = [sock EXCEPT ![s] = r]
      PROVE  sock'[x].st = "dead" \/ sock'[x].t = u
  <2>1. x # s
    BY <1>0, <1>4
  <2> QED BY <1>0, <1>4, <2>1
<1>5. ASSUME NEW s \in Sockets, NEW t \in Transports, sock[s].t = t,
             sock' = [sock EXCEPT ![s] = IF @.st = "waiting" THEN [st |-> "linked", t |-> t] ELSE @]
      PROVE  sock'[x].st = "dead" \/ sock'[x].t = u
  <2>1. CASE x # s
    BY <1>0, <1>5, <2>1
  <2>2. CASE x = s
    <3>1. sock'[x] = IF sock[x].st = "waiting" THEN [st |-> "linked", t |-> t] ELSE sock[x]
      BY <1>0, <1>5, <2>2
    <3>2. sock[x].st = "waiting" => sock[x].t = u
      OBVIOUS
    <3> QED BY <1>5, <2>2, <3>1, <3>2
  <2> QED BY <2>1, <2>2
<1> QED BY <1>1, <1>2, <1>3, <1>4, <1>5

\* The packet that main takes is of the transport it comes from.
LEMMA HeadIsAbout ==
  ASSUME TypeOK, Told, NEW t \in Transports, NEW cmd, receive(t, cmd), cmd \notin {"SYNC0", "SYNC1"},
         NEW s \in Sockets, s = Head(toMain[t]).id
  PROVE  sock[s].st = "dead" \/ sock[s].t = t
<1>1. toMain[t] \in Seq(Packet) /\ toMain[t] # <<>> /\ Head(toMain[t]).cmd = cmd
  BY DEF TypeOK, Packet, receive
<1>2. Head(toMain[t]) = toMain[t][1] /\ 1 \in DOMAIN toMain[t]
  BY <1>1, Taken, Shape
<1>3. About(t, toMain[t][1])
  BY <1>2 DEF Told, ToldOf, AllAbout
<1> QED BY <1>1, <1>2, <1>3 DEF About, NotSync, IsSync

\* Every step keeps Told.
LEMMA ToldStep ==
  ASSUME TypeOK, Tied, Told, [Next]_vars
  PROVE  Told'
<1> USE DEF vars, mainVars, lifeVars, stateVars, threadVars, hostVars, threadOnly
<1>p. /\ \A c \in {"CNXN", "OPEN", "OKAY", "CLSE", "WRTE"}, i \in Sockets \cup {0} :
           [cmd |-> c, id |-> i] \in Packet
      /\ 0 \notin Sockets
  BY PacketTypes, ConstantsAssumption DEF Packet
<1>z. ASSUME NEW t, NEW c PROVE Fits(t, [cmd |-> c, id |-> 0])
  BY <1>p DEF Fits
<1>d. ASSUME NEW t, NEW c, NEW s \in Sockets, sock' = [sock EXCEPT ![s] = DeadSocket]
      PROVE  Fits(t, [cmd |-> c, id |-> s])
  BY <1>d DEF Fits, TypeOK, DeadSocket
<1>n. ASSUME NEW t, NEW c, NEW st, NEW s \in Sockets, sock' = [sock EXCEPT ![s] = [st |-> st, t |-> t]]
      PROVE  Fits(t, [cmd |-> c, id |-> s])
  BY <1>n DEF Fits, TypeOK
<1>s. sock' = sock => Settles
  BY SettlesHow
<1>q. ASSUME NEW u \in Transports
      PROVE  /\ toMain[u] \in Seq(Packet) /\ toIn[u] \in Seq(Packet) /\ wire[u] \in Seq(AppPacket)
             /\ inbound[u] \in Seq(AppPacket \cup {BadPacket})
  BY DEF TypeOK, Packet
<1>1. ASSUME NEW t \in Transports, MainPacket(t) PROVE Told'
  <2>1. CASE handle_SYNC1(t) \/ handle_SYNC0(t)
    <3>1. PICK cmd \in {"SYNC0", "SYNC1"} : receive(t, cmd) /\ send_packet(t, Head(toMain[t]))
      BY <2>1 DEF handle_SYNC1, handle_SYNC0
    <3>2. Head(toMain[t]) \in Packet /\ Head(toMain[t]).cmd = cmd
      BY <1>q, <3>1, Taken DEF receive
    <3>3. Fits(t, Head(toMain[t]))
      BY <3>2 DEF Fits, NotSync, IsSync
    <3>4. sock' = sock \/ sock' = run_transport_disconnects(t)
      BY <2>1 DEF handle_SYNC1, handle_SYNC0, handle_offline
    <3>5. Settles
      BY <3>4, SettlesHow
    <3>6. UNCHANGED <<wire, inbound>> /\ Takes(t)
      BY <3>1 DEF receive, Takes
    <3> QED BY <3>1, <3>2, <3>3, <3>5, <3>6, ToldMain
  <2>2. CASE handle_CNXN(t)
    <3>1. receive(t, "CNXN") /\ send_packet(t, [cmd |-> "CNXN", id |-> 0])
      BY <2>2 DEF handle_CNXN
    <3>2. sock' = sock \/ sock' = run_transport_disconnects(t)
      BY <2>2 DEF handle_CNXN
    <3>3. Settles
      BY <3>2, SettlesHow
    <3>4. UNCHANGED <<wire, inbound>> /\ Takes(t)
      BY <3>1 DEF receive, Takes
    <3> QED BY <1>p, <1>z, <3>1, <3>3, <3>4, ToldMain
  <2>3. ASSUME NEW s \in Sockets, handle_OPEN(t, s) PROVE Told'
    <3>1. /\ receive(t, "OPEN") /\ send_packet(t, [cmd |-> "OKAY", id |-> s])
          /\ sock[s] = NewSocket /\ sock' = [sock EXCEPT ![s] = [st |-> "linked", t |-> t]]
      BY <2>3 DEF handle_OPEN
    <3>2. Settles
      BY <3>1, SettlesHow
    <3>3. Fits(t, [cmd |-> "OKAY", id |-> s]) /\ [cmd |-> "OKAY", id |-> s] \in Packet
      BY <1>n, <1>p, <3>1
    <3>4. UNCHANGED <<wire, inbound>> /\ Takes(t)
      BY <3>1 DEF receive, Takes
    <3> QED BY <3>1, <3>2, <3>3, <3>4, ToldMain
  <2>4. CASE refuse_OPEN(t)
    <3>1. receive(t, "OPEN") /\ send_packet(t, [cmd |-> "CLSE", id |-> 0]) /\ sock' = sock
      BY <2>4 DEF refuse_OPEN
    <3>2. UNCHANGED <<wire, inbound>> /\ Takes(t)
      BY <3>1 DEF receive, Takes
    <3> QED BY <1>p, <1>s, <1>z, <3>1, <3>2, ToldMain
  <2>5. CASE handle_OKAY(t)
    <3>1. PICK s \in Sockets : s = Head(toMain[t]).id
      BY <2>5 DEF handle_OKAY
    <3>2. /\ receive(t, "OKAY") /\ toIn' = toIn /\ sock[s].st \in {"waiting", "linked"}
          /\ sock' = [sock EXCEPT ![s] = IF @.st = "waiting"
                                          THEN [st |-> "linked", t |-> t] ELSE @]
      BY <2>5, <3>1 DEF handle_OKAY
    <3>3. sock[s].t = t
      BY <3>1, <3>2, HeadIsAbout
    <3>4. Settles
      BY <3>2, <3>3, SettlesHow
    <3>5. UNCHANGED <<wire, inbound>> /\ Takes(t)
      BY <3>2 DEF receive, Takes
    <3> QED BY <3>2, <3>4, <3>5, ToldMain
  <2>6. CASE handle_CLSE(t)
    <3>1. PICK s \in Sockets : s = Head(toMain[t]).id
      BY <2>6 DEF handle_CLSE
    <3>2. /\ receive(t, "CLSE") /\ sock' = [sock EXCEPT ![s] = DeadSocket]
          /\ toIn' = toIn \/ (sock[s].st = "linked" /\ send_packet(sock[s].t, [cmd |-> "CLSE", id |-> s]))
      BY <2>6, <3>1 DEF handle_CLSE
    <3>3. sock[s].st = "linked" => sock[s].t \in Transports
      BY DEF Tied, TiedOf
    <3>4. Settles
      BY <3>2, SettlesHow
    <3>5. UNCHANGED <<wire, inbound>> /\ Takes(t)
      BY <3>2 DEF receive, Takes
    <3>6. Fits(sock[s].t, [cmd |-> "CLSE", id |-> s]) /\ [cmd |-> "CLSE", id |-> s] \in Packet
      BY <1>d, <1>p, <3>2
    <3> QED BY <3>2, <3>3, <3>4, <3>5, <3>6, ToldMain
  <2>7. CASE drop_packet(t)
    <3>1. PICK cmd \in {"OPEN", "OKAY", "CLSE"} : receive(t, cmd)
      BY <2>7 DEF drop_packet
    <3>2. UNCHANGED <<wire, inbound, toIn, sock>> /\ Takes(t)
      BY <2>7, <3>1 DEF drop_packet, receive, Takes
    <3> QED BY <1>s, <3>1, <3>2, ToldMain
  <2> QED BY <1>1, <2>1, <2>2, <2>3, <2>4, <2>5, <2>6, <2>7 DEF MainPacket
<1>2. ASSUME NEW s \in Sockets, MainSocket(s) PROVE Told'
  <2>1. UNCHANGED <<wire, inbound, toMain>>
    BY <1>2 DEF MainSocket, smart_socket_connect, remote_socket_enqueue, remote_socket_close
  <2>2. ASSUME NEW t \in Transports, smart_socket_connect(t, s) PROVE Told'
    <3>1. /\ send_packet(t, [cmd |-> "OPEN", id |-> s])
          /\ sock[s] = NewSocket
      BY <2>2 DEF smart_socket_connect
    <3>r. PICK r \in {[st |-> "waiting", t |-> t], DeadSocket} : sock' = [sock EXCEPT ![s] = r]
      BY <2>2 DEF smart_socket_connect
    <3>2. Settles
      BY <3>1, <3>r, SettlesHow
    <3>3. Fits(t, [cmd |-> "OPEN", id |-> s]) /\ [cmd |-> "OPEN", id |-> s] \in Packet
      <4>1. CASE r = [st |-> "waiting", t |-> t]
        BY <1>n, <1>p, <3>1, <3>r, <4>1
      <4>2. CASE r = DeadSocket
        BY <1>d, <1>p, <3>1, <3>r, <4>2
      <4> QED BY <3>r, <4>1, <4>2
    <3> QED BY <2>1, <3>1, <3>2, <3>3, ToldMain
  <2>3. sock[s].st = "linked" => sock[s].t \in Transports
    BY DEF Tied, TiedOf
  <2>4. CASE remote_socket_enqueue(s)
    <3>1. sock[s].st = "linked" /\ send_packet(sock[s].t, [cmd |-> "WRTE", id |-> s]) /\ sock' = sock
      BY <2>4 DEF remote_socket_enqueue
    <3>2. Fits(sock[s].t, [cmd |-> "WRTE", id |-> s]) /\ [cmd |-> "WRTE", id |-> s] \in Packet
      BY <1>p, <3>1 DEF Fits
    <3> QED BY <1>s, <2>1, <2>3, <3>1, <3>2, ToldMain
  <2>5. CASE remote_socket_close(s)
    <3>1. /\ sock[s].st = "linked" /\ send_packet(sock[s].t, [cmd |-> "CLSE", id |-> s])
          /\ sock' = [sock EXCEPT ![s] = DeadSocket]
      BY <2>5 DEF remote_socket_close
    <3>2. Fits(sock[s].t, [cmd |-> "CLSE", id |-> s]) /\ [cmd |-> "CLSE", id |-> s] \in Packet
      BY <1>d, <1>p, <3>1
    <3>3. Settles
      BY <3>1, SettlesHow
    <3> QED BY <2>1, <2>3, <3>1, <3>2, <3>3, ToldMain
  <2> QED BY <1>2, <2>2, <2>4, <2>5 DEF MainSocket
<1>3. ASSUME NEW t \in Transports, Output(t) PROVE Told'
  <2>1. UNCHANGED <<toIn, wire, sock>>
    BY <1>3 DEF Output, out_sync, out_read, out_fail, out_offline
  <2> SUFFICES ASSUME NEW u \in Transports PROVE ToldOf(u)'
    BY DEF Told
  <2>2. Fed(u, toMain'[u], toMain[u])
    <3>1. CASE out_sync(t) \/ out_offline(t)
      <4>0. first_packet(t) \in SyncPacket /\ Sync(0, 0) \in SyncPacket
        BY PacketTypes DEF first_packet, TypeOK
      <4>1. PICK p \in SyncPacket : toMain' = [toMain EXCEPT ![t] = Append(@, p)]
        BY <3>1, <4>0 DEF out_sync, out_offline
      <4>2. p \in Packet /\ Fits(u, p)
        BY DEF Packet, SyncPacket, Fits, NotSync, IsSync
      <4>3. toMain'[u] = toMain[u] \/ toMain'[u] = Append(toMain[u], p)
        BY <4>1 DEF TypeOK
      <4> QED BY <1>q, <4>2, <4>3, FedSame, FedAppend
    <3>2. CASE out_read(t)
      <4>1. /\ inbound[t] # <<>> /\ Head(inbound[t]) # BadPacket
            /\ toMain' = [toMain EXCEPT ![t] = Append(@, Head(inbound[t]))]
        BY <3>2 DEF out_read
      <4>2. Head(inbound[t]) = inbound[t][1] /\ 1 \in DOMAIN inbound[t] /\ Head(inbound[t]) \in AppPacket
        BY <1>q, <4>1, Taken, Shape
      <4>3. About(t, inbound[t][1])
        BY <4>2 DEF Told, ToldOf, AllAbout
      <4>4. Fits(t, Head(inbound[t])) /\ Head(inbound[t]) \in Packet
        BY <2>1, <4>2, <4>3 DEF About, Fits, Packet
      <4>5. toMain'[u] = toMain[u] \/ (u = t /\ toMain'[u] = Append(toMain[u], Head(inbound[t])))
        BY <4>1 DEF TypeOK
      <4> QED BY <1>q, <4>4, <4>5, FedSame, FedAppend
    <3>3. CASE out_fail(t)
      BY <3>3, FedSame DEF out_fail
    <3> QED BY <1>3, <3>1, <3>2, <3>3 DEF Output
  <2>3. Fed(u, inbound'[u], inbound[u])
    <3>1. inbound'[u] = inbound[u] \/ (inbound[u] # <<>> /\ inbound'[u] = Tail(inbound[u]))
      BY <1>3, SMTT(30) DEF Output, out_sync, out_read, out_fail, out_offline, TypeOK
    <3> QED BY <1>q, <3>1, FedSame, FedTail
  <2>4. Fed(u, toIn'[u], toIn[u]) /\ Fed(u, wire'[u], wire[u])
    BY <2>1, FedSame
  <2> QED BY <1>s, <2>1, <2>2, <2>3, <2>4, ToldKept
<1>4. ASSUME NEW t \in Transports, in_sync(t) \/ in_stop(t) \/ in_drop(t) \/ in_write(t) PROVE Told'
  <2>1. UNCHANGED <<toMain, inbound, sock>> /\ toIn[t] # <<>> /\ toIn' = [toIn EXCEPT ![t] = Tail(@)]
    BY <1>4 DEF in_sync, in_stop, in_drop, in_write, in_next
  <2> SUFFICES ASSUME NEW u \in Transports PROVE ToldOf(u)'
    BY DEF Told
  <2>2. Fed(u, toIn'[u], toIn[u])
    <3>1. toIn'[u] = toIn[u] \/ (toIn[u] # <<>> /\ toIn'[u] = Tail(toIn[u]))
      BY <2>1 DEF TypeOK
    <3> QED BY <1>q, <3>1, FedSame, FedTail
  <2>3. Fed(u, wire'[u], wire[u])
    <3>1. CASE wire' = wire
      BY <3>1, FedSame
    <3>2. CASE in_write(t)
      <4>1. wire' = [wire EXCEPT ![t] = Append(@, Head(toIn[t]))] /\ NotSync(Head(toIn[t]))
        BY <3>2 DEF in_write
      <4>2. /\ Head(toIn[t]) = toIn[t][1] /\ 1 \in DOMAIN toIn[t] /\ Head(toIn[t]) \in Packet
        BY <1>q, <2>1, Taken, Shape
      <4>3. About(t, toIn[t][1]) /\ Head(toIn[t]) \in AppPacket
        BY <4>1, <4>2, PacketTypes DEF Told, ToldOf, AllAbout, Packet, NotSync
      <4>4. Fits(t, Head(toIn[t]))
        BY <2>1, <4>2, <4>3 DEF About, Fits
      <4>5. wire'[u] = wire[u] \/ (u = t /\ wire'[u] = Append(wire[u], Head(toIn[t])))
        BY <4>1 DEF TypeOK
      <4> QED BY <1>q, <4>3, <4>4, <4>5, FedSame, FedAppend
    <3> QED BY <1>4, <3>1, <3>2 DEF in_sync, in_stop, in_drop
  <2>4. Fed(u, toMain'[u], toMain[u]) /\ Fed(u, inbound'[u], inbound[u])
    BY <2>1, FedSame
  <2> QED BY <1>s, <2>1, <2>2, <2>3, <2>4, ToldKept
<1>5. ASSUME NEW t \in Transports, NEW s \in Sockets, in_close_socket(t, s) PROVE Told'
  <2>1. /\ UNCHANGED <<wire, inbound, toMain>> /\ sock' = [sock EXCEPT ![s] = DeadSocket]
        /\ toIn' = toIn \/ send_packet(t, [cmd |-> "CLSE", id |-> s])
    BY <1>5 DEF in_close_socket
  <2>2. Settles
    BY <2>1, SettlesHow
  <2>3. Fits(t, [cmd |-> "CLSE", id |-> s]) /\ [cmd |-> "CLSE", id |-> s] \in Packet
    BY <1>d, <1>p, <2>1
  <2> QED BY <2>1, <2>2, <2>3, ToldMain
<1>6. ASSUME NEW t \in Transports, host_send(t) PROVE Told'
  <2>1. UNCHANGED <<toIn, wire, toMain, sock>>
    BY <1>6 DEF host_send
  <2>2. PICK p \in host_packet(t) : inbound' = [inbound EXCEPT ![t] = Append(@, p)]
    BY <1>6 DEF host_send
  <2>3. Fits(t, p)
    <3>1. CASE p.id = 0
      BY <1>p, <3>1 DEF Fits
    <3>2. CASE p.id \in host_knows(t)
      <4>1. PICK i \in 1..Len(wire[t]) : p.id = wire[t][i].id
        BY <3>2 DEF host_knows
      <4>2. wire[t][i] \in AppPacket /\ i \in DOMAIN wire[t]
        BY <1>q, Shape
      <4>3. About(t, wire[t][i]) /\ NotSync(wire[t][i])
        BY <4>2 DEF Told, ToldOf, AllAbout, AppPacket, NotSync, IsSync
      <4> QED BY <2>1, <4>1, <4>3 DEF About, Fits
    <3> QED BY <3>1, <3>2 DEF host_packet, BadPacket
  <2>4. p \in AppPacket \cup {BadPacket}
    BY DEF host_packet, host_knows, AppPacket
  <2> SUFFICES ASSUME NEW u \in Transports PROVE ToldOf(u)'
    BY DEF Told
  <2>5. Fed(u, inbound'[u], inbound[u])
    <3>1. inbound'[u] = inbound[u] \/ (u = t /\ inbound'[u] = Append(inbound[u], p))
      BY <2>2 DEF TypeOK
    <3> QED BY <1>q, <2>3, <2>4, <3>1, FedSame, FedAppend
  <2>6. Fed(u, toIn'[u], toIn[u]) /\ Fed(u, wire'[u], wire[u]) /\ Fed(u, toMain'[u], toMain[u])
    BY <2>1, FedSame
  <2> QED BY <1>s, <2>1, <2>5, <2>6, ToldKept
<1>7. ASSUME NEW t \in Transports, free_transport(t) PROVE Told'
  <2>1. /\ UNCHANGED <<wire, inbound>> /\ sock' = run_transport_disconnects(t)
        /\ toMain' = [toMain EXCEPT ![t] = <<>>] /\ toIn' = [toIn EXCEPT ![t] = <<>>]
    BY <1>7 DEF free_transport
  <2>2. Settles
    BY <2>1, SettlesHow
  <2> SUFFICES ASSUME NEW u \in Transports PROVE ToldOf(u)'
    BY DEF Told
  <2>3. (toMain'[u] = toMain[u] \/ toMain'[u] = <<>>) /\ (toIn'[u] = toIn[u] \/ toIn'[u] = <<>>)
    BY <2>1 DEF TypeOK
  <2>4. \A q : Fed(u, <<>>, q)
    BY DEF Fed
  <2>5. /\ Fed(u, toIn'[u], toIn[u]) /\ Fed(u, toMain'[u], toMain[u])
        /\ Fed(u, wire'[u], wire[u]) /\ Fed(u, inbound'[u], inbound[u])
    BY <2>1, <2>3, <2>4, FedSame
  <2> QED BY <2>2, <2>5, ToldKept
<1>8. ASSUME UNCHANGED <<toIn, toMain, wire, inbound, sock>> PROVE Told'
  BY <1>s, <1>8, ToldMain
<1>9. ASSUME NEW t \in Transports,
             \/ register_socket_transport(t) \/ start_transport(t) \/ list_transport(t)
             \/ in_closed(t) \/ link_down(t) \/ \E th \in Threads : Teardown(th, t)
      PROVE  Told'
  BY <1>8, <1>9 DEF register_socket_transport, start_transport, list_transport, in_closed, link_down,
                    Teardown, kick_check, kick_lock, kick_call, transport_unref
<1> QED BY <1>1, <1>2, <1>3, <1>4, <1>5, <1>6, <1>7, <1>8, <1>9
        DEF Next, MainRegistration, InputSure

-----------------------------------------------------------------------------

\* What is on its way to the host on a transport that a step leaves alone.
LEMMA CarryKept ==
  ASSUME NEW u \in Transports, CarriedOf(u), toIn'[u] = toIn[u], wire'[u] = wire[u],
         sent'[u] = sent[u], up'[u] => up[u], kicks'[u] = 0 => kicks[u] = 0
  PROVE  CarriedOf(u)'
BY DEF CarriedOf

LEMMA CarrySend ==
  ASSUME TypeOK, Carry, NEW t \in Transports, NEW p \in Packet, send_packet(t, p),
         UNCHANGED <<wire, up, kicks>>
  PROVE  Carry'
<1> SUFFICES ASSUME NEW u \in Transports PROVE CarriedOf(u)'
  BY DEF Carry
<1>1. CarriedOf(u)
  BY DEF Carry
<1>2. CASE u # t
  <2>1. toIn'[u] = toIn[u] /\ sent'[u] = sent[u]
    BY <1>2 DEF send_packet, TypeOK
  <2> QED BY <1>1, <2>1, CarryKept
<1>3. CASE u = t
  <2>1. toIn[u] \in Seq(Packet) /\ wire[u] \in Seq(AppPacket) /\ sent[u] \in Seq(AppPacket)
    BY DEF TypeOK, Packet
  <2>2. toIn'[u] = Append(toIn[u], p)
    BY <1>3 DEF send_packet, TypeOK
  <2> SUFFICES ASSUME up[u], kicks[u] = 0 PROVE Carried(toIn'[u], wire[u], sent'[u])
    BY DEF CarriedOf
  <2>3. Carried(toIn[u], wire[u], sent[u])
    BY <1>1 DEF CarriedOf
  <2>4. CASE IsSync(p)
    <3>1. sent'[u] = sent[u]
      BY <2>4 DEF send_packet
    <3> QED BY <2>1, <2>2, <2>3, <2>4, <3>1, CarriedSync
  <2>5. CASE NotSync(p)
    <3>1. sent'[u] = Append(sent[u], p)
      BY <1>3, <2>5 DEF send_packet, TypeOK, NotSync
    <3>2. p \in AppPacket
      BY <2>5, PacketTypes DEF Packet, NotSync
    <3> QED BY <2>1, <2>2, <2>3, <2>5, <3>1, <3>2, CarriedSend
  <2> QED BY <2>4, <2>5 DEF NotSync
<1> QED BY <1>2, <1>3

\* The packets that leave toIn, but for the SYNCs, are written, or the
\* connection is lost: the gate is open.
LEMMA CarryTake ==
  ASSUME IInv, Carry, NEW t \in Transports, in_sync(t) \/ in_stop(t) \/ in_drop(t) \/ in_write(t)
  PROVE  Carry'
<1> USE DEF lifeVars, hostVars
<1> SUFFICES ASSUME NEW u \in Transports PROVE CarriedOf(u)'
  BY DEF Carry
<1>0. TypeOK /\ CarriedOf(u)
  BY DEF Carry, IInv
<1>1. UNCHANGED <<up, kicks, sent>> /\ toIn[t] # <<>> /\ toIn' = [toIn EXCEPT ![t] = Tail(@)]
  BY DEF in_sync, in_stop, in_drop, in_write, in_next
<1>2. CASE u # t
  <2>1. toIn'[u] = toIn[u] /\ wire'[u] = wire[u]
    BY <1>0, <1>1, <1>2 DEF TypeOK, in_sync, in_stop, in_drop, in_write
  <2> QED BY <1>0, <1>1, <2>1, CarryKept
<1>3. CASE u = t
  <2>1. toIn[u] \in Seq(Packet) /\ wire[u] \in Seq(AppPacket) /\ sent[u] \in Seq(AppPacket)
    BY <1>0 DEF TypeOK, Packet
  <2>2. toIn'[u] = Tail(toIn[u]) /\ toIn[u] # <<>>
    BY <1>0, <1>1, <1>3 DEF TypeOK
  <2> SUFFICES ASSUME up[u], kicks[u] = 0 PROVE Carried(toIn'[u], wire'[u], sent[u])
    BY <1>1 DEF CarriedOf
  <2>3. Carried(toIn[u], wire[u], sent[u])
    BY <1>0 DEF CarriedOf
  <2>4. CASE in_sync(t) \/ in_stop(t)
    <3>1. wire' = wire /\ IsSync(Head(toIn[u]))
      BY <1>3, <2>4 DEF in_sync, in_stop, IsSync
    <3> QED BY <2>1, <2>2, <2>3, <3>1, CarriedTake
  <2>5. CASE in_write(t)
    <3>1. wire'[u] = Append(wire[u], Head(toIn[u])) /\ NotSync(Head(toIn[u]))
      BY <1>0, <1>3, <2>5 DEF in_write, TypeOK
    <3> QED BY <2>1, <2>2, <2>3, <3>1, CarriedTake
  <2>6. CASE in_drop(t)
    <3>1. inpc[u] = "read" /\ NotSync(Head(toIn[u])) /\ ~active[u]
      BY <1>3, <2>6 DEF in_drop, in_next, not_written
    <3>2. Head(toIn[u]) = toIn[u][1]
      BY <2>1, <2>2, Taken
    <3>3. NotSync(toIn[u][1])
      BY <3>1, <3>2
    <3>4. toIn[u][1] = Sync(1, token[u])
      BY <2>2, <3>1 DEF IInv, Gate, GateOf
    <3>5. ~NotSync(Sync(1, token[u]))
      BY <1>0, PacketTypes DEF TypeOK
    <3> QED BY <3>3, <3>4, <3>5
  <2> QED BY <2>4, <2>5, <2>6
<1> QED BY <1>2, <1>3

\* A transport that is freed was shut down.
LEMMA FreedIsCut ==
  ASSUME IInv, NEW t \in Transports, free_transport(t)
  PROVE  stage[t] = "removing" /\ kicks[t] = 1
<1>1. regq \in Seq(TMsg) /\ regq # <<>> /\ Head(regq) = [t |-> t, action |-> 0]
  BY DEF free_transport, IInv, TypeOK
<1>2. 1 \in DOMAIN regq /\ regq[1] = [t |-> t, action |-> 0]
  BY <1>1, Taken, Shape
<1>3. stage[t] = "removing"
  BY <1>2 DEF IInv, Life, Queue
<1>4. KickOf(t) /\ LifeOf(t)
  BY DEF IInv, Life, Kick
<1> QED BY <1>3, <1>4 DEF KickOf, LifeOf

LEMMA CarryStep ==
  ASSUME IInv, Carry, [Next]_vars
  PROVE  Carry'
<1> USE DEF vars, mainVars, lifeVars, stateVars, threadVars, hostVars, threadOnly
<1>0. TypeOK
  BY DEF IInv
<1>p. \A c \in {"CNXN", "OPEN", "OKAY", "CLSE", "WRTE"}, i \in Sockets \cup {0} :
        [cmd |-> c, id |-> i] \in Packet
  BY PacketTypes DEF Packet
<1>l. \A s \in Sockets : sock[s].st = "linked" => sock[s].t \in Transports
  BY DEF IInv, Tied, TiedOf
<1>c. ASSUME NEW u \in Transports PROVE CarriedOf(u) /\ kicks[u] \in Nat
  BY <1>0 DEF Carry, TypeOK
<1>f. ASSUME UNCHANGED <<toIn, wire, sent, up, kicks>> PROVE Carry'
  BY <1>f, <1>c, CarryKept DEF Carry
<1>1. ASSUME NEW t \in Transports, MainPacket(t) PROVE Carry'
  <2>1. UNCHANGED <<wire, up, kicks>>
    BY <1>1 DEF MainPacket, handle_SYNC1, handle_SYNC0, handle_CNXN, handle_OPEN, refuse_OPEN,
                handle_OKAY, handle_CLSE, drop_packet, receive
  <2>2. CASE handle_SYNC1(t) \/ handle_SYNC0(t)
    <3>1. PICK cmd \in {"SYNC0", "SYNC1"} : receive(t, cmd) /\ send_packet(t, Head(toMain[t]))
      BY <2>2 DEF handle_SYNC1, handle_SYNC0
    <3>2. Head(toMain[t]) \in Packet
      BY <1>0, <3>1, ReceiveTypes DEF Packet
    <3> QED BY <1>0, <2>1, <3>1, <3>2, CarrySend
  <2>3. CASE handle_CNXN(t) \/ refuse_OPEN(t)
    <3>1. \E p \in Packet : send_packet(t, p)
      BY <1>p, <2>3 DEF handle_CNXN, refuse_OPEN
    <3> QED BY <1>0, <2>1, <3>1, CarrySend
  <2>4. ASSUME NEW s \in Sockets, handle_OPEN(t, s) PROVE Carry'
    <3>1. \E p \in Packet : send_packet(t, p)
      BY <1>p, <2>4 DEF handle_OPEN
    <3> QED BY <1>0, <2>1, <3>1, CarrySend
  <2>5. CASE handle_OKAY(t) \/ drop_packet(t)
    BY <1>f, <2>1, <2>5 DEF handle_OKAY, drop_packet
  <2>6. CASE handle_CLSE(t)
    <3>1. PICK s \in Sockets : s = Head(toMain[t]).id
      BY <2>6 DEF handle_CLSE
    <3>2. \/ UNCHANGED <<toIn, sent>>
          \/ sock[s].st = "linked" /\ send_packet(sock[s].t, [cmd |-> "CLSE", id |-> s])
      BY <2>6, <3>1 DEF handle_CLSE
    <3>3. [cmd |-> "CLSE", id |-> s] \in Packet
      BY <1>p
    <3> QED BY <1>0, <1>f, <1>l, <2>1, <3>2, <3>3, CarrySend
  <2> QED BY <1>1, <2>2, <2>3, <2>4, <2>5, <2>6 DEF MainPacket
<1>2. ASSUME NEW s \in Sockets, MainSocket(s) PROVE Carry'
  <2>1. UNCHANGED <<wire, up, kicks>>
    BY <1>2 DEF MainSocket, smart_socket_connect, remote_socket_enqueue, remote_socket_close
  <2>2. \E u \in Transports, p \in Packet : send_packet(u, p)
    BY <1>2, <1>l, <1>p DEF MainSocket, smart_socket_connect, remote_socket_enqueue,
                            remote_socket_close
  <2> QED BY <1>0, <2>1, <2>2, CarrySend
<1>3. ASSUME NEW t \in Transports, NEW s \in Sockets, in_close_socket(t, s) PROVE Carry'
  <2>1. /\ UNCHANGED <<wire, up, kicks>>
        /\ UNCHANGED <<toIn, sent>> \/ send_packet(t, [cmd |-> "CLSE", id |-> s])
    BY <1>3 DEF in_close_socket
  <2>2. [cmd |-> "CLSE", id |-> s] \in Packet
    BY <1>p
  <2> QED BY <1>0, <1>f, <2>1, <2>2, CarrySend
<1>4. ASSUME NEW t \in Transports, free_transport(t) PROVE Carry'
  <2> SUFFICES ASSUME NEW u \in Transports PROVE CarriedOf(u)'
    BY DEF Carry
  <2>1. UNCHANGED <<up, kicks, wire, sent>> /\ toIn' = [toIn EXCEPT ![t] = <<>>]
    BY <1>4 DEF free_transport
  <2>2. CASE u = t
    <3>1. kicks[u] = 1
      BY <1>4, <2>2, FreedIsCut
    <3> QED BY <2>1, <3>1 DEF CarriedOf
  <2>3. CASE u # t
    <3>1. toIn'[u] = toIn[u]
      BY <1>0, <2>1, <2>3 DEF TypeOK
    <3> QED BY <1>c, <2>1, <3>1, CarryKept
  <2> QED BY <2>2, <2>3
<1>5. ASSUME NEW t \in Transports, NEW th \in Threads, Teardown(th, t) PROVE Carry'
  <2>1. UNCHANGED <<toIn, wire, sent, up>>
    BY <1>5 DEF Teardown, kick_check, kick_lock, kick_call, transport_unref
  <2>2. kicks' = kicks \/ kicks' = [kicks EXCEPT ![t] = kicks[t] + 1] \/ kicks' = [kicks EXCEPT ![t] = kicks[t]]
    BY <1>5, Zenon DEF Teardown, kick_check, kick_lock, kick_call, transport_unref
  <2>3. ASSUME NEW u \in Transports PROVE CarriedOf(u)'
    <3>1. kicks'[u] = kicks[u] \/ kicks'[u] = kicks[u] + 1
      BY <1>0, <2>2 DEF TypeOK
    <3>2. kicks'[u] = 0 => kicks[u] = 0
      BY <1>c, <3>1
    <3> QED BY <1>c, <2>1, <3>2, CarryKept
  <2> QED BY <2>3 DEF Carry
<1>6. ASSUME NEW t \in Transports, link_down(t) PROVE Carry'
  <2>1. UNCHANGED <<toIn, wire, sent, kicks>> /\ up' = [up EXCEPT ![t] = FALSE]
    BY <1>6 DEF link_down
  <2>2. ASSUME NEW u \in Transports PROVE CarriedOf(u)'
    <3>1. up'[u] => up[u]
      BY <1>0, <2>1 DEF TypeOK
    <3> QED BY <1>c, <2>1, <3>1, CarryKept
  <2> QED BY <2>2 DEF Carry
<1>7. ASSUME NEW t \in Transports,
             \/ register_socket_transport(t) \/ start_transport(t) \/ list_transport(t)
             \/ in_closed(t) \/ host_send(t) \/ Output(t)
      PROVE  Carry'
  BY <1>f, <1>7 DEF register_socket_transport, start_transport, list_transport, in_closed, host_send,
                    Output, out_sync, out_read, out_fail, out_offline
<1>8. ASSUME NEW t \in Transports, in_sync(t) \/ in_stop(t) \/ in_drop(t) \/ in_write(t) PROVE Carry'
  BY <1>8, CarryTake
<1> QED BY <1>f, <1>1, <1>2, <1>3, <1>4, <1>5, <1>6, <1>7, <1>8 DEF Next, MainRegistration, InputSure

-----------------------------------------------------------------------------
(* The state of Link.                                                      *)

EndIsOver == \A t \in Transports : Ended(t) <=> Over(t)

LEMMA EndedMeans == IInv => EndIsOver
<1> SUFFICES ASSUME IInv, NEW t \in Transports PROVE Ended(t) <=> Over(t)
  BY DEF EndIsOver
<1>1. Over(t) => Ended(t)
  BY DEF Over, Ended, KickSteps
<1> QED BY <1>1, EndedIsOver

LEMMA EndedMeansNext == IInv' => EndIsOver'
BY EndedMeans, PTL

\* Between its registration and its end.
Present(t) == stage[t] \notin {"none", "freed"}

\* phaseBar, transport by transport.
PhaseOf(t) ==
  /\ stage[t] = "none" => phaseBar[t] = "new"
  /\ stage[t] = "freed" => phaseBar[t] = "reclaimed"
  /\ Present(t) /\ Over(t) => phaseBar[t] = "closed"
  /\ Present(t) /\ ~Over(t) => phaseBar[t] = "open"
Phases == DOMAIN phaseBar = Transports /\ \A t \in Transports : PhaseOf(t)

LEMMA PhaseMeans == IInv => Phases
<1> SUFFICES ASSUME IInv, NEW t \in Transports PROVE PhaseOf(t)
  BY DEF Phases, phaseBar
<1>1. Ended(t) <=> Over(t)
  BY EndedMeans DEF EndIsOver
<1>2. phaseBar[t] = CASE stage[t] = "none" -> "new"
                      [] stage[t] = "freed" -> "reclaimed"
                      [] OTHER -> IF Ended(t) THEN "closed" ELSE "open"
  BY DEF phaseBar
<1> QED BY <1>1, <1>2 DEF PhaseOf, Present

LEMMA PhaseMeansNext == IInv' => Phases'
BY PhaseMeans, PTL

\* A step that ends no transport.
LEMMA PhaseKept ==
  ASSUME Phases, Phases',
         \A t \in Transports :
           /\ stage'[t] = stage[t] \/ (Present(t) /\ Present(t)')
           /\ Over(t)' <=> Over(t)
  PROVE  phaseBar' = phaseBar
<1>1. \A t \in Transports : phaseBar'[t] = phaseBar[t]
  <2> SUFFICES ASSUME NEW t \in Transports PROVE phaseBar'[t] = phaseBar[t]
    OBVIOUS
  <2>1. PhaseOf(t) /\ PhaseOf(t)'
    BY DEF Phases
  <2> QED BY <2>1 DEF PhaseOf, Present
<1>2. phaseBar = [t \in Transports |-> phaseBar[t]] /\ phaseBar' = [t \in Transports |-> phaseBar'[t]]
  BY DEF phaseBar
<1> QED BY <1>1, <1>2

\* A step that changes the phase of one.
LEMMA PhaseChange ==
  ASSUME Phases, Phases', NEW t \in Transports,
         \A u \in Transports \ {t} : stage'[u] = stage[u] /\ (Over(u)' <=> Over(u))
  PROVE  phaseBar' = [phaseBar EXCEPT ![t] = phaseBar'[t]]
<1>1. \A u \in Transports \ {t} : phaseBar'[u] = phaseBar[u]
  <2> SUFFICES ASSUME NEW u \in Transports \ {t} PROVE phaseBar'[u] = phaseBar[u]
    OBVIOUS
  <2>1. PhaseOf(u) /\ PhaseOf(u)'
    BY DEF Phases
  <2> QED BY <2>1 DEF PhaseOf, Present
<1>2. phaseBar = [u \in Transports |-> phaseBar[u]] /\ phaseBar' = [u \in Transports |-> phaseBar'[u]]
  BY DEF phaseBar
<1> QED BY <1>1, <1>2

\* streamBar, socket by socket.
StreamOf(s) ==
  /\ sock[s].st = "new" => streamBar[s] = [st |-> "new", l |-> NoTransport]
  /\ sock[s].st = "dead" => streamBar[s] = [st |-> "gone", l |-> NoTransport]
  /\ sock[s].st \in {"waiting", "linked"} => streamBar[s] = [st |-> "attached", l |-> sock[s].t]

LEMMA StreamMeans == \A s \in Sockets : StreamOf(s)
<1> SUFFICES ASSUME NEW s \in Sockets PROVE StreamOf(s)
  OBVIOUS
<1>1. streamBar[s] = CASE sock[s].st = "new" -> [st |-> "new", l |-> NoTransport]
                       [] sock[s].st = "dead" -> [st |-> "gone", l |-> NoTransport]
                       [] OTHER -> [st |-> "attached", l |-> sock[s].t]
  BY DEF streamBar
<1> QED BY <1>1 DEF StreamOf

\* Sockets that are closed.
LEMMA StreamsGo ==
  ASSUME TypeOK, NEW t \in Transports, NEW S,
         S \subseteq {s \in Sockets : sock[s].st \in {"waiting", "linked"} /\ sock[s].t = t},
         sock' = [s \in Sockets |-> IF s \in S THEN DeadSocket ELSE sock[s]]
  PROVE  L!Detach(t)
<1>1. S \in SUBSET L!Attached(t)
  BY StreamMeans DEF StreamOf, L!Attached
<1>2. ASSUME NEW s \in Sockets PROVE streamBar'[s] = IF s \in S THEN L!GoneStream ELSE streamBar[s]
  <2>1. CASE s \in S
    BY <2>1 DEF streamBar, L!GoneStream, DeadSocket
  <2>2. CASE s \notin S
    BY <2>2 DEF streamBar
  <2> QED BY <2>1, <2>2
<1>3. streamBar' = [s \in Sockets |-> IF s \in S THEN L!GoneStream ELSE streamBar[s]]
  <2>1. streamBar' = [s \in Sockets |-> streamBar'[s]]
    BY DEF streamBar
  <2> QED BY <1>2, <2>1
<1> QED BY <1>1, <1>3 DEF L!Detach

LEMMA StreamGoes ==
  ASSUME TypeOK, NEW s \in Sockets, sock[s].st \in {"waiting", "linked"}, sock[s].t \in Transports,
         sock' = [sock EXCEPT ![s] = DeadSocket]
  PROVE  L!Detach(sock[s].t)
<1>1. sock' = [x \in Sockets |-> IF x \in {s} THEN DeadSocket ELSE sock[x]]
  BY DEF TypeOK
<1>2. {s} \subseteq {x \in Sockets : sock[x].st \in {"waiting", "linked"} /\ sock[x].t = sock[s].t}
  OBVIOUS
<1> QED BY <1>1, <1>2, StreamsGo

LEMMA StreamsStay ==
  ASSUME TypeOK, NEW t \in Transports, sock' = sock
  PROVE  L!Detach(t) /\ streamBar' = streamBar
<1>1. PICK S : S = {}
  OBVIOUS
<1>2. sock' = [s \in Sockets |-> IF s \in S THEN DeadSocket ELSE sock[s]]
  BY <1>1 DEF TypeOK
<1>3. S \subseteq {s \in Sockets : sock[s].st \in {"waiting", "linked"} /\ sock[s].t = t}
  BY <1>1
<1>4. L!Detach(t)
  BY <1>2, <1>3, StreamsGo
<1>5. streamBar' = streamBar
  BY DEF streamBar
<1> QED BY <1>4, <1>5

LEMMA StreamComes ==
  ASSUME TypeOK, NEW t \in Transports, NEW s \in Sockets, sock[s] = NewSocket,
         NEW r \in {[st |-> "waiting", t |-> t], [st |-> "linked", t |-> t], DeadSocket},
         sock' = [sock EXCEPT ![s] = r]
  PROVE  L!Attach(t)
<1>0. sock[s].st = "new" /\ StreamOf(s)
  BY StreamMeans DEF NewSocket
<1>1. streamBar[s] = L!NewStream
  BY <1>0 DEF StreamOf, L!NewStream
<1> DEFINE y == IF r = DeadSocket THEN L!GoneStream ELSE [st |-> "attached", l |-> t]
<1>2. ASSUME NEW x \in Sockets
      PROVE  streamBar'[x] = IF x = s THEN y ELSE streamBar[x]
  <2>1. sock'[x] = IF x = s THEN r ELSE sock[x]
    BY DEF TypeOK
  <2>2. CASE x = s
    BY <2>1, <2>2 DEF streamBar, DeadSocket, L!GoneStream
  <2>3. CASE x # s
    BY <2>1, <2>3 DEF streamBar
  <2> QED BY <2>2, <2>3
<1>4. y \in {[st |-> "attached", l |-> t], L!GoneStream}
  OBVIOUS
<1> HIDE DEF y
<1>3. streamBar' = [streamBar EXCEPT ![s] = y]
  <2>1. streamBar' = [x \in Sockets |-> streamBar'[x]] /\ streamBar = [x \in Sockets |-> streamBar[x]]
    BY DEF streamBar
  <2> QED BY <1>2, <2>1
<1> QED BY <1>1, <1>3, <1>4 DEF L!Attach

-----------------------------------------------------------------------------
(* When the phases change.                                                 *)

\* A connected transport is open.
LEMMA ConnectedIsOpen ==
  ASSUME IInv, NEW t \in Transports, conn[t] # "OFFLINE"
  PROVE  phaseBar[t] = "open" /\ ~Over(t)
<1>1. LifeOf(t) /\ EndOf(t) /\ GateOf(t) /\ PhaseOf(t) /\ stage[t] \in Stages
  BY PhaseMeans DEF IInv, Life, End, Gate, Phases, TypeOK
<1>2. ~Over(t)
  BY <1>1 DEF EndOf
<1>3. Present(t)
  BY <1>1, <1>2 DEF LifeOf, EndOf, GateOf, Present, Stages, KickSteps
<1> QED BY <1>1, <1>2, <1>3 DEF PhaseOf

LEMMA LinkedIsOpen ==
  ASSUME IInv, NEW s \in Sockets, sock[s].st = "linked"
  PROVE  sock[s].t \in Transports /\ online[sock[s].t] /\ phaseBar[sock[s].t] = "open" /\ ~Over(sock[s].t)
<1>1. sock[s].t \in Transports /\ online[sock[s].t]
  BY DEF IInv, Tied, TiedOf
<1>2. conn[sock[s].t] # "OFFLINE"
  BY <1>1 DEF IInv, End, EndOf
<1> QED BY <1>1, <1>2, ConnectedIsOpen

\* main takes a packet: the end of t is a SYNC(0), which is the last.
LEMMA OverTaken ==
  ASSUME IInv, NEW t \in Transports, NEW cmd, receive(t, cmd)
  PROVE  /\ phaseBar[t] = "open" /\ stage' = stage
         /\ \A u \in Transports \ {t} : Over(u)' <=> Over(u)
         /\ ~Over(t) /\ (Over(t)' <=> cmd = "SYNC0")
<1>1. /\ toMain[t] \in Seq(Packet) /\ toMain[t] # <<>> /\ Head(toMain[t]).cmd = cmd /\ EndOf(t)
      /\ UNCHANGED <<outpc, stage>> /\ toMain' = [toMain EXCEPT ![t] = Tail(@)]
      /\ stage[t] \in {"live", "removing"}
  BY DEF receive, IInv, TypeOK, End, Packet, threadVars, lifeVars
<1>2. /\ Len(toMain[t]) \in Nat \ {0} /\ DOMAIN toMain[t] = 1..Len(toMain[t])
      /\ Head(toMain[t]) = toMain[t][1] /\ Len(Tail(toMain[t])) = Len(toMain[t]) - 1
      /\ Tail(toMain[t]) \in Seq(Packet)
  BY <1>1, Taken, Shape
<1>3. Tail(toMain[t]) = <<>> <=> Len(toMain[t]) = 1
  <2>1. Tail(toMain[t]) = <<>> <=> Len(Tail(toMain[t])) = 0
    BY <1>2, Shape
  <2> QED BY <1>2, <2>1
<1>4. ~Over(t)
  BY <1>1 DEF Over
<1>5. phaseBar[t] = "open"
  <2>1. PhaseOf(t)
    BY PhaseMeans DEF Phases
  <2> QED BY <1>1, <1>4, <2>1 DEF PhaseOf, Present
<1>6. toMain'[t] = Tail(toMain[t]) /\ \A u \in Transports \ {t} : toMain'[u] = toMain[u]
  BY <1>1 DEF IInv, TypeOK
<1>7. 1 \in DOMAIN toMain[t] /\ toMain[t][1].cmd = cmd
  BY <1>1, <1>2
<1>8. toMain[t][1].cmd = "SYNC0" <=> (outpc[t] \in KickSteps /\ 1 = Len(toMain[t]))
  BY <1>1, <1>7 DEF EndOf
<1>9. Over(t)' <=> cmd = "SYNC0"
  BY <1>1, <1>3, <1>6, <1>7, <1>8 DEF Over
<1>10. \A u \in Transports \ {t} : Over(u)' <=> Over(u)
  BY <1>1, <1>6 DEF Over
<1> QED BY <1>1, <1>4, <1>5, <1>9, <1>10

LEMMA TakenKeepsPhase ==
  ASSUME IInv, IInv', NEW t \in Transports, NEW cmd, receive(t, cmd), cmd # "SYNC0"
  PROVE  phaseBar' = phaseBar
<1>1. Phases /\ Phases'
  BY PhaseMeans, PhaseMeansNext
<1>2. \A u \in Transports : stage'[u] = stage[u] /\ (Over(u)' <=> Over(u))
  BY OverTaken
<1> QED BY <1>1, <1>2, PhaseKept

\* The steps that end and open nothing.
LEMMA QuietKeepsPhase ==
  ASSUME IInv, IInv', UNCHANGED <<stage, outpc, toMain>>
  PROVE  phaseBar' = phaseBar
<1>1. Phases /\ Phases'
  BY PhaseMeans, PhaseMeansNext
<1>2. \A u \in Transports : stage'[u] = stage[u] /\ (Over(u)' <=> Over(u))
  BY DEF Over
<1> QED BY <1>1, <1>2, PhaseKept

LEMMA OutputKeepsPhase ==
  ASSUME IInv, IInv', NEW t \in Transports, Output(t)
  PROVE  phaseBar' = phaseBar
<1>1. Phases /\ Phases' /\ TypeOK /\ TypeOK'
  BY PhaseMeans, PhaseMeansNext DEF IInv
<1>2. stage' = stage
  BY DEF Output, out_sync, out_read, out_fail, out_offline, lifeVars
<1>3. /\ toMain[t] \in Seq(Packet)
      /\ \A p \in Packet : Append(toMain[t], p) # <<>>
  <2>1. toMain[t] \in Seq(Packet)
    BY <1>1 DEF TypeOK, Packet
  <2>2. ASSUME NEW p \in Packet PROVE Append(toMain[t], p) # <<>>
    BY <2>1, Appended
  <2> QED BY <2>1, <2>2
<1>4. ~Over(t) /\ ~Over(t)'
  <2>1. CASE out_sync(t) \/ out_read(t) \/ out_fail(t)
    BY <1>1, <2>1 DEF out_sync, out_read, out_fail, after_loop, Over, KickSteps, TypeOK, threadVars
  <2>2. CASE out_offline(t)
    <3>1. Sync(0, 0) \in Packet
      BY PacketTypes DEF Packet
    <3>2. toMain'[t] # <<>>
      BY <1>1, <1>3, <2>2, <3>1 DEF out_offline, TypeOK
    <3> QED BY <2>2, <3>2 DEF out_offline, Over, KickSteps
  <2> QED BY <2>1, <2>2 DEF Output
<1>5. ASSUME NEW u \in Transports, u # t PROVE Over(u)' <=> Over(u)
  <2>1. outpc'[u] = outpc[u] /\ toMain'[u] = toMain[u]
    BY <1>1, <1>5 DEF Output, out_sync, out_read, out_fail, out_offline, TypeOK, threadVars, threadOnly
  <2> QED BY <2>1 DEF Over
<1>6. \A u \in Transports : stage'[u] = stage[u] /\ (Over(u)' <=> Over(u))
  BY <1>2, <1>4, <1>5
<1> QED BY <1>1, <1>6, PhaseKept

LEMMA TeardownKeepsPhase ==
  ASSUME IInv, IInv', NEW t \in Transports, NEW th \in Threads, Teardown(th, t)
  PROVE  phaseBar' = phaseBar /\ Present(t)
<1>1. Phases /\ Phases' /\ TypeOK /\ LifeOf(t)
  BY PhaseMeans, PhaseMeansNext DEF IInv, Life
<1>2. PICK step \in {"lock", "call", "unref", "done"} : goto(th, t, step)
  BY DEF Teardown, kick_check, kick_lock, kick_call, transport_unref
<1>3. pc(th)[t] \in {"kick", "lock", "call", "unref"}
  BY DEF Teardown, kick_check, kick_lock, kick_call, transport_unref
<1>4. th = "out" \/ th = "in"
  BY DEF Threads
<1>5. Present(t)
  BY <1>1, <1>3, <1>4 DEF LifeOf, pc, Present
<1>6. toMain' = toMain
  BY DEF Teardown, kick_check, kick_lock, kick_call, transport_unref, threadOnly
<1>7. stage' = stage \/ stage' = [stage EXCEPT ![t] = "removing"]
  BY DEF Teardown, kick_check, kick_lock, kick_call, transport_unref, lifeVars
<1>8. ASSUME NEW u \in Transports
      PROVE  /\ stage'[u] = stage[u] \/ (Present(u) /\ Present(u)')
             /\ Over(u)' <=> Over(u)
  <2>1. stage'[u] = stage[u] \/ (u = t /\ stage'[u] = "removing")
    BY <1>1, <1>7 DEF TypeOK
  <2>2. stage'[u] = stage[u] \/ (Present(u) /\ Present(u)')
    BY <1>5, <2>1 DEF Present
  <2>3. outpc'[u] = outpc[u] \/ (outpc[u] \in KickSteps /\ outpc'[u] \in KickSteps)
    BY <1>1, <1>2, <1>3, <1>4 DEF goto, pc, KickSteps, TypeOK
  <2>4. Over(u)' <=> Over(u)
    BY <1>6, <2>3 DEF Over
  <2> QED BY <2>2, <2>4
<1> QED BY <1>1, <1>5, <1>8, PhaseKept

-----------------------------------------------------------------------------
(* The steps.                                                              *)

LinkStep == L!LinkNext \/ UNCHANGED L!linkVars

LEMMA LinkStutters ==
  ASSUME TypeOK, phaseBar' = phaseBar, UNCHANGED <<up, kicks, sent, wire, sock>>
  PROVE  LinkStep
<1>1. cutBar' = cutBar
  BY DEF cutBar
<1>2. streamBar' = streamBar
  BY DEF streamBar
<1> QED BY <1>1, <1>2 DEF LinkStep, L!linkVars

LEMMA LinkSends ==
  ASSUME NEW t \in Transports, NEW p \in AppPacket, send_packet(t, p), phaseBar[t] = "open",
         phaseBar' = phaseBar, UNCHANGED <<up, kicks, wire>>, L!Attach(t) \/ L!Detach(t)
  PROVE  LinkStep
<1>1. cutBar' = cutBar
  BY DEF cutBar
<1>2. sent' = [sent EXCEPT ![t] = Append(@, p)]
  BY DEF send_packet, IsSync, AppPacket
<1>3. L!Send(t, p)
  BY <1>1, <1>2 DEF L!Send
<1> QED BY <1>3 DEF LinkStep, L!LinkNext

LEMMA LinkDrops ==
  ASSUME NEW t \in Transports, phaseBar' = phaseBar, UNCHANGED <<up, kicks, wire, sent>>, L!Detach(t)
  PROVE  LinkStep
<1>1. cutBar' = cutBar
  BY DEF cutBar
<1>2. L!Drop(t)
  BY <1>1 DEF L!Drop
<1> QED BY <1>2 DEF LinkStep, L!LinkNext

LEMMA DisconnectsGo ==
  ASSUME TypeOK, NEW t \in Transports, sock' = run_transport_disconnects(t)
  PROVE  L!Detach(t)
<1>1. sock' = [s \in Sockets |-> IF s \in Linked(t) THEN DeadSocket ELSE sock[s]]
  BY DEF run_transport_disconnects
<1>2. Linked(t) \subseteq {s \in Sockets : sock[s].st \in {"waiting", "linked"} /\ sock[s].t = t}
  BY DEF Linked
<1> QED BY <1>1, <1>2, StreamsGo

LEMMA LinkPacket ==
  ASSUME IInv, IInv', Told, NEW t \in Transports, MainPacket(t)
  PROVE  LinkStep
<1> USE DEF mainVars, lifeVars, stateVars, threadVars, hostVars
<1>0. TypeOK
  BY DEF IInv
<1>r. UNCHANGED <<up, kicks, wire>>
  BY DEF MainPacket, handle_SYNC1, handle_SYNC0, handle_CNXN, handle_OPEN, refuse_OPEN,
         handle_OKAY, handle_CLSE, drop_packet, receive
<1>p. \A c \in {"CNXN", "OPEN", "OKAY", "CLSE", "WRTE"}, i \in Sockets \cup {0} :
        [cmd |-> c, id |-> i] \in AppPacket
  BY PacketTypes
<1>1. CASE handle_SYNC1(t)
  <2>1. receive(t, "SYNC1") /\ sock' = sock /\ send_packet(t, Head(toMain[t]))
    BY <1>1 DEF handle_SYNC1
  <2>2. sent' = sent
    BY <2>1 DEF receive, send_packet, IsSync
  <2>3. phaseBar' = phaseBar
    BY <2>1, TakenKeepsPhase
  <2> QED BY <1>0, <1>r, <2>1, <2>2, <2>3, LinkStutters
<1>2. CASE handle_SYNC0(t)
  <2>1. receive(t, "SYNC0") /\ send_packet(t, Head(toMain[t])) /\ sock' = run_transport_disconnects(t)
    BY <1>2 DEF handle_SYNC0, handle_offline
  <2>2. sent' = sent /\ cutBar' = cutBar
    BY <1>r, <2>1 DEF receive, send_packet, IsSync, cutBar
  <2>3. /\ phaseBar[t] = "open" /\ stage' = stage /\ Over(t)' /\ ~Over(t)
        /\ \A u \in Transports \ {t} : Over(u)' <=> Over(u)
    BY <2>1, OverTaken
  <2>4. Phases /\ Phases' /\ stage[t] \in {"live", "removing"}
    BY <2>1, PhaseMeans, PhaseMeansNext DEF receive
  <2>5. phaseBar'[t] = "closed"
    BY <2>3, <2>4 DEF Phases, PhaseOf, Present
  <2>6. phaseBar' = [phaseBar EXCEPT ![t] = phaseBar'[t]]
    BY <2>3, <2>4, PhaseChange
  <2>7. L!Detach(t)
    BY <1>0, <2>1, DisconnectsGo
  <2>8. L!Close(t)
    BY <1>r, <2>2, <2>3, <2>5, <2>6, <2>7 DEF L!Close
  <2> QED BY <2>8 DEF LinkStep, L!LinkNext
<1>3. CASE handle_CNXN(t)
  <2>1. /\ receive(t, "CNXN") /\ send_packet(t, [cmd |-> "CNXN", id |-> 0])
        /\ sock' = sock \/ sock' = run_transport_disconnects(t)
    BY <1>3 DEF handle_CNXN
  <2>2. phaseBar' = phaseBar /\ phaseBar[t] = "open"
    BY <2>1, TakenKeepsPhase, OverTaken
  <2>3. L!Detach(t)
    BY <1>0, <2>1, DisconnectsGo, StreamsStay
  <2>4. [cmd |-> "CNXN", id |-> 0] \in AppPacket
    BY <1>p
  <2> QED BY <1>r, <2>1, <2>2, <2>3, <2>4, LinkSends
<1>4. ASSUME NEW s \in Sockets, handle_OPEN(t, s) PROVE LinkStep
  <2>1. /\ receive(t, "OPEN") /\ send_packet(t, [cmd |-> "OKAY", id |-> s])
        /\ sock[s] = NewSocket /\ sock' = [sock EXCEPT ![s] = [st |-> "linked", t |-> t]]
    BY <1>4 DEF handle_OPEN
  <2>2. phaseBar' = phaseBar /\ phaseBar[t] = "open"
    BY <2>1, TakenKeepsPhase, OverTaken
  <2>3. L!Attach(t)
    BY <1>0, <2>1, StreamComes
  <2>4. [cmd |-> "OKAY", id |-> s] \in AppPacket
    BY <1>p
  <2> QED BY <1>r, <2>1, <2>2, <2>3, <2>4, LinkSends
<1>5. CASE refuse_OPEN(t)
  <2>1. receive(t, "OPEN") /\ send_packet(t, [cmd |-> "CLSE", id |-> 0]) /\ sock' = sock
    BY <1>5 DEF refuse_OPEN
  <2>2. phaseBar' = phaseBar /\ phaseBar[t] = "open"
    BY <2>1, TakenKeepsPhase, OverTaken
  <2>3. L!Detach(t)
    BY <1>0, <2>1, StreamsStay
  <2>4. [cmd |-> "CLSE", id |-> 0] \in AppPacket
    BY <1>p
  <2> QED BY <1>r, <2>1, <2>2, <2>3, <2>4, LinkSends
<1>6. CASE handle_OKAY(t)
  <2>1. PICK s \in Sockets : s = Head(toMain[t]).id
    BY <1>6 DEF handle_OKAY
  <2>2. /\ receive(t, "OKAY") /\ sent' = sent /\ sock[s].st \in {"waiting", "linked"}
        /\ sock' = [sock EXCEPT ![s] = IF @.st = "waiting"
                                        THEN [st |-> "linked", t |-> t] ELSE @]
    BY <1>6, <2>1 DEF handle_OKAY
  <2>3. sock[s].t = t
    BY <1>0, <2>1, <2>2, HeadIsAbout
  <2>4. phaseBar' = phaseBar /\ cutBar' = cutBar
    BY <1>r, <2>2, TakenKeepsPhase DEF cutBar
  <2>5. ASSUME NEW x \in Sockets PROVE streamBar'[x] = streamBar[x]
    <3>1. CASE x # s
      <4>1. sock'[x] = sock[x]
        BY <1>0, <2>2, <3>1 DEF TypeOK
      <4> QED BY <4>1 DEF streamBar
    <3>2. CASE x = s
      <4>1. sock'[x].st \in {"waiting", "linked"} /\ sock'[x].t = t
        BY <1>0, <2>2, <2>3, <3>2 DEF TypeOK
      <4> QED BY <2>2, <2>3, <3>2, <4>1 DEF streamBar
    <3> QED BY <3>1, <3>2
  <2>6. streamBar' = streamBar
    <3>1. streamBar' = [x \in Sockets |-> streamBar'[x]] /\ streamBar = [x \in Sockets |-> streamBar[x]]
      BY DEF streamBar
    <3> QED BY <2>5, <3>1
  <2> QED BY <1>r, <2>2, <2>4, <2>6 DEF LinkStep, L!linkVars
<1>7. CASE handle_CLSE(t)
  <2>1. PICK s \in Sockets : s = Head(toMain[t]).id
    BY <1>7 DEF handle_CLSE
  <2>2. /\ receive(t, "CLSE") /\ sock' = [sock EXCEPT ![s] = DeadSocket]
        /\ sock[s].st \in {"waiting", "linked"}
        /\ \/ sock[s].st = "linked" /\ send_packet(sock[s].t, [cmd |-> "CLSE", id |-> s])
           \/ sent' = sent
    BY <1>7, <2>1 DEF handle_CLSE
  <2>3. sock[s].t \in Transports
    BY <2>2 DEF IInv, Tied, TiedOf
  <2>4. phaseBar' = phaseBar
    BY <2>2, TakenKeepsPhase
  <2>5. L!Detach(sock[s].t)
    BY <1>0, <2>2, <2>3, StreamGoes
  <2>6. [cmd |-> "CLSE", id |-> s] \in AppPacket
    BY <1>p
  <2>7. sock[s].st = "linked" => phaseBar[sock[s].t] = "open"
    BY LinkedIsOpen
  <2>8. CASE sent' = sent
    BY <1>r, <2>3, <2>4, <2>5, <2>8, LinkDrops
  <2>9. CASE sock[s].st = "linked" /\ send_packet(sock[s].t, [cmd |-> "CLSE", id |-> s])
    BY <1>r, <2>3, <2>4, <2>5, <2>6, <2>7, <2>9, LinkSends
  <2> QED BY <2>2, <2>8, <2>9
<1>8. CASE drop_packet(t)
  <2>1. PICK cmd \in {"OPEN", "OKAY", "CLSE"} : receive(t, cmd) /\ UNCHANGED <<sent, sock>>
    BY <1>8 DEF drop_packet
  <2>2. phaseBar' = phaseBar
    BY <2>1, TakenKeepsPhase
  <2> QED BY <1>0, <1>r, <2>1, <2>2, LinkStutters
<1> QED BY <1>1, <1>2, <1>3, <1>4, <1>5, <1>6, <1>7, <1>8 DEF MainPacket

LEMMA LinkSocket ==
  ASSUME IInv, IInv', NEW s \in Sockets, MainSocket(s)
  PROVE  LinkStep
<1> USE DEF mainVars, lifeVars, stateVars, threadVars, hostVars
<1>0. TypeOK
  BY DEF IInv
<1>1. UNCHANGED <<up, kicks, wire, stage, outpc, toMain>>
  BY DEF MainSocket, smart_socket_connect, remote_socket_enqueue, remote_socket_close
<1>2. phaseBar' = phaseBar
  BY <1>1, QuietKeepsPhase
<1>p. \A c \in {"OPEN", "CLSE", "WRTE"} : [cmd |-> c, id |-> s] \in AppPacket
  BY PacketTypes
<1>3. ASSUME NEW t \in Transports, smart_socket_connect(t, s) PROVE LinkStep
  <2>1. /\ send_packet(t, [cmd |-> "OPEN", id |-> s]) /\ conn[t] # "OFFLINE"
        /\ sock[s] = NewSocket
        /\ \E r \in {[st |-> "waiting", t |-> t], DeadSocket} : sock' = [sock EXCEPT ![s] = r]
    BY <1>3 DEF smart_socket_connect, acquire_one_transport
  <2>2. phaseBar[t] = "open"
    BY <2>1, ConnectedIsOpen
  <2>3. L!Attach(t)
    BY <1>0, <2>1, StreamComes
  <2>4. [cmd |-> "OPEN", id |-> s] \in AppPacket
    BY <1>p
  <2> QED BY <1>1, <1>2, <2>1, <2>2, <2>3, <2>4, LinkSends
<1>4. CASE remote_socket_enqueue(s)
  <2>1. sock[s].st = "linked" /\ send_packet(sock[s].t, [cmd |-> "WRTE", id |-> s]) /\ sock' = sock
    BY <1>4 DEF remote_socket_enqueue
  <2>2. phaseBar[sock[s].t] = "open" /\ sock[s].t \in Transports
    BY <2>1, LinkedIsOpen
  <2>3. L!Detach(sock[s].t)
    BY <1>0, <2>1, <2>2, StreamsStay
  <2>4. [cmd |-> "WRTE", id |-> s] \in AppPacket
    BY <1>p
  <2> QED BY <1>1, <1>2, <2>1, <2>2, <2>3, <2>4, LinkSends
<1>5. CASE remote_socket_close(s)
  <2>1. /\ sock[s].st = "linked" /\ send_packet(sock[s].t, [cmd |-> "CLSE", id |-> s])
        /\ sock' = [sock EXCEPT ![s] = DeadSocket]
    BY <1>5 DEF remote_socket_close
  <2>2. phaseBar[sock[s].t] = "open" /\ sock[s].t \in Transports
    BY <2>1, LinkedIsOpen
  <2>3. L!Detach(sock[s].t)
    BY <1>0, <2>1, <2>2, StreamGoes
  <2>4. [cmd |-> "CLSE", id |-> s] \in AppPacket
    BY <1>p
  <2> QED BY <1>1, <1>2, <2>1, <2>2, <2>3, <2>4, LinkSends
<1> QED BY <1>3, <1>4, <1>5 DEF MainSocket

LEMMA LinkInput ==
  ASSUME IInv, IInv', Carry, NEW t \in Transports, InputSure(t) \/ in_write(t)
  PROVE  LinkStep
<1> USE DEF mainVars, lifeVars, stateVars, threadVars, hostVars
<1>0. TypeOK
  BY DEF IInv
<1>1. UNCHANGED <<up, kicks, stage, outpc, toMain>>
  BY DEF InputSure, in_sync, in_stop, in_drop, in_close_socket, in_closed, in_write
<1>2. phaseBar' = phaseBar
  BY <1>1, QuietKeepsPhase
<1>3. CASE in_sync(t) \/ in_stop(t) \/ in_drop(t) \/ in_closed(t)
  <2>1. UNCHANGED <<sent, wire, sock>>
    BY <1>3 DEF in_sync, in_stop, in_drop, in_closed
  <2> QED BY <1>0, <1>1, <1>2, <2>1, LinkStutters
<1>4. ASSUME NEW s \in Sockets, in_close_socket(t, s) PROVE LinkStep
  <2>1. inpc[t] = "closeall" /\ s \in Linked(t) \cup Waiting(t)
    BY <1>4 DEF in_close_socket, close_all_sockets
  <2>2. Over(t)
    BY <2>1 DEF IInv, End, EndOf
  <2>3. sock[s].st \in {"waiting", "linked"} /\ sock[s].t = t
    BY <2>1 DEF Linked, Waiting
  <2>4. sock[s].st # "linked"
    BY <2>2, <2>3, LinkedIsOpen
  <2>5. sent' = sent /\ wire' = wire /\ sock' = [sock EXCEPT ![s] = DeadSocket]
    BY <1>4, <2>4 DEF in_close_socket
  <2>6. L!Detach(t)
    BY <1>0, <2>3, <2>5, StreamGoes
  <2> QED BY <1>1, <1>2, <2>5, <2>6, LinkDrops
<1>5. CASE in_write(t)
  <2>1. /\ inpc[t] = "read" /\ toIn[t] # <<>> /\ NotSync(Head(toIn[t])) /\ up[t] /\ kicks[t] = 0
        /\ wire' = [wire EXCEPT ![t] = Append(@, Head(toIn[t]))] /\ UNCHANGED <<sent, sock>>
    BY <1>5 DEF in_write, in_next
  <2>2. toIn[t] \in Seq(Packet) /\ wire[t] \in Seq(AppPacket) /\ sent[t] \in Seq(AppPacket)
    BY <1>0 DEF TypeOK, Packet
  <2>3. Carried(toIn[t], wire[t], sent[t])
    BY <2>1 DEF Carry, CarriedOf
  <2>4. Len(wire[t]) < Len(sent[t]) /\ Head(toIn[t]) = sent[t][Len(wire[t]) + 1]
    BY <2>1, <2>2, <2>3, CarriedTake
  <2>5. wire' = [wire EXCEPT ![t] = Append(@, sent[t][Len(@) + 1])]
    BY <2>1, <2>4
  <2>6. t \notin cutBar /\ cutBar' = cutBar
    BY <1>1, <2>1 DEF cutBar
  <2>7. streamBar' = streamBar
    BY <2>1 DEF streamBar
  <2>8. phaseBar[t] \in {"open", "closed"}
    <3>1. LifeOf(t) /\ PhaseOf(t)
      BY PhaseMeans DEF IInv, Life, Phases
    <3>2. Present(t)
      BY <2>1, <3>1 DEF LifeOf, Present
    <3> QED BY <3>1, <3>2 DEF PhaseOf
  <2>9. L!Receive(t)
    BY <1>2, <2>1, <2>4, <2>5, <2>6, <2>7, <2>8 DEF L!Receive
  <2> QED BY <2>9 DEF LinkStep, L!LinkNext
<1> QED BY <1>3, <1>4, <1>5 DEF InputSure

\* The connection is cut.
LEMMA LinkCuts ==
  ASSUME IInv, IInv', NEW t \in Transports, phaseBar' = phaseBar, UNCHANGED <<sent, wire, sock>>,
         cutBar' = cutBar \cup {t}, Present(t)
  PROVE  LinkStep
<1>1. phaseBar[t] \in {"open", "closed"}
  BY PhaseMeans DEF Phases, PhaseOf
<1>2. streamBar' = streamBar
  BY DEF streamBar
<1>3. L!Cut(t)
  BY <1>1, <1>2 DEF L!Cut
<1> QED BY <1>3 DEF LinkStep, L!LinkNext

LEMMA LinkEnvironment ==
  ASSUME IInv, IInv', NEW t \in Transports, host_send(t) \/ link_down(t) \/ Output(t)
  PROVE  LinkStep
<1> USE DEF mainVars, lifeVars, stateVars, threadVars, hostVars, threadOnly
<1>0. TypeOK
  BY DEF IInv
<1>1. CASE Output(t)
  <2>1. phaseBar' = phaseBar
    BY <1>1, OutputKeepsPhase
  <2>2. UNCHANGED <<up, kicks, sent, wire, sock>>
    BY <1>1 DEF Output, out_sync, out_read, out_fail, out_offline
  <2> QED BY <1>0, <2>1, <2>2, LinkStutters
<1>2. CASE host_send(t)
  <2>1. UNCHANGED <<up, kicks, sent, wire, sock, stage, outpc, toMain>>
    BY <1>2 DEF host_send
  <2>2. phaseBar' = phaseBar
    BY <2>1, QuietKeepsPhase
  <2> QED BY <1>0, <2>1, <2>2, LinkStutters
<1>3. CASE link_down(t)
  <2>1. /\ UNCHANGED <<kicks, sent, wire, sock, stage, outpc, toMain>> /\ stage[t] # "none"
        /\ up' = [up EXCEPT ![t] = FALSE]
    BY <1>3 DEF link_down
  <2>2. phaseBar' = phaseBar
    BY <2>1, QuietKeepsPhase
  <2>3. cutBar' = cutBar \cup {t}
    <3>1. \A u \in Transports : up'[u] = IF u = t THEN FALSE ELSE up[u]
      BY <1>0, <2>1 DEF TypeOK
    <3> QED BY <2>1, <3>1 DEF cutBar
  <2>4. CASE stage[t] = "freed"
    <3>1. KickOf(t) /\ LifeOf(t)
      BY DEF IInv, Kick, Life
    <3>2. kicks[t] = 1
      BY <2>4, <3>1 DEF KickOf, LifeOf
    <3>3. cutBar' = cutBar
      BY <2>3, <3>2 DEF cutBar
    <3>4. streamBar' = streamBar
      BY <2>1 DEF streamBar
    <3> QED BY <2>1, <2>2, <3>3, <3>4 DEF LinkStep, L!linkVars
  <2>5. CASE stage[t] # "freed"
    <3>1. Present(t)
      BY <2>1, <2>5 DEF Present
    <3> QED BY <2>1, <2>2, <2>3, <3>1, LinkCuts
  <2> QED BY <2>4, <2>5
<1> QED BY <1>1, <1>2, <1>3

LEMMA LinkTeardown ==
  ASSUME IInv, IInv', NEW t \in Transports, NEW th \in Threads, Teardown(th, t)
  PROVE  LinkStep
<1> USE DEF lifeVars, hostVars, threadOnly
<1>0. TypeOK /\ phaseBar' = phaseBar /\ Present(t)
  BY TeardownKeepsPhase DEF IInv
<1>1. UNCHANGED <<up, sent, wire, sock>>
  BY DEF Teardown, kick_check, kick_lock, kick_call, transport_unref
<1>2. CASE kick_call(th, t)
  <2>1. kicks' = [kicks EXCEPT ![t] = kicks[t] + 1]
    BY <1>2 DEF kick_call
  <2>2. \A u \in Transports : kicks'[u] = IF u = t THEN kicks[u] + 1 ELSE kicks[u]
    BY <1>0, <2>1 DEF TypeOK
  <2>3. kicks[t] + 1 > 0
    BY <1>0 DEF TypeOK
  <2>4. cutBar' = cutBar \cup {t}
    BY <1>1, <2>2, <2>3 DEF cutBar
  <2> QED BY <1>0, <1>1, <2>4, LinkCuts
<1>3. CASE kick_check(th, t) \/ kick_lock(th, t) \/ transport_unref(th, t)
  <2>1. kicks' = kicks
    <3>1. CASE transport_unref(th, t)
      <4>1. KickOf(t) /\ pc(th)[t] = "unref"
        BY <3>1 DEF IInv, Kick, transport_unref
      <4>2. kicked[t]
        BY <4>1 DEF KickOf, pc, Threads
      <4>3. kicks' = kicks \/ kicks' = [kicks EXCEPT ![t] = kicks[t]]
        BY <3>1, <4>2 DEF transport_unref
      <4> QED BY <1>0, <4>3 DEF TypeOK
    <3> QED BY <1>3, <3>1 DEF kick_check, kick_lock
  <2> QED BY <1>0, <1>1, <2>1, LinkStutters
<1> QED BY <1>2, <1>3 DEF Teardown

LEMMA LinkRegistration ==
  ASSUME IInv, IInv', NEW t \in Transports, register_socket_transport(t) \/ MainRegistration(t)
  PROVE  LinkStep
<1> USE DEF lifeVars, hostVars, threadVars
<1>0. TypeOK /\ Phases /\ Phases' /\ LifeOf(t)
  BY PhaseMeans, PhaseMeansNext DEF IInv, Life
<1>1. UNCHANGED <<up, kicks, sent, wire>> /\ cutBar' = cutBar
  BY DEF register_socket_transport, MainRegistration, start_transport, list_transport,
         free_transport, cutBar
<1>2. CASE register_socket_transport(t)
  <2>1. /\ stage[t] = "none" /\ stage' = [stage EXCEPT ![t] = "queued"]
        /\ UNCHANGED <<outpc, toMain, sock>>
    BY <1>2 DEF register_socket_transport
  <2>2. stage'[t] = "queued" /\ \A u \in Transports \ {t} : stage'[u] = stage[u]
    BY <1>0, <2>1 DEF TypeOK
  <2>3. outpc[t] = "none"
    BY <1>0, <2>1 DEF LifeOf
  <2>4. (\A u \in Transports : Over(u)' <=> Over(u)) /\ ~Over(t)
    BY <2>1, <2>3 DEF Over, KickSteps
  <2>5. phaseBar[t] = "new" /\ phaseBar'[t] = "open"
    BY <1>0, <2>1, <2>2, <2>4 DEF Phases, PhaseOf, Present
  <2>6. phaseBar' = [phaseBar EXCEPT ![t] = phaseBar'[t]]
    BY <1>0, <2>2, <2>4, PhaseChange
  <2>7. streamBar' = streamBar
    BY <2>1 DEF streamBar
  <2>8. L!Open(t)
    BY <1>1, <2>5, <2>6, <2>7 DEF L!Open
  <2> QED BY <2>8 DEF LinkStep, L!LinkNext
<1>3. CASE start_transport(t)
  <2>1. /\ regq # <<>> /\ Head(regq) = [t |-> t, action |-> 1]
        /\ stage' = [stage EXCEPT ![t] = "live"] /\ outpc' = [outpc EXCEPT ![t] = "sync"]
        /\ UNCHANGED <<toMain, sock>>
    BY <1>3 DEF start_transport
  <2>2. 1 \in DOMAIN regq /\ regq[1] = [t |-> t, action |-> 1]
    <3>1. regq \in Seq(TMsg)
      BY <1>0 DEF TypeOK
    <3> QED BY <2>1, <3>1, Taken, Shape
  <2>3. stage[t] = "queued"
    BY <2>2 DEF IInv, Life, Queue
  <2>4. outpc[t] = "none"
    BY <1>0, <2>3 DEF LifeOf
  <2>5. ASSUME NEW u \in Transports
        PROVE  /\ stage'[u] = stage[u] \/ (Present(u) /\ Present(u)')
               /\ Over(u)' <=> Over(u)
    <3>1. CASE u = t
      <4>1. stage'[u] = "live" /\ outpc'[u] = "sync"
        BY <1>0, <2>1, <3>1 DEF TypeOK
      <4> QED BY <2>3, <2>4, <3>1, <4>1 DEF Present, Over, KickSteps
    <3>2. CASE u # t
      <4>1. stage'[u] = stage[u] /\ outpc'[u] = outpc[u] /\ toMain'[u] = toMain[u]
        BY <1>0, <2>1, <3>2 DEF TypeOK
      <4> QED BY <4>1 DEF Over
    <3> QED BY <3>1, <3>2
  <2>6. phaseBar' = phaseBar
    BY <1>0, <2>5, PhaseKept
  <2> QED BY <1>0, <1>1, <2>1, <2>6, LinkStutters
<1>4. CASE list_transport(t)
  <2>1. UNCHANGED <<stage, outpc, toMain, sock>>
    BY <1>4 DEF list_transport
  <2>2. phaseBar' = phaseBar
    BY <2>1, QuietKeepsPhase
  <2> QED BY <1>0, <1>1, <2>1, <2>2, LinkStutters
<1>5. CASE free_transport(t)
  <2>1. stage[t] = "removing" /\ kicks[t] = 1
    BY <1>5, FreedIsCut
  <2>2. /\ sock' = run_transport_disconnects(t) /\ stage' = [stage EXCEPT ![t] = "freed"]
        /\ outpc' = outpc /\ toMain' = [toMain EXCEPT ![t] = <<>>]
    BY <1>5 DEF free_transport
  <2>3. (\A s \in Sockets : sock[s].t # t) /\ toMain[t] = <<>>
    BY <2>1, ClosedIsQuiet DEF QuietWhenClosed
  <2>4. outpc[t] = "done"
    BY <1>0, <2>1 DEF LifeOf
  <2>5. Over(t)
    BY <2>3, <2>4 DEF Over, KickSteps
  <2>6. /\ stage'[t] = "freed"
        /\ \A u \in Transports \ {t} : stage'[u] = stage[u] /\ toMain'[u] = toMain[u]
    BY <1>0, <2>2 DEF TypeOK
  <2>7. \A u \in Transports \ {t} : stage'[u] = stage[u] /\ (Over(u)' <=> Over(u))
    BY <2>2, <2>6 DEF Over
  <2>8. phaseBar[t] = "closed" /\ phaseBar'[t] = "reclaimed"
    BY <1>0, <2>1, <2>5, <2>6 DEF Phases, PhaseOf, Present
  <2>9. phaseBar' = [phaseBar EXCEPT ![t] = phaseBar'[t]]
    BY <1>0, <2>7, PhaseChange
  <2>10. t \in cutBar
    BY <2>1 DEF cutBar
  <2>11. Linked(t) = {}
    BY <2>3 DEF Linked
  <2>12. sock' = sock
    BY <1>0, <2>2, <2>11 DEF run_transport_disconnects, TypeOK
  <2>13. streamBar' = streamBar
    BY <2>12 DEF streamBar
  <2>14. ASSUME NEW s \in Sockets PROVE streamBar[s] # [st |-> "attached", l |-> t]
    <3>1. StreamOf(s) /\ sock[s].t # t /\ sock[s].st \in {"new", "waiting", "linked", "dead"}
      BY <1>0, <2>3, StreamMeans DEF TypeOK
    <3> QED BY <3>1 DEF StreamOf
  <2>15. L!Attached(t) = {}
    BY <2>14 DEF L!Attached
  <2>16. L!Reclaim(t)
    BY <1>1, <2>8, <2>9, <2>10, <2>13, <2>15 DEF L!Reclaim
  <2> QED BY <2>16 DEF LinkStep, L!LinkNext
<1> QED BY <1>2, <1>3, <1>4, <1>5 DEF MainRegistration

\* Every step of the transports is a step of Link, or none.
LEMMA LinkAlways ==
  ASSUME IInv, IInv', Told, Carry, [Next]_vars
  PROVE  LinkStep
<1>1. CASE UNCHANGED vars
  <2>1. UNCHANGED <<up, kicks, sent, wire, sock, stage, outpc, toMain>>
    BY <1>1 DEF vars, lifeVars, hostVars, threadVars
  <2>2. phaseBar' = phaseBar
    BY <2>1, QuietKeepsPhase
  <2> QED BY <2>1, <2>2, LinkStutters DEF IInv
<1> QED BY <1>1, LinkRegistration, LinkPacket, LinkSocket, LinkInput, LinkEnvironment, LinkTeardown
        DEF Next

-----------------------------------------------------------------------------

LEMMA LinkStarts == Init => Told /\ Carry /\ L!LinkInit
<1> SUFFICES ASSUME Init PROVE Told /\ Carry /\ L!LinkInit
  OBVIOUS
<1>1. Told
  BY DEF Init, Told, ToldOf, AllAbout
<1>2. Carried(<<>>, <<>>, <<>>)
  <2>1. PICK f : f = [k \in 0..0 |-> 0]
    OBVIOUS
  <2>2. Len(<<>>) = 0 /\ f \in [0..0 -> 0..0] /\ f[0] = 0 /\ 1..0 = {}
    BY <2>1
  <2>3. /\ f \in [0..Len(<<>>) -> 0..Len(<<>>)] /\ f[0] = Len(<<>>) /\ f[Len(<<>>)] = Len(<<>>)
        /\ \A i \in 1..Len(<<>>) : FALSE
    BY <2>2
  <2> QED BY <2>3 DEF Carried
<1>3. Carry
  BY <1>2 DEF Init, Carry, CarriedOf
<1>4. phaseBar = [t \in Transports |-> "new"]
  BY DEF phaseBar, Init
<1>5. cutBar = {}
  BY DEF cutBar, Init
<1>6. streamBar = [s \in Sockets |-> L!NewStream]
  BY DEF streamBar, L!NewStream, Init, NewSocket
<1>7. L!LinkInit
  BY <1>4, <1>5, <1>6 DEF L!LinkInit, Init
<1> QED BY <1>1, <1>3, <1>7

\* The threads, the gate and the two socketpairs of every transport implement
\* Link: what send_packet queued reaches the host in order and without gaps
\* until the connection is cut, and nothing is sent on a closed transport.
THEOREM RefinesLink == Spec => LinkRefined
<1>1. Told /\ Carry /\ IInv /\ [Next]_vars => Told' /\ Carry'
  BY ToldStep, CarryStep DEF IInv
<1>2. Spec => [](Told /\ Carry)
  BY <1>1, LinkStarts, Invariance, PTL DEF Spec
<1>3. IInv /\ IInv' /\ Told /\ Carry /\ [Next]_vars => [L!LinkNext]_(L!linkVars)
  BY LinkAlways DEF LinkStep
<1> QED BY <1>2, <1>3, LinkStarts, Invariance, PTL DEF Spec, LinkRefined, L!LinkSpec
=============================================================================
