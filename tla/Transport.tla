----------------------------- MODULE Transport -----------------------------
(***************************************************************************)
(* The life of the transports of adbd, over a TCP connection.              *)
(*                                                                         *)
(* A transport is served by three threads.  Its output thread reads        *)
(* packets from the connection and passes them to the main thread over a   *)
(* socketpair; the main thread handles them and queues its answers on the  *)
(* same socketpair; its input thread takes them and writes them to the     *)
(* connection.  A SYNC packet makes the round output -> main -> input at   *)
(* the start (it opens the input thread's gate) and at the end (it stops   *)
(* the input thread).  Each of the two threads owns a reference; the one   *)
(* that drops the last reference closes the transport and asks the main    *)
(* thread, over the registration socket, to free it.                       *)
(*                                                                         *)
(* The main thread also keeps the local sockets.  Here a local socket is   *)
(* only what ties it to a transport: it is linked to a remote socket of    *)
(* the transport (which sits on the transport's disconnect list), or it is *)
(* a smart-socket client that waits for the host to answer its OPEN.  Once *)
(* nothing ties it to a transport it is "dead" here, even while it still   *)
(* drains its queue.  Module Sockets has the data path of the sockets.     *)
(*                                                                         *)
(* Authentication is off (auth_enabled is 0 unless adbd runs with -a).     *)
(***************************************************************************)
EXTENDS Naturals, Sequences, FiniteSets

CONSTANTS
  Transports,   \* the transports that are ever created
  Sockets,      \* the ids install_local_socket hands out, each used once
  NoTransport,  \* a null atransport pointer
  MaxHost,      \* bound: packets the hosts send, on all transports
  MaxWrites     \* bound: WRTE packets the streams send

ASSUME ConstantsAssumption ==
  /\ NoTransport \notin Transports
  /\ Sockets \subseteq Nat \ {0}
  /\ MaxHost \in Nat
  /\ MaxWrites \in Nat

VARIABLES
  regq,     \* transport_registration socket: <<[t, action]>>
  adding,   \* main is inside the registration of this transport
  tlist,    \* transport_list
  stage,    \* what became of the transport's memory
  ref,      \* t->ref_count
  kicked,   \* t->kicked
  kicks,    \* history: calls of t->kick
  conn,     \* t->connection_state, OFFLINE or not
  online,   \* t->online
  token,    \* t->sync_token
  toMain,   \* socketpair, output thread to main
  toIn,     \* socketpair, main to input thread
  outpc,    \* where the output thread is
  inpc,     \* where the input thread is
  active,   \* local variable of the input thread
  sock,     \* the local sockets, by id
  up,       \* the connection has not been lost
  inbound,  \* what the host has sent and adbd has not read
  hostn,    \* packets the hosts have sent
  writes,   \* WRTE packets the streams have sent
  wire,     \* history: packets written to the connection
  sent      \* history: packets main queued for the connection

mainVars == <<regq, adding, tlist>>
lifeVars == <<stage, ref, kicked, kicks>>
stateVars == <<conn, online, token>>
threadVars == <<outpc, inpc, active>>
hostVars == <<up, inbound, hostn>>
vars == <<mainVars, lifeVars, stateVars, threadVars, hostVars, toMain, toIn,
          sock, writes, wire, sent>>

-----------------------------------------------------------------------------
\* A_SYNC is split by its arg0; every other packet is known by its command
\* and by the local socket it is about.
Sync(arg0, arg1) == [cmd |-> IF arg0 = 0 THEN "SYNC0" ELSE "SYNC1", id |-> arg1]
SyncPacket == [cmd : {"SYNC0", "SYNC1"}, id : Nat]
AppPacket == [cmd : {"CNXN", "OPEN", "OKAY", "CLSE", "WRTE"}, id : Sockets \cup {0}]
BadPacket == [cmd |-> "BAD", id |-> 0]
IsSync(p) == p.cmd \in {"SYNC0", "SYNC1"}
NotSync(p) == ~IsSync(p)

TMsg == [t : Transports, action : {0, 1}]
Stages == {"none", "queued", "live", "removing", "freed"}
OutSteps == {"none", "sync", "read", "offline", "kick", "lock", "call", "unref", "done"}
InSteps == {"none", "read", "closeall", "kick", "lock", "call", "unref", "done"}
NewSocket == [st |-> "new", t |-> NoTransport]
DeadSocket == [st |-> "dead", t |-> NoTransport]
Linked(t) == {s \in Sockets : sock[s] = [st |-> "linked", t |-> t]}
Waiting(t) == {s \in Sockets : sock[s] = [st |-> "waiting", t |-> t]}

TypeOK ==
  /\ regq \in Seq(TMsg)
  /\ adding \in Transports \cup {NoTransport}
  /\ tlist \subseteq Transports
  /\ stage \in [Transports -> Stages]
  /\ ref \in [Transports -> 0..2]
  /\ kicked \in [Transports -> BOOLEAN]
  /\ kicks \in [Transports -> Nat]
  /\ conn \in [Transports -> {"OFFLINE", "HOST"}]
  /\ online \in [Transports -> BOOLEAN]
  /\ token \in [Transports -> Nat]
  /\ toMain \in [Transports -> Seq(SyncPacket \cup AppPacket)]
  /\ toIn \in [Transports -> Seq(SyncPacket \cup AppPacket)]
  /\ outpc \in [Transports -> OutSteps]
  /\ inpc \in [Transports -> InSteps]
  /\ active \in [Transports -> BOOLEAN]
  /\ sock \in [Sockets -> [st : {"new", "waiting", "linked", "dead"},
                           t : Transports \cup {NoTransport}]]
  /\ up \in [Transports -> BOOLEAN]
  /\ inbound \in [Transports -> Seq(AppPacket \cup {BadPacket})]
  /\ hostn \in Nat
  /\ writes \in Nat
  /\ wire \in [Transports -> Seq(AppPacket)]
  /\ sent \in [Transports -> Seq(AppPacket)]

Init ==
  /\ regq = <<>>
  /\ adding = NoTransport
  /\ tlist = {}
  /\ stage = [t \in Transports |-> "none"]
  /\ ref = [t \in Transports |-> 0]
  /\ kicked = [t \in Transports |-> FALSE]
  /\ kicks = [t \in Transports |-> 0]
  /\ conn = [t \in Transports |-> "OFFLINE"]
  /\ online = [t \in Transports |-> FALSE]
  /\ token = [t \in Transports |-> 0]
  /\ toMain = [t \in Transports |-> <<>>]
  /\ toIn = [t \in Transports |-> <<>>]
  /\ outpc = [t \in Transports |-> "none"]
  /\ inpc = [t \in Transports |-> "none"]
  /\ active = [t \in Transports |-> FALSE]
  /\ sock = [s \in Sockets |-> NewSocket]
  /\ up = [t \in Transports |-> TRUE]
  /\ inbound = [t \in Transports |-> <<>>]
  /\ hostn = 0
  /\ writes = 0
  /\ wire = [t \in Transports |-> <<>>]
  /\ sent = [t \in Transports |-> <<>>]

-----------------------------------------------------------------------------
(* The server thread and the registration socket.                          *)

\* server_socket_thread accepts a connection: init_socket_transport, then
\* register_transport.
register_socket_transport(t) ==
  /\ stage[t] = "none"
  /\ stage' = [stage EXCEPT ![t] = "queued"]
  /\ token' = [token EXCEPT ![t] = 1]
  /\ regq' = Append(regq, [t |-> t, action |-> 1])
  /\ UNCHANGED <<adding, tlist, ref, kicked, kicks, conn, online, threadVars,
                 hostVars, toMain, toIn, sock, writes, wire, sent>>

\* Mutant: one reference for two threads.
initial_refs_One == 1

initial_refs == 2

\* transport_registration_func, action 1, up to the creation of the threads.
start_transport(t) ==
  /\ adding = NoTransport
  /\ regq # <<>> /\ Head(regq) = [t |-> t, action |-> 1]
  /\ regq' = Tail(regq)
  /\ adding' = t
  /\ stage' = [stage EXCEPT ![t] = "live"]
  /\ ref' = [ref EXCEPT ![t] = initial_refs]
  /\ outpc' = [outpc EXCEPT ![t] = "sync"]
  /\ inpc' = [inpc EXCEPT ![t] = "read"]
  /\ UNCHANGED <<tlist, kicked, kicks, stateVars, active, hostVars, toMain, toIn,
                 sock, writes, wire, sent>>

\* transport_registration_func, action 1, the rest: the threads run already.
list_transport(t) ==
  /\ adding = t
  /\ adding' = NoTransport
  /\ tlist' = tlist \cup {t}
  /\ UNCHANGED <<regq, lifeVars, stateVars, threadVars, hostVars, toMain, toIn,
                 sock, writes, wire, sent>>

\* run_transport_disconnects: every remote socket of t goes, and closes the
\* local socket it is linked to without a CLSE packet.
run_transport_disconnects(t) ==
  [s \in Sockets |-> IF s \in Linked(t) THEN DeadSocket ELSE sock[s]]

\* Mutant: only the sockets with a remote peer are closed.
close_all_LinkedOnly(t) == Linked(t)

\* What close_all_sockets closes: the clients still waiting for the host too.
close_all_sockets(t) == Linked(t) \cup Waiting(t)

\* Mutant: the freed transport stays on transport_list.
unlink_Forgotten(t) == tlist' = tlist

unlink_transport(t) == tlist' = tlist \ {t}

\* transport_registration_func, action 0: what is left on the socketpair is
\* lost with it, and the memory is freed.
free_transport(t) ==
  /\ adding = NoTransport
  /\ regq # <<>> /\ Head(regq) = [t |-> t, action |-> 0]
  /\ regq' = Tail(regq)
  /\ unlink_transport(t)
  /\ sock' = run_transport_disconnects(t)
  /\ stage' = [stage EXCEPT ![t] = "freed"]
  /\ toMain' = [toMain EXCEPT ![t] = <<>>]
  /\ toIn' = [toIn EXCEPT ![t] = <<>>]
  /\ UNCHANGED <<adding, ref, kicked, kicks, stateVars, threadVars, hostVars,
                 writes, wire, sent>>

-----------------------------------------------------------------------------
(* The main thread: handle_packet and the local sockets.                   *)

\* send_packet: p goes to the input thread of t.
send_packet(t, p) ==
  /\ toIn' = [toIn EXCEPT ![t] = Append(@, p)]
  /\ sent' = IF IsSync(p) THEN sent ELSE [sent EXCEPT ![t] = Append(@, p)]

\* transport_socket_events takes one packet of command cmd from t.
receive(t, cmd) ==
  /\ adding = NoTransport
  /\ stage[t] \in {"live", "removing"}
  /\ toMain[t] # <<>> /\ Head(toMain[t]).cmd = cmd
  /\ toMain' = [toMain EXCEPT ![t] = Tail(@)]
  /\ UNCHANGED <<mainVars, lifeVars, token, threadVars, hostVars, writes, wire>>

handle_SYNC1(t) ==
  /\ receive(t, "SYNC1")
  /\ send_packet(t, Head(toMain[t]))
  /\ UNCHANGED <<conn, online, sock>>

\* Mutants: the streams stay; the connection state stays.
offline_KeepsStreams(t) ==
  /\ conn' = [conn EXCEPT ![t] = "OFFLINE"]
  /\ online' = [online EXCEPT ![t] = FALSE]
  /\ sock' = sock
offline_StaysConnected(t) ==
  /\ conn' = conn
  /\ online' = [online EXCEPT ![t] = FALSE]
  /\ sock' = run_transport_disconnects(t)

\* connection_state and handle_offline.
handle_offline(t) ==
  /\ conn' = [conn EXCEPT ![t] = "OFFLINE"]
  /\ online' = [online EXCEPT ![t] = FALSE]
  /\ sock' = run_transport_disconnects(t)

handle_SYNC0(t) ==
  /\ receive(t, "SYNC0")
  /\ handle_offline(t)
  /\ send_packet(t, Head(toMain[t]))

\* A second CNXN renegotiates: the streams of the first session go.
handle_CNXN(t) ==
  /\ receive(t, "CNXN")
  /\ sock' = IF conn[t] = "OFFLINE" THEN sock ELSE run_transport_disconnects(t)
  /\ conn' = [conn EXCEPT ![t] = "HOST"]
  /\ online' = [online EXCEPT ![t] = TRUE]
  /\ send_packet(t, [cmd |-> "CNXN", id |-> 0])

\* A_OPEN with a service that exists: a local socket linked to a remote one.
handle_OPEN(t, s) ==
  /\ receive(t, "OPEN")
  /\ online[t]
  /\ sock[s] = NewSocket
  /\ sock' = [sock EXCEPT ![s] = [st |-> "linked", t |-> t]]
  /\ send_packet(t, [cmd |-> "OKAY", id |-> s])
  /\ UNCHANGED <<conn, online>>

\* A_OPEN that service_to_fd refuses.
refuse_OPEN(t) ==
  /\ receive(t, "OPEN")
  /\ online[t]
  /\ send_packet(t, [cmd |-> "CLSE", id |-> 0])
  /\ UNCHANGED <<conn, online, sock>>

\* A_OKAY: a waiting client gets its remote socket; a linked one may read on.
handle_OKAY(t) ==
  LET s == Head(toMain[t]).id
  IN  /\ receive(t, "OKAY")
      /\ online[t]
      /\ s \in Sockets /\ sock[s].st \in {"waiting", "linked"}
      /\ sock' = [sock EXCEPT ![s] = IF @.st = "waiting"
                                      THEN [st |-> "linked", t |-> t] ELSE @]
      /\ UNCHANGED <<conn, online, toIn, sent>>

\* A_CLSE: a linked socket answers with a CLSE of its own, a waiting client
\* only tells its user that the connection is closed.
handle_CLSE(t) ==
  LET s == Head(toMain[t]).id
  IN  /\ receive(t, "CLSE")
      /\ online[t]
      /\ s \in Sockets /\ sock[s].st \in {"waiting", "linked"}
      /\ sock' = [sock EXCEPT ![s] = DeadSocket]
      /\ IF sock[s].st = "linked"
           THEN send_packet(sock[s].t, [cmd |-> "CLSE", id |-> s])
           ELSE UNCHANGED <<toIn, sent>>
      /\ UNCHANGED <<conn, online>>

\* Packets that handle_packet drops: not online, or no such socket.
drop_packet(t) ==
  \E cmd \in {"OPEN", "OKAY", "CLSE"} :
    /\ receive(t, cmd)
    /\ \/ ~online[t]
       \/ cmd # "OPEN" /\ ~ \E s \in Sockets : /\ s = Head(toMain[t]).id
                                               /\ sock[s].st \in {"waiting", "linked"}
    /\ UNCHANGED <<conn, online, toIn, sent, sock>>

\* acquire_one_transport(CS_ANY, kTransportAny): the only transport there is,
\* when it is not offline.
acquire_one_transport(t) == tlist = {t} /\ conn[t] # "OFFLINE"

\* smart_socket_enqueue: a local client asks for a service of the host, and
\* waits; or the same read finds that it has left, and its socket goes.
smart_socket_connect(t, s) ==
  /\ adding = NoTransport
  /\ sock[s] = NewSocket
  /\ acquire_one_transport(t)
  /\ \E r \in {[st |-> "waiting", t |-> t], DeadSocket} : sock' = [sock EXCEPT ![s] = r]
  /\ send_packet(t, [cmd |-> "OPEN", id |-> s])
  /\ UNCHANGED <<mainVars, lifeVars, stateVars, threadVars, hostVars, toMain, writes, wire>>

\* A linked local socket has read data from its service.
remote_socket_enqueue(s) ==
  /\ adding = NoTransport
  /\ sock[s].st = "linked"
  /\ writes < MaxWrites
  /\ writes' = writes + 1
  /\ send_packet(sock[s].t, [cmd |-> "WRTE", id |-> s])
  /\ UNCHANGED <<mainVars, lifeVars, stateVars, threadVars, hostVars, toMain, sock, wire>>

\* A linked local socket has met the end of its service.
remote_socket_close(s) ==
  /\ adding = NoTransport
  /\ sock[s].st = "linked"
  /\ sock' = [sock EXCEPT ![s] = DeadSocket]
  /\ send_packet(sock[s].t, [cmd |-> "CLSE", id |-> s])
  /\ UNCHANGED <<mainVars, lifeVars, stateVars, threadVars, hostVars, toMain, writes, wire>>

-----------------------------------------------------------------------------
(* The output thread.                                                      *)

threadOnly == <<mainVars, stateVars, hostVars, toMain, toIn, sock, writes, wire, sent>>

\* Mutant: SYNC(1, sync_token++).
first_packet_Stale(t) == Sync(1, token[t])

first_packet(t) == Sync(1, token[t] + 1)

\* The thread starts with SYNC(1, ++sync_token).
out_sync(t) ==
  /\ outpc[t] = "sync"
  /\ token' = [token EXCEPT ![t] = @ + 1]
  /\ toMain' = [toMain EXCEPT ![t] = Append(@, first_packet(t))]
  /\ outpc' = [outpc EXCEPT ![t] = "read"]
  /\ UNCHANGED <<mainVars, lifeVars, conn, online, inpc, active, hostVars, toIn, sock,
                 writes, wire, sent>>

\* read_from_remote succeeds.
out_read(t) ==
  /\ outpc[t] = "read"
  /\ kicks[t] = 0
  /\ inbound[t] # <<>> /\ Head(inbound[t]) # BadPacket
  /\ inbound' = [inbound EXCEPT ![t] = Tail(@)]
  /\ toMain' = [toMain EXCEPT ![t] = Append(@, Head(inbound[t]))]
  /\ UNCHANGED <<mainVars, lifeVars, stateVars, threadVars, up, hostn, toIn, sock,
                 writes, wire, sent>>

\* Mutant: the loop is left without SYNC(0).
after_loop_NoSync == "kick"

read_fails(t) == ~up[t] \/ kicks[t] > 0 \/ (inbound[t] # <<>> /\ Head(inbound[t]) = BadPacket)
after_loop == "offline"

\* read_from_remote fails: the connection is lost or shut down, or the packet
\* does not pass check_header or check_data.
out_fail(t) ==
  /\ outpc[t] = "read"
  /\ read_fails(t)
  /\ outpc' = [outpc EXCEPT ![t] = after_loop]
  /\ UNCHANGED <<threadOnly, lifeVars, inpc, active>>

\* The thread ends with SYNC(0, 0).
out_offline(t) ==
  /\ outpc[t] = "offline"
  /\ toMain' = [toMain EXCEPT ![t] = Append(@, Sync(0, 0))]
  /\ outpc' = [outpc EXCEPT ![t] = "kick"]
  /\ UNCHANGED <<mainVars, lifeVars, stateVars, inpc, active, hostVars, toIn, sock,
                 writes, wire, sent>>

-----------------------------------------------------------------------------
(* The input thread.                                                       *)

in_next(t) == inpc[t] = "read" /\ toIn[t] # <<>>

\* SYNC(1, token) opens the gate.
in_sync(t) ==
  /\ in_next(t) /\ Head(toIn[t]).cmd = "SYNC1"
  /\ active' = [active EXCEPT ![t] = @ \/ Head(toIn[t]).id = token[t]]
  /\ toIn' = [toIn EXCEPT ![t] = Tail(@)]
  /\ UNCHANGED <<mainVars, lifeVars, stateVars, outpc, inpc, hostVars, toMain, sock,
                 writes, wire, sent>>

\* SYNC(0) ends the loop.
in_stop(t) ==
  /\ in_next(t) /\ Head(toIn[t]).cmd = "SYNC0"
  /\ inpc' = [inpc EXCEPT ![t] = "closeall"]
  /\ toIn' = [toIn EXCEPT ![t] = Tail(@)]
  /\ UNCHANGED <<mainVars, lifeVars, stateVars, outpc, active, hostVars, toMain, sock,
                 writes, wire, sent>>

\* write_to_remote reaches the connection.
in_write(t) ==
  /\ in_next(t) /\ NotSync(Head(toIn[t]))
  /\ active[t] /\ up[t] /\ kicks[t] = 0
  /\ wire' = [wire EXCEPT ![t] = Append(@, Head(toIn[t]))]
  /\ toIn' = [toIn EXCEPT ![t] = Tail(@)]
  /\ UNCHANGED <<mainVars, lifeVars, stateVars, threadVars, hostVars, toMain, sock,
                 writes, sent>>

\* Mutant: a write that would block is taken for done.
not_written_Any(t) == TRUE

not_written(t) == ~active[t] \/ ~up[t] \/ kicks[t] > 0

\* The packet is dropped: the gate is closed, or write_to_remote fails, which
\* the thread does not look at.
in_drop(t) ==
  /\ in_next(t) /\ NotSync(Head(toIn[t]))
  /\ not_written(t)
  /\ toIn' = [toIn EXCEPT ![t] = Tail(@)]
  /\ UNCHANGED <<mainVars, lifeVars, stateVars, threadVars, hostVars, toMain, sock,
                 writes, wire, sent>>

\* close_all_sockets, socket by socket: a linked one would send a CLSE.
in_close_socket(t, s) ==
  /\ inpc[t] = "closeall"
  /\ s \in close_all_sockets(t)
  /\ sock' = [sock EXCEPT ![s] = DeadSocket]
  /\ IF sock[s].st = "linked"
       THEN send_packet(t, [cmd |-> "CLSE", id |-> s])
       ELSE UNCHANGED <<toIn, sent>>
  /\ UNCHANGED <<mainVars, lifeVars, stateVars, threadVars, hostVars, toMain, writes, wire>>

in_closed(t) ==
  /\ inpc[t] = "closeall"
  /\ close_all_sockets(t) = {}
  /\ inpc' = [inpc EXCEPT ![t] = "kick"]
  /\ UNCHANGED <<mainVars, lifeVars, stateVars, outpc, active, hostVars, toMain, toIn,
                 sock, writes, wire, sent>>

-----------------------------------------------------------------------------
(* kick_transport and transport_unref, run by both threads.  A thread is   *)
(* named by th and its program counter by pc(th)[t].                       *)

Threads == {"out", "in"}
pc(th) == IF th = "out" THEN outpc ELSE inpc

goto(th, t, step) ==
  /\ outpc' = IF th = "out" THEN [outpc EXCEPT ![t] = step] ELSE outpc
  /\ inpc' = IF th = "in" THEN [inpc EXCEPT ![t] = step] ELSE inpc
  /\ UNCHANGED active

\* if(t&&!t->kicked): read without the lock.
kick_check(th, t) ==
  /\ pc(th)[t] = "kick"
  /\ goto(th, t, IF kicked[t] THEN "unref" ELSE "lock")
  /\ UNCHANGED <<threadOnly, lifeVars>>

\* Mutant: t->kicked is not read again under the lock.
first_to_kick_Assumed(t) == TRUE

first_to_kick(t) == ~kicked[t]

\* Test and set under transport_lock.
kick_lock(th, t) ==
  /\ pc(th)[t] = "lock"
  /\ kicked' = [kicked EXCEPT ![t] = TRUE]
  /\ goto(th, t, IF first_to_kick(t) THEN "call" ELSE "unref")
  /\ UNCHANGED <<threadOnly, stage, ref, kicks>>

\* t->kick: remote_kick shuts the connection down and closes it.
kick_call(th, t) ==
  /\ pc(th)[t] = "call"
  /\ kicks' = [kicks EXCEPT ![t] = @ + 1]
  /\ goto(th, t, "unref")
  /\ UNCHANGED <<threadOnly, stage, ref, kicked>>

\* transport_unref holds transport_lock all along, t->kick, t->close and
\* remove_transport included.
transport_unref(th, t) ==
  /\ pc(th)[t] = "unref"
  /\ ref' = [ref EXCEPT ![t] = @ - 1]
  /\ goto(th, t, "done")
  /\ IF ref[t] = 1
       THEN /\ kicked' = [kicked EXCEPT ![t] = TRUE]
            /\ kicks' = [kicks EXCEPT ![t] = IF kicked[t] THEN @ ELSE @ + 1]
            /\ stage' = [stage EXCEPT ![t] = "removing"]
            /\ regq' = Append(regq, [t |-> t, action |-> 0])
       ELSE UNCHANGED <<kicked, kicks, stage, regq>>
  /\ UNCHANGED <<adding, tlist, stateVars, hostVars, toMain, toIn, sock, writes, wire, sent>>

-----------------------------------------------------------------------------
(* The host, outside adbd.  It never sends SYNC, speaks of a local socket   *)
(* only after a packet told it the id, and may send a damaged packet.       *)

host_knows(t) == {wire[t][i].id : i \in 1..Len(wire[t])} \cap Sockets

host_packet(t) ==
  [cmd : {"CNXN", "OPEN"}, id : {0}] \cup {BadPacket}
    \cup [cmd : {"OKAY", "CLSE"}, id : host_knows(t)]

host_send(t) ==
  /\ stage[t] # "none" /\ up[t] /\ kicks[t] = 0
  /\ hostn < MaxHost
  /\ hostn' = hostn + 1
  /\ \E p \in host_packet(t) : inbound' = [inbound EXCEPT ![t] = Append(@, p)]
  /\ UNCHANGED <<mainVars, lifeVars, stateVars, threadVars, up, toMain, toIn, sock,
                 writes, wire, sent>>

link_down(t) ==
  /\ stage[t] # "none" /\ up[t]
  /\ up' = [up EXCEPT ![t] = FALSE]
  /\ UNCHANGED <<mainVars, lifeVars, stateVars, threadVars, inbound, hostn, toMain, toIn,
                 sock, writes, wire, sent>>

-----------------------------------------------------------------------------
MainPacket(t) ==
  \/ handle_SYNC1(t) \/ handle_SYNC0(t) \/ handle_CNXN(t)
  \/ (\E s \in Sockets : handle_OPEN(t, s)) \/ refuse_OPEN(t)
  \/ handle_OKAY(t) \/ handle_CLSE(t) \/ drop_packet(t)

MainRegistration(t) == start_transport(t) \/ list_transport(t) \/ free_transport(t)

MainSocket(s) ==
  \/ \E t \in Transports : smart_socket_connect(t, s)
  \/ remote_socket_enqueue(s)
  \/ remote_socket_close(s)

Output(t) == out_sync(t) \/ out_read(t) \/ out_fail(t) \/ out_offline(t)
InputSure(t) ==
  \/ in_sync(t) \/ in_stop(t) \/ in_drop(t)
  \/ (\E s \in Sockets : in_close_socket(t, s)) \/ in_closed(t)
Teardown(th, t) ==
  kick_check(th, t) \/ kick_lock(th, t) \/ kick_call(th, t) \/ transport_unref(th, t)

Next ==
  \/ \E t \in Transports :
       \/ register_socket_transport(t)
       \/ MainRegistration(t)
       \/ MainPacket(t)
       \/ Output(t)
       \/ InputSure(t)
       \/ in_write(t)
       \/ \E th \in Threads : Teardown(th, t)
       \/ host_send(t)
       \/ link_down(t)
  \/ \E s \in Sockets : MainSocket(s)

Spec == Init /\ [][Next]_vars

\* The event loop is level triggered and serves every ready descriptor, the
\* threads are scheduled, and a write on a connection that is lost or shut
\* down returns.  A write on a live connection may block for ever, the host
\* may stay silent, and the streams may be idle.
Fairness ==
  \A t \in Transports :
    /\ WF_vars(MainRegistration(t))
    /\ WF_vars(MainPacket(t))
    /\ WF_vars(Output(t))
    /\ WF_vars(InputSure(t))
    /\ \A th \in Threads : WF_vars(Teardown(th, t))

FairSpec == Spec /\ Fairness

-----------------------------------------------------------------------------
(* Properties.                                                             *)

Running(t) == {th \in Threads : pc(th)[t] \notin {"none", "done"}}
Messages(t, action) == {i \in DOMAIN regq : regq[i] = [t |-> t, action |-> action]}

\* main has handled the SYNC(0) that ends t.
Ended(t) ==
  /\ outpc[t] \in {"kick", "lock", "call", "unref", "done"}
  /\ \A i \in DOMAIN toMain[t] : toMain[t][i].cmd # "SYNC0"

\* A transport is freed (transport_registration_func, action 0) only when both
\* its threads are done, and nothing main keeps points to it any more: not
\* transport_list, not the registration socket, not a local or remote socket.
NoUseAfterFree ==
  \A t \in Transports : stage[t] = "freed" =>
    /\ Running(t) = {}
    /\ t \notin tlist /\ adding # t
    /\ Messages(t, 0) = {} /\ Messages(t, 1) = {}
    /\ \A s \in Sockets : sock[s].t # t

\* ref_count counts the threads that still run, so that the last of them
\* queues the removal message, and no message is ever queued twice: a second
\* removal would free the memory again.
RefCounted ==
  /\ \A t \in Transports :
       /\ ref[t] = Cardinality(Running(t))
       /\ Messages(t, 0) # {} <=> stage[t] = "removing"
  /\ \A i, j \in DOMAIN regq : regq[i] = regq[j] => i = j

\* The connection is shut down once, whichever thread comes first, and always
\* before the transport is closed: remote_kick twice would close another
\* descriptor, and remote_kick never would leak this one.
KickedOnce ==
  \A t \in Transports :
    /\ kicks[t] <= 1
    /\ stage[t] \in {"removing", "freed"} => kicks[t] = 1

\* When the last thread closes t->fd main has nothing more to say on t:
\* send_packet would fail with EPIPE and end the daemon.
QuietWhenClosed ==
  \A t \in Transports : stage[t] \in {"removing", "freed"} =>
    /\ toMain[t] = <<>>
    /\ conn[t] = "OFFLINE" /\ ~online[t]
    /\ \A s \in Sockets : sock[s].t # t

\* The input thread's gate never drops a packet: when main sends anything but
\* a SYNC, the SYNC with the current token is ahead of it or was seen.
GateOpens ==
  \A t \in Transports : \A i \in DOMAIN toIn[t] :
    NotSync(toIn[t][i]) =>
      \/ active[t]
      \/ \E j \in 1..(i-1) : toIn[t][j] = Sync(1, token[t])

\* A stream never outlives the session: remote sockets exist only on a
\* transport that is online.
StreamsNeedSession ==
  \A s \in Sockets : sock[s].st = "linked" => online[sock[s].t]

\* Nothing is sent on t after its end was handled, although other transports
\* and the sockets' own events go on.
NothingAfterEnd ==
  [][\A t \in Transports : Ended(t) => sent'[t] = sent[t] /\ online'[t] = online[t]]_vars

\* A lost connection, or a damaged packet, leads to a freed transport: no
\* thread waits for ever.
LostIsFreed ==
  \A t \in Transports :
    /\ (stage[t] # "none" /\ ~up[t]) ~> stage[t] = "freed"
    /\ (outpc[t] = "read" /\ inbound[t] # <<>> /\ Head(inbound[t]) = BadPacket)
         ~> stage[t] = "freed"

\* Refinement of Link.
phaseBar ==
  [t \in Transports |->
    CASE stage[t] = "none" -> "new"
      [] stage[t] = "freed" -> "reclaimed"
      [] OTHER -> IF Ended(t) THEN "closed" ELSE "open"]
cutBar == {t \in Transports : ~up[t] \/ kicks[t] > 0}
streamBar ==
  [s \in Sockets |->
    CASE sock[s].st = "new" -> [st |-> "new", l |-> NoTransport]
      [] sock[s].st = "dead" -> [st |-> "gone", l |-> NoTransport]
      [] OTHER -> [st |-> "attached", l |-> sock[s].t]]

L == INSTANCE Link WITH
       Links <- Transports, Streams <- Sockets, Packets <- AppPacket, NoLink <- NoTransport,
       phase <- phaseBar, cut <- cutBar, sent <- sent, received <- wire, stream <- streamBar

\* The threads, the gate and the two socketpairs deliver to the host what main
\* sent: in order, without gaps, and only while the transport is not closed.
LinkRefined == L!LinkSpec
=============================================================================
