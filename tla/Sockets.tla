------------------------------ MODULE Sockets ------------------------------
(***************************************************************************)
(* The streams of adbd: sockets.c and handle_packet over one transport.    *)
(*                                                                         *)
(* A local socket stands between a descriptor (a service that the host     *)
(* opened, or a program of the device that connected to the smart-socket   *)
(* port and asked for a service of the host) and a remote socket, which    *)
(* turns data into WRTE packets and readiness into OKAY packets.  The main *)
(* thread does everything: it polls, then calls the functions of the ready *)
(* descriptors one by one; the transport delivers one packet per call.     *)
(*                                                                         *)
(* Around it: the programs behind the descriptors, and a host that follows *)
(* the protocol (it writes only when it holds an OKAY, and acknowledges    *)
(* what it was sent).  Packets travel in order (module Link).              *)
(*                                                                         *)
(* Bytes of a stream are numbered 1, 2, ... in each direction.             *)
(***************************************************************************)
EXTENDS Naturals, Sequences, FiniteSets, SequencesExt, FiniteSetsExt

CONSTANTS
  MaxId,       \* bound: local sockets that are ever created
  Hids,        \* the host's stream ids, each used once
  None,        \* a null pointer
  MaxPayload,  \* MAX_PAYLOAD, in bytes
  FdCap,       \* bytes a descriptor takes before it would block
  MaxBytes,    \* bound: bytes sent in each direction, on all streams
  MaxClients,  \* bound: connections to the smart-socket port
  MaxCnxn      \* bound: CNXN packets of the host

ASSUME SocketsAssumption ==
  /\ MaxId \in Nat /\ MaxPayload \in Nat \ {0} /\ FdCap \in Nat \ {0}
  /\ MaxBytes \in Nat /\ MaxClients \in Nat /\ MaxCnxn \in Nat
  /\ None \notin Hids /\ 0 \notin Hids

Ids == 1..MaxId
Trans == 0          \* the transport's fdevent, among those of the sockets
R == "R"            \* FDE_READ
W == "W"            \* FDE_WRITE

VARIABLES
  sock,     \* the local sockets
  nextid,   \* local_socket_next_id
  online,   \* t->online; without authentication also "not CS_OFFLINE"
  batch,    \* events pending for each fdevent
  d2h,      \* packets on their way to the host
  h2d,      \* packets on their way to adbd
  prog,     \* the program at the other end of each descriptor
  host,     \* the host's view of each stream
  session,  \* the host's view of the connection
  cnxns,    \* CNXN packets the host has sent
  cause     \* history: why a local socket was first closed

vars == <<sock, nextid, online, batch, d2h, h2d, prog, host, session, cnxns, cause>>

-----------------------------------------------------------------------------
(* Types.                                                                  *)

Pkt(cmd, arg0, arg1, data) == [cmd |-> cmd, arg0 |-> arg0, arg1 |-> arg1, data |-> data]
Cmds == {"CNXN", "OPEN", "OKAY", "CLSE", "WRTE", "SYNC0"}
Packets == [cmd : Cmds, arg0 : Ids \cup Hids \cup {0}, arg1 : Ids \cup Hids \cup {0},
            data : Seq(Nat)]

\* st: "smart": the peer is a smart socket; "waiting": OPEN was sent to the
\* host; "open": the peer is a remote socket; "closing": on the closing list.
Unused == [st |-> "none", peer |-> None, queue |-> <<>>, mask |-> {}]
Gone == [Unused EXCEPT !.st = "gone"]
\* out: written for adbd and not yet read; inb: all that adbd wrote, of which
\* unread bytes are still in the descriptor's buffer; end: "half" is shut down
\* for writing; req: parts of a smart-socket request; told: status strings.
Idle == [out |-> <<>>, made |-> 0, inb |-> <<>>, unread |-> 0, end |-> "open",
         req |-> <<>>, told |-> <<>>, client |-> FALSE]
Silent == [st |-> "none", id |-> 0, ready |-> FALSE, owes |-> FALSE, sent |-> 0, got |-> <<>>]

LocalSockets ==
  [st : {"none", "smart", "waiting", "open", "closing", "gone"}, peer : Hids \cup {None},
   queue : Seq(Seq(Nat)), mask : SUBSET {R, W}]
Programs ==
  [out : Seq(Nat), made : Nat, inb : Seq(Nat), unread : 0..FdCap,
   end : {"open", "half", "closed"}, req : Seq({"PART", "REQ", "BAD"}),
   told : Seq({"OKAY", "FAIL"}), client : BOOLEAN]
HostStreams ==
  [st : {"none", "opening", "open", "ended", "closed"}, id : Ids \cup {0},
   ready : BOOLEAN, owes : BOOLEAN, sent : Nat, got : Seq(Nat)]

TypeOK ==
  /\ sock \in [Ids -> LocalSockets]
  /\ prog \in [Ids -> Programs]
  /\ host \in [Hids -> HostStreams]
  /\ nextid \in 1..(MaxId + 1)
  /\ online \in BOOLEAN
  /\ batch \in [Ids \cup {Trans} -> SUBSET {R, W}]
  /\ d2h \in Seq(Packets) /\ h2d \in Seq(Packets)
  /\ session \in {"off", "wait", "on", "lost"}
  /\ cnxns \in 0..MaxCnxn
  /\ cause \in [Ids -> {"none", "eof", "error", "request", "host", "session"}]

Init ==
  /\ sock = [i \in Ids |-> Unused]
  /\ nextid = 1
  /\ online = FALSE
  /\ batch = [i \in Ids \cup {Trans} |-> {}]
  /\ d2h = <<>>
  /\ h2d = <<>>
  /\ prog = [i \in Ids |-> Idle]
  /\ host = [h \in Hids |-> Silent]
  /\ session = "off"
  /\ cnxns = 0
  /\ cause = [i \in Ids |-> "none"]

envVars == <<prog, host, session, cnxns>>
hostVars == <<host, session, cnxns>>

-----------------------------------------------------------------------------
(* What the functions of sockets.c do to one local socket s (a record),    *)
(* with the packets they send.                                             *)

IsOpen(i) == sock[i].st \in {"smart", "waiting", "open", "closing"}
Known(i) == sock[i].st \in {"waiting", "open"}   \* the host was told the id

\* Mutant: the queue is dropped.
close_DropsQueue(s) == Gone

\* local_socket_close_locked, after the peer: destroy, or drain the queue first.
local_socket_close(s) ==
  IF s.st = "closing" \/ s.queue = <<>> THEN Gone
  ELSE [s EXCEPT !.st = "closing", !.peer = None, !.mask = @ \ {R}]

\* create_local_socket for a service, or for a client of the smart socket,
\* followed by s->ready.
create_local_socket(kind, peer) == [Unused EXCEPT !.st = kind, !.peer = peer, !.mask = {R}]

\* The packets of adb.c and of connect_to_remote.
send_ready(i, h) == <<Pkt("OKAY", i, h, <<>>)>>
send_close(h) == <<Pkt("CLSE", 0, h, <<>>)>>
send_connect == <<Pkt("CNXN", 0, 0, <<>>)>>
connect_to_remote(i) == <<Pkt("OPEN", i, 0, <<>>)>>

\* Mutant: the remote socket goes without a packet.
remote_close_Silent(s) == <<>>

\* remote_socket_close, called with its peer already cleared.
remote_socket_close(s) == IF s.st = "open" THEN <<Pkt("CLSE", 0, s.peer, <<>>)>> ELSE <<>>

\* local_socket_close_notify, of a client whose request is not yet answered.
close_told(s) == IF s.st = "waiting" THEN <<"FAIL">> ELSE <<>>

\* Mutants: no event is asked for; the socket keeps reading; a queue that
\* holds a packet is not watched.
ready_Forgotten(s) == s
keeps_reading(s) == s
forgets_to_watch(s) == s

\* local_socket_ready, and remote_socket_ready for local socket i.
local_socket_ready(s) == [s EXCEPT !.mask = @ \cup {R}]
remote_socket_ready(i, h) == <<Pkt("OKAY", i, h, <<>>)>>
stop_reading(s) == [s EXCEPT !.mask = @ \ {R}]
watch_write(s) == [s EXCEPT !.mask = @ \cup {W}]

room(i) == FdCap - prog[i].unread
Smaller(m, n) == IF m <= n THEN m ELSE n
Broken(i) == prog[i].end = "closed"     \* write fails with EPIPE

\* Mutant: p->ptr stays.
rest_Whole(data, n) == data

\* How much of data the descriptor takes before it would block; the rest.
adb_write(i, data) == Smaller(Len(data), room(i))
rest(data, n) == SubSeq(data, n + 1, Len(data))

\* The result of a function: the socket, what was sent, how many bytes were
\* written to the descriptor, how many were read, what a client was told, why
\* the socket was closed if it was, and whether the function returned early.
Nothing(s) == [s |-> s, pkts |-> <<>>, wrote |-> <<>>, took |-> 0, told |-> <<>>,
               why |-> "none", ret |-> FALSE]
Closed(s, why) == [Nothing(s) EXCEPT !.s = local_socket_close(s), !.pkts = remote_socket_close(s),
                                     !.told = close_told(s), !.why = why, !.ret = TRUE]

\* local_socket_event_func, FDE_WRITE: write out the queue.
event_write(i) ==
  LET s == sock[i]
      all == FlattenSeq(s.queue)
      n == adb_write(i, all)
  IN  CASE s.queue # <<>> /\ Broken(i) -> Closed(s, "error")
        [] ~Broken(i) /\ n < Len(all) ->
             [Nothing(s) EXCEPT !.s.queue = <<rest(all, n)>>,
                                !.wrote = SubSeq(all, 1, n), !.ret = TRUE]
        [] OTHER ->
             IF s.st = "closing"
               THEN [Nothing(s) EXCEPT !.s = Gone, !.wrote = all, !.ret = TRUE]
               ELSE [Nothing(s) EXCEPT !.s.queue = <<>>, !.s.mask = @ \ {W}, !.wrote = all,
                                       !.pkts = remote_socket_ready(i, s.peer)]

\* smart_socket_enqueue, on all that was read of the request: a bad request
\* closes the client, an incomplete one is kept, a good one becomes an OPEN.
smart_socket_enqueue(i, s) ==
  LET req == ToSet(prog[i].req)
      n == Len(prog[i].req)
  IN  CASE "BAD" \in req -> [Closed(s, "request") EXCEPT !.took = n]
        [] "BAD" \notin req /\ "REQ" \in req ->
             IF ~online
               THEN [Closed(s, "request") EXCEPT !.took = n, !.told = <<"FAIL">>]
               ELSE [Nothing(s) EXCEPT !.s = stop_reading([s EXCEPT !.st = "waiting"]),
                                       !.took = n, !.pkts = connect_to_remote(i)]
        [] OTHER -> [Nothing(s) EXCEPT !.took = n]

\* Mutant: the end of file is believed before all is read.
at_eof_Early(i, n) == prog[i].end # "open"

\* The read loop ends at MAX_PAYLOAD bytes, or sees the end of file after all
\* bytes, or would block.
at_eof(i, n) == prog[i].end # "open" /\ n = Len(prog[i].out) /\ n < MaxPayload

\* local_socket_event_func, FDE_READ: read up to MAX_PAYLOAD bytes and pass
\* them on, or drop them when the peer is gone.
event_read(i, s) ==
  LET n == Smaller(Len(prog[i].out), MaxPayload)
      r == CASE s.st = "smart" -> smart_socket_enqueue(i, s)
             [] s.st = "open" /\ n > 0 ->
                  [Nothing(s) EXCEPT !.s = stop_reading(s), !.took = n,
                                     !.pkts = <<Pkt("WRTE", i, s.peer, SubSeq(prog[i].out, 1, n))>>]
             [] OTHER -> [Nothing(s) EXCEPT !.took = n]
  IN  IF at_eof(i, n) /\ ~r.ret
        THEN [Closed(r.s, "eof") EXCEPT !.pkts = r.pkts \o @, !.took = r.took]
        ELSE r

\* Effect of a result on the program behind descriptor i.
Served(i, r) ==
  LET p == prog[i] IN
  [p EXCEPT !.inb = @ \o r.wrote, !.unread = @ + Len(r.wrote),
            !.out = IF sock[i].st = "smart" THEN @ ELSE SubSeq(@, r.took + 1, Len(@)),
            !.req = IF sock[i].st = "smart" THEN SubSeq(@, r.took + 1, Len(@)) ELSE @,
            !.told = @ \o r.told]

Because(i, why) == IF cause[i] = "none" THEN [cause EXCEPT ![i] = why] ELSE cause

\* fdevent_set on a pending fdevent: the events it wants are taken off, the
\* ones it no longer wants are kept; fdevent_remove takes all off.
Pending(i, s) ==
  IF s.st = "gone" THEN {} ELSE IF s.mask = sock[i].mask THEN batch[i] ELSE batch[i] \ s.mask

-----------------------------------------------------------------------------
(* The event loop.                                                         *)

Ready(i) ==
  IF i = Trans THEN IF h2d # <<>> THEN {R} ELSE {}
  ELSE sock[i].mask \cap
         ((IF prog[i].out # <<>> \/ prog[i].req # <<>> \/ prog[i].end # "open" THEN {R} ELSE {})
          \cup (IF room(i) > 0 \/ Broken(i) THEN {W} ELSE {}))

\* epoll_wait, once the last batch is worked off.
fdevent_process ==
  /\ \A i \in DOMAIN batch : batch[i] = {}
  /\ \E i \in DOMAIN batch : Ready(i) # {}
  /\ batch' = [i \in DOMAIN batch |-> Ready(i)]
  /\ UNCHANGED <<sock, nextid, online, d2h, h2d, envVars, cause>>

local_socket_event_func(i) ==
  LET ev == batch[i]
      w == IF W \in ev THEN event_write(i) ELSE Nothing(sock[i])
      r == IF R \in ev /\ ~w.ret THEN event_read(i, w.s) ELSE Nothing(w.s)
  IN  /\ ev # {}
      /\ sock' = [sock EXCEPT ![i] = r.s]
      /\ d2h' = d2h \o w.pkts \o r.pkts
      /\ prog' = [prog EXCEPT ![i] = Served(i, [r EXCEPT !.wrote = w.wrote,
                                                         !.told = w.told \o @])]
      /\ cause' = IF w.why # "none" THEN Because(i, w.why)
                  ELSE IF r.why # "none" THEN Because(i, r.why) ELSE cause
      /\ batch' = [batch EXCEPT ![i] = {}]
      /\ UNCHANGED <<nextid, online, h2d, hostVars>>

\* ss_listener_event_func: accept, create_local_socket, connect_to_smartsocket.
ss_listener_event_func ==
  /\ nextid <= MaxId
  /\ Cardinality({i \in Ids : prog[i].client}) < MaxClients
  /\ prog' = [prog EXCEPT ![nextid].client = TRUE]
  /\ sock' = [sock EXCEPT ![nextid] = create_local_socket("smart", None)]
  /\ nextid' = nextid + 1
  /\ UNCHANGED <<online, batch, d2h, h2d, hostVars, cause>>

-----------------------------------------------------------------------------
(* handle_packet, one packet per call of transport_socket_events.          *)

\* Mutant: the packet goes to whatever socket is found first.
find_First(id, i) == TRUE

\* find_local_socket.
find_local_socket(id, i) == i = id

receive(cmd) ==
  /\ R \in batch[Trans]
  /\ h2d # <<>> /\ Head(h2d).cmd = cmd
  /\ h2d' = Tail(h2d)
  /\ UNCHANGED hostVars

\* Packets for no socket of the list, or while not online.
drop_packet ==
  /\ \E cmd \in {"OPEN", "OKAY", "CLSE", "WRTE"} : receive(cmd)
  /\ \/ ~online
     \/ Head(h2d).cmd # "OPEN" /\ ~ \E i \in Ids : find_local_socket(Head(h2d).arg1, i) /\ Known(i)
  /\ batch' = [batch EXCEPT ![Trans] = {}]
  /\ UNCHANGED <<sock, nextid, online, d2h, prog, cause>>

\* Mutant: the sockets stay.
disconnects_Forgotten ==
  /\ UNCHANGED <<sock, cause>>
  /\ batch' = [batch EXCEPT ![Trans] = {}]

\* remote_socket_disconnect on every remote socket: the local sockets close
\* without a packet, the waiting clients are not on the list.
run_transport_disconnects ==
  LET S == {i \in Ids : sock[i].st = "open"} IN
  /\ sock' = [i \in Ids |-> IF i \in S THEN local_socket_close(sock[i]) ELSE sock[i]]
  /\ cause' = [i \in Ids |-> IF i \in S THEN "session" ELSE cause[i]]
  /\ batch' = [i \in DOMAIN batch |->
                 IF i = Trans THEN {}
                 ELSE IF i \in S THEN Pending(i, local_socket_close(sock[i])) ELSE batch[i]]

handle_CNXN ==
  /\ receive("CNXN")
  /\ IF online THEN run_transport_disconnects
     ELSE /\ batch' = [batch EXCEPT ![Trans] = {}]
          /\ UNCHANGED <<sock, cause>>
  /\ online' = TRUE
  /\ d2h' = d2h \o send_connect
  /\ UNCHANGED <<nextid, prog>>

\* The service exists: a local socket, linked and ready to read.
handle_OPEN ==
  /\ receive("OPEN")
  /\ online /\ nextid <= MaxId
  /\ sock' = [sock EXCEPT ![nextid] = create_local_socket("open", Head(h2d).arg0)]
  /\ nextid' = nextid + 1
  /\ d2h' = d2h \o send_ready(nextid, Head(h2d).arg0)
  /\ batch' = [batch EXCEPT ![Trans] = {}]
  /\ UNCHANGED <<online, prog, cause>>

refuse_OPEN ==
  /\ receive("OPEN")
  /\ online
  /\ d2h' = d2h \o send_close(Head(h2d).arg0)
  /\ batch' = [batch EXCEPT ![Trans] = {}]
  /\ UNCHANGED <<sock, nextid, online, prog, cause>>

\* Mutant: s->ready is not put back.
ready_told_Always(s) == <<"OKAY">>

\* local_socket_ready_notify, once.
ready_told(s) == IF s.st = "waiting" THEN <<"OKAY">> ELSE <<>>

\* A waiting client gets its remote socket and is told OKAY; then,
\* as for any socket, FDE_READ.
handle_OKAY ==
  \E i \in Ids :
    LET s == local_socket_ready([sock[i] EXCEPT !.st = "open",
                                   !.peer = IF @ = None THEN Head(h2d).arg0 ELSE @])
    IN  /\ receive("OKAY")
        /\ online /\ find_local_socket(Head(h2d).arg1, i) /\ Known(i)
        /\ sock' = [sock EXCEPT ![i] = s]
        /\ prog' = [prog EXCEPT ![i].told = @ \o ready_told(sock[i])]
        /\ batch' = [batch EXCEPT ![Trans] = {}, ![i] = Pending(i, s)]
        /\ UNCHANGED <<nextid, online, d2h, cause>>

handle_CLSE ==
  \E i \in Ids :
    LET r == Closed(sock[i], "host")
    IN  /\ receive("CLSE")
        /\ online /\ find_local_socket(Head(h2d).arg1, i) /\ Known(i)
        /\ sock' = [sock EXCEPT ![i] = r.s]
        /\ d2h' = d2h \o r.pkts
        /\ prog' = [prog EXCEPT ![i].told = @ \o r.told]
        /\ cause' = Because(i, "host")
        /\ batch' = [batch EXCEPT ![Trans] = {}, ![i] = Pending(i, r.s)]
        /\ UNCHANGED <<nextid, online>>

\* local_socket_enqueue: write at once what the descriptor takes and queue the
\* rest; the host gets its OKAY only when all is written.
local_socket_enqueue(i, data) ==
  LET s == sock[i]
      n == adb_write(i, data)
  IN  CASE s.queue = <<>> /\ Broken(i) -> Closed(s, "error")
        [] s.queue = <<>> /\ ~Broken(i) /\ n = Len(data) ->
             [Nothing(s) EXCEPT !.wrote = data, !.pkts = send_ready(i, Head(h2d).arg0)]
        [] s.queue = <<>> /\ ~Broken(i) /\ n < Len(data) ->
             [Nothing(s) EXCEPT !.wrote = SubSeq(data, 1, n),
                                !.s = watch_write([s EXCEPT !.queue = <<rest(data, n)>>])]
        [] OTHER -> [Nothing(s) EXCEPT !.s = watch_write([s EXCEPT !.queue = Append(@, data)])]

handle_WRTE ==
  \E i \in Ids :
    LET r == local_socket_enqueue(i, Head(h2d).data)
    IN  /\ receive("WRTE")
        /\ online /\ find_local_socket(Head(h2d).arg1, i) /\ Known(i)
        /\ sock' = [sock EXCEPT ![i] = r.s]
        /\ d2h' = d2h \o r.pkts
        /\ prog' = [prog EXCEPT ![i] = Served(i, r)]
        /\ cause' = IF r.why # "none" THEN Because(i, r.why) ELSE cause
        /\ batch' = [batch EXCEPT ![Trans] = {}, ![i] = Pending(i, r.s)]
        /\ UNCHANGED <<nextid, online>>

\* The last packet of a transport: the streams go.
handle_SYNC0 ==
  /\ receive("SYNC0")
  /\ run_transport_disconnects
  /\ online' = FALSE
  /\ UNCHANGED <<nextid, d2h, prog>>

\* The input thread, after the SYNC(0) was echoed: the waiting clients go, and
\* are not told.
close_all_sockets ==
  /\ session = "lost" /\ h2d = <<>>
  /\ \E i \in Ids : sock[i].st = "waiting"
  /\ sock' = [i \in Ids |-> IF sock[i].st = "waiting" THEN Gone ELSE sock[i]]
  /\ cause' = [i \in Ids |-> IF sock[i].st = "waiting" THEN "session" ELSE cause[i]]
  /\ UNCHANGED <<nextid, online, batch, d2h, h2d, envVars>>

-----------------------------------------------------------------------------
(* The programs behind the descriptors (outside adbd).                     *)

progOnly == <<sock, nextid, online, batch, d2h, h2d, hostVars, cause>>

Made == MapThenSumSet(LAMBDA j : prog[j].made, Ids)   \* on all streams

\* A program with something to say: a service, or a client that was told OKAY.
prog_write(i) ==
  /\ IsOpen(i) /\ sock[i].st \notin {"smart", "waiting"}
  /\ prog[i].end = "open" /\ Made < MaxBytes
  /\ prog' = [prog EXCEPT ![i].out = Append(@, prog[i].made + 1), ![i].made = @ + 1]
  /\ UNCHANGED progOnly

\* A client sends its request, whole, in two parts, or a malformed one.
prog_request(i) ==
  /\ sock[i].st = "smart" /\ prog[i].end = "open"
  /\ "REQ" \notin ToSet(prog[i].req) /\ Len(prog[i].req) < 2
  /\ \E part \in {"PART", "REQ", "BAD"} : prog' = [prog EXCEPT ![i].req = Append(@, part)]
  /\ UNCHANGED progOnly

prog_read(i) ==
  /\ IsOpen(i) /\ prog[i].unread > 0 /\ prog[i].end # "closed"
  /\ prog' = [prog EXCEPT ![i].unread = 0]
  /\ UNCHANGED progOnly

prog_close(i) ==
  /\ IsOpen(i) /\ prog[i].end # "closed"
  /\ \E e \in {"half", "closed"} \ {prog[i].end} : prog' = [prog EXCEPT ![i].end = e]
  /\ UNCHANGED progOnly

-----------------------------------------------------------------------------
(* The host (outside adbd).                                                *)

hostOnly == <<sock, nextid, online, batch, prog, cause>>

\* st: "ended" by a CLSE of adbd, or "closed" by the host itself.

\* It connects, or starts over: then it forgets its streams.
host_connect ==
  /\ session \in {"off", "on"} /\ cnxns < MaxCnxn
  /\ session' = "wait"
  /\ cnxns' = cnxns + 1
  /\ h2d' = Append(h2d, Pkt("CNXN", 0, 0, <<>>))
  /\ host' = [h \in Hids |-> IF host[h].st = "none" THEN host[h]
                             ELSE [host[h] EXCEPT !.st = "closed"]]
  /\ UNCHANGED <<hostOnly, d2h>>

host_open(h) ==
  /\ session = "on" /\ host[h].st = "none"
  /\ host' = [host EXCEPT ![h].st = "opening"]
  /\ h2d' = Append(h2d, Pkt("OPEN", h, 0, <<>>))
  /\ UNCHANGED <<hostOnly, d2h, session, cnxns>>

Sent == MapThenSumSet(LAMBDA g : host[g].sent, Hids)   \* on all streams

host_write(h, n) ==
  /\ host[h].st = "open" /\ host[h].ready
  /\ Sent + n <= MaxBytes
  /\ host' = [host EXCEPT ![h].ready = FALSE, ![h].sent = @ + n]
  /\ h2d' = Append(h2d, Pkt("WRTE", h, host[h].id, [k \in 1..n |-> host[h].sent + k]))
  /\ UNCHANGED <<hostOnly, d2h, session, cnxns>>

host_ack(h) ==
  /\ host[h].st = "open" /\ host[h].owes
  /\ host' = [host EXCEPT ![h].owes = FALSE]
  /\ h2d' = Append(h2d, Pkt("OKAY", h, host[h].id, <<>>))
  /\ UNCHANGED <<hostOnly, d2h, session, cnxns>>

host_close(h) ==
  /\ host[h].st = "open"
  /\ host' = [host EXCEPT ![h].st = "closed"]
  /\ h2d' = Append(h2d, Pkt("CLSE", h, host[h].id, <<>>))
  /\ UNCHANGED <<hostOnly, d2h, session, cnxns>>

\* It takes the next packet.  A CLSE is answered with a CLSE.
host_receive ==
  LET p == Head(d2h)
      h == p.arg1
      known == session = "on" /\ h \in Hids /\ host[h].st \in {"opening", "open"}
  IN
  /\ session \in {"wait", "on"} /\ d2h # <<>>
  /\ d2h' = Tail(d2h)
  /\ session' = IF p.cmd = "CNXN" THEN "on" ELSE session
  /\ \/ /\ p.cmd = "OKAY" /\ known
        /\ host' = [host EXCEPT ![h].st = "open", ![h].id = p.arg0, ![h].ready = TRUE]
        /\ UNCHANGED h2d
     \/ /\ p.cmd = "WRTE" /\ known
        /\ host' = [host EXCEPT ![h].got = @ \o p.data, ![h].owes = TRUE]
        /\ UNCHANGED h2d
     \/ /\ p.cmd = "CLSE" /\ known
        /\ host' = [host EXCEPT ![h].st = "ended"]
        /\ h2d' = IF host[h].st = "open" THEN Append(h2d, Pkt("CLSE", h, host[h].id, <<>>))
                  ELSE h2d
     \/ /\ p.cmd = "OPEN" /\ session = "on"
        /\ \/ \E g \in Hids :       \* accepted
                /\ host[g].st = "none"
                /\ host' = [host EXCEPT ![g].st = "open", ![g].id = p.arg0, ![g].ready = TRUE]
                /\ h2d' = Append(h2d, Pkt("OKAY", g, p.arg0, <<>>))
           \/ /\ h2d' = Append(h2d, Pkt("CLSE", 0, p.arg0, <<>>))   \* refused
              /\ UNCHANGED host
     \/ /\ session = "wait" \/ (p.cmd # "OPEN" /\ ~known)
        /\ UNCHANGED <<host, h2d>>
  /\ UNCHANGED <<hostOnly, cnxns>>

\* The connection is lost with what was on its way; the output thread of the
\* transport ends with SYNC(0).
link_lost ==
  /\ session \in {"wait", "on"}
  /\ session' = "lost"
  /\ \E n \in 0..Len(h2d) : h2d' = Append(SubSeq(h2d, 1, n), Pkt("SYNC0", 0, 0, <<>>))
  /\ d2h' = <<>>
  /\ host' = [h \in Hids |-> IF host[h].st = "none" THEN host[h]
                             ELSE [host[h] EXCEPT !.st = "closed"]]
  /\ UNCHANGED <<hostOnly, cnxns>>

-----------------------------------------------------------------------------
MainPacket ==
  \/ drop_packet \/ handle_CNXN \/ handle_OPEN \/ refuse_OPEN
  \/ handle_OKAY \/ handle_CLSE \/ handle_WRTE \/ handle_SYNC0

Next ==
  \/ fdevent_process
  \/ MainPacket
  \/ ss_listener_event_func
  \/ close_all_sockets
  \/ \E i \in Ids :
       \/ local_socket_event_func(i)
       \/ prog_write(i) \/ prog_request(i) \/ prog_read(i) \/ prog_close(i)
  \/ host_connect
  \/ host_receive
  \/ link_lost
  \/ \E h \in Hids :
       \/ host_open(h) \/ host_ack(h) \/ host_close(h)
       \/ \E n \in 1..MaxPayload : host_write(h, n)

Spec == Init /\ [][Next]_vars

\* The loop is level triggered, the programs read what they are sent, the host
\* takes its packets and acknowledges them.  Nobody has to write or to close.
Fairness ==
  /\ WF_vars(fdevent_process)
  /\ WF_vars(MainPacket)
  /\ WF_vars(close_all_sockets)
  /\ WF_vars(host_receive)
  /\ \A i \in Ids : WF_vars(local_socket_event_func(i)) /\ WF_vars(prog_read(i))
  /\ \A h \in Hids : WF_vars(host_ack(h))

FairSpec == Spec /\ Fairness

-----------------------------------------------------------------------------
(* Properties.                                                             *)

Count(q, cmd, arg0, arg1) ==
  Cardinality({k \in DOMAIN q : q[k].cmd = cmd /\ q[k].arg0 = arg0 /\ q[k].arg1 = arg1})
Payload(q, arg0, arg1) ==
  FlattenSeq([k \in DOMAIN q |->
    IF q[k].cmd = "WRTE" /\ q[k].arg0 = arg0 /\ q[k].arg1 = arg1 THEN q[k].data ELSE <<>>])
Bool(b) == IF b THEN 1 ELSE 0
Upto(n) == [k \in 1..n |-> k]

\* Both ends have the stream of local socket i and host id h.
Paired(i, h) == sock[i].st = "open" /\ sock[i].peer = h /\ host[h].st = "open"

\* Flow control.  To the host, exactly one of these holds the right to send at
\* any time: the local socket (FDE_READ wanted), a WRTE on its way, the host
\* that owes an OKAY, an OKAY on its way.  To the device: the host that is
\* ready, a WRTE on its way, a packet in the local socket's queue, an OKAY on
\* its way.  So each side has at most one WRTE unacknowledged, and no credit is
\* lost: the stream never stalls.
OneCredit ==
  \A i \in Ids, h \in Hids : Paired(i, h) =>
    /\ Bool(R \in sock[i].mask) + Count(d2h, "WRTE", i, h) + Bool(host[h].owes)
         + Count(h2d, "OKAY", h, i) = 1
    /\ Bool(host[h].ready) + Count(h2d, "WRTE", h, i) + Len(sock[i].queue)
         + Count(d2h, "OKAY", i, h) = 1

\* A queue that is not empty is watched for FDE_WRITE, and is drained by a
\* socket that still has a peer to tell, or that is closing: the event function
\* never follows a null peer.
QueueWatched ==
  \A i \in Ids : sock[i].queue # <<>> =>
    W \in sock[i].mask /\ sock[i].st \in {"open", "closing"}

\* The clients that close_all_sockets takes away in the input thread are not
\* about to be called by the main thread, which does not hold the list's lock
\* while it works through its batch.
WaitingIsQuiet ==
  \A i \in Ids : sock[i].st = "waiting" => sock[i].mask = {} /\ batch[i] = {}

\* What is watched is in step with the life of the socket, by the two rules
\* above.
WatchInStep == TypeOK /\ QueueWatched /\ WaitingIsQuiet

\* Nothing is lost, repeated or reordered in either direction: what one end wrote
\* is what the other has, local_socket_enqueue's queue holds or WRTE carry.
Delivered ==
  /\ \A i \in Ids : prog[i].inb = Upto(Len(prog[i].inb))
  /\ \A i \in Ids, h \in Hids : Paired(i, h) =>
       /\ prog[i].inb \o FlattenSeq(sock[i].queue) \o Payload(h2d, h, i) = Upto(host[h].sent)
       /\ host[h].got \o Payload(d2h, i, h) \o prog[i].out = Upto(prog[i].made)

\* When adbd ends a stream of its own accord, the host gets every byte that the
\* program wrote before the CLSE.  The one exception: the program went away and
\* left bytes of the host unwritten.  Then the write fails with EPIPE, s->close
\* is called at once, and what the program had written last stays unread.
NoTruncation ==
  \A i \in Ids, h \in Hids :
    (host[h].id = i /\ cause[i] \in {"eof", "error"} /\ host[h].st \in {"open", "ended"})
      => \/ host[h].got \o Payload(d2h, i, h) = Upto(prog[i].made)
         \/ cause[i] = "error" /\ prog[i].end = "closed" /\ Len(prog[i].inb) < host[h].sent

\* What takes socket i away when it is handled: a CLSE for it, a CNXN, SYNC(0).
Ending(p, i) == p.cmd \in {"CNXN", "SYNC0"} \/ (p.cmd = "CLSE" /\ p.arg1 = i)

\* adbd keeps a stream that the host has left only until it handles what the
\* host, or the end of the link, has already sent about it: a CLSE, the CNXN
\* with which the host starts over, or SYNC(0).  No stream of a session
\* survives into the next one, where its packets would reach an old socket.
NoOrphans ==
  \A i \in Ids :
    (sock[i].st = "open" /\ host[sock[i].peer].st \in {"ended", "closed"})
      => \E k \in DOMAIN h2d : Ending(h2d[k], i)

\* A socket that a CLSE of the host closed delivers all that the host sent before
\* local_socket_destroy, as long as its program stays: the queue is not dropped.
DrainedBeforeGone ==
  \A i \in Ids, h \in Hids :
    (sock[i].st = "gone" /\ cause[i] = "host" /\ host[h].id = i /\ prog[i].end = "open")
      => prog[i].inb = Upto(host[h].sent)

\* After CLSE a stream is silent: no packet for h follows a CLSE for h.
NothingAfterClose ==
  \A k \in DOMAIN d2h : d2h[k].cmd = "CLSE" =>
    \A m \in DOMAIN d2h : m > k => d2h[m].arg1 # d2h[k].arg1

\* A client hears OKAY or FAIL at most once, and OKAY before any data of the
\* stream.
ClientToldOnce ==
  \A i \in Ids : prog[i].client =>
    /\ Len(prog[i].told) <= 1
    /\ prog[i].inb # <<>> => prog[i].told = <<"OKAY">>

\* The stream moves in both directions, unless one of the ends ends it: what a
\* program writes reaches the host, and what the host writes is acknowledged.
StreamMoves ==
  \A i \in Ids, h \in Hids :
    /\ (Paired(i, h) /\ prog[i].out # <<>>) ~>
         (host[h].got = Upto(prog[i].made) \/ ~Paired(i, h))
    /\ (Paired(i, h) /\ ~host[h].ready) ~> (host[h].ready \/ ~Paired(i, h))

\* Both ends agree in the end: a stream that one side closed is closed by both,
\* and the local socket leaves the closing list when its queue is written.
CloseAgreed ==
  \A i \in Ids, h \in Hids :
    /\ (host[h].id = i /\ host[h].st \in {"ended", "closed"}) ~> sock[i].st = "gone"
    /\ (host[h].id = i /\ sock[i].st \in {"closing", "gone"})
         ~> host[h].st \in {"ended", "closed"}
=============================================================================
