-------------------------------- MODULE Usb --------------------------------
(***************************************************************************)
(* The USB side of adbd: usb_linux_client.c and transport_usb.c.           *)
(*                                                                         *)
(* There is one usb_handle for the life of the daemon.  Its open thread    *)
(* waits until the handle is closed, opens the endpoints again and         *)
(* registers a transport for them.  The two threads of that transport read *)
(* and write through the handle, and look its descriptors up at each call. *)
(* The first of them to kick the transport closes the descriptors and      *)
(* wakes the open thread, which may have a successor running while the     *)
(* other thread of the old transport still works off its queue.            *)
(*                                                                         *)
(* Both kinds of handle are here: FunctionFS, with three endpoint files,   *)
(* and /dev/android_adb, with one.  Module Transport has the threads in    *)
(* detail; here main only passes packets on to the input thread.           *)
(***************************************************************************)
EXTENDS Integers, Sequences, FiniteSets

CONSTANTS
  MaxTransports, \* bound: transports that are registered
  MaxPackets,    \* bound: transfers that are read
  MaxFails       \* bound: attempts to open the endpoints that fail

ASSUME UsbAssumption ==
  MaxTransports \in Nat /\ MaxPackets \in Nat /\ MaxFails \in Nat

VARIABLES
  ffs,      \* the kind of handle: FunctionFS or android_adb, chosen by usb_init
  h,        \* the usb_handle: a descriptor number for each field
  opener,   \* where the open thread is
  step,     \* the endpoint it opens next
  fds,      \* kernel: the descriptors that are open
  dead,     \* kernel: those whose endpoint the host has left
  nextfd,   \* kernel: the next descriptor number, never used before
  last,     \* the last transport that was registered
  outpc,    \* where the output thread of each transport is
  inpc,     \* where the input thread of each transport is
  kicked,   \* t->kicked
  queue,    \* packets that main has for the input thread
  own,      \* history: the handle when the transport was registered
  stray,    \* history: a descriptor was closed that is not the handle's
  packets,  \* transfers that were read
  fails     \* attempts to open that have failed

Ts == 1..MaxTransports
\* The fields of the handle, in the order they are opened.
Eps == IF ffs THEN <<"control", "bulk_out", "bulk_in">> ELSE <<"fd">>
Names == {Eps[i] : i \in DOMAIN Eps}
First == Eps[1]              \* the field the open thread looks at
ReadEp == IF ffs THEN "bulk_out" ELSE "fd"
WriteEp == IF ffs THEN "bulk_in" ELSE "fd"
NoFd == -1
Shut == [e \in Names |-> NoFd]

openVars == <<opener, step, nextfd, last, own, fails>>
threadVars == <<outpc, inpc, kicked>>
dataVars == <<queue, packets>>
vars == <<ffs, h, openVars, fds, dead, threadVars, dataVars, stray>>

TypeOK ==
  /\ ffs \in BOOLEAN
  /\ h \in [Names -> {NoFd} \cup 0..nextfd]
  /\ opener \in {"check", "blocked", "open", "err", "register"}
  /\ step \in 1..(Len(Eps) + 1)
  /\ fds \subseteq 1..nextfd /\ Cardinality(fds) <= Len(Eps)
  /\ dead \subseteq fds
  /\ nextfd \in Nat
  /\ last \in 0..MaxTransports
  /\ outpc \in [Ts -> {"none", "read", "kick", "call", "done"}]
  /\ inpc \in [Ts -> {"none", "next", "header", "data", "kick", "call", "done"}]
  /\ kicked \in [Ts -> BOOLEAN]
  /\ queue \in [Ts -> Seq({"PACKET", "SYNC0"})]
  /\ own \in [Ts -> [Names -> {NoFd} \cup 0..nextfd]]
  /\ stray \in BOOLEAN
  /\ packets \in 0..MaxPackets
  /\ fails \in 0..MaxFails

\* usb_init: FunctionFS when its control endpoint is there, /dev/android_adb
\* otherwise.  usb_ffs_init sets bulk_out twice and leaves bulk_in as calloc made it.
Init ==
  /\ ffs \in BOOLEAN
  /\ h = [e \in Names |-> IF e = "bulk_in" THEN 0 ELSE NoFd]
  /\ opener = "check"
  /\ step = 1
  /\ fds = {}
  /\ dead = {}
  /\ nextfd = 1
  /\ last = 0
  /\ outpc = [t \in Ts |-> "none"]
  /\ inpc = [t \in Ts |-> "none"]
  /\ kicked = [t \in Ts |-> FALSE]
  /\ queue = [t \in Ts |-> <<>>]
  /\ own = [t \in Ts |-> Shut]
  /\ stray = FALSE
  /\ packets = 0
  /\ fails = 0

-----------------------------------------------------------------------------
(* The open thread: usb_ffs_open_thread or usb_adb_open_thread.            *)

\* Mutant: the thread does not wait.
must_wait_Never == FALSE

\* while(usb->control!=-1), under the lock.
must_wait == h[First] # NoFd

open_check ==
  /\ opener = "check"
  /\ opener' = IF must_wait THEN "blocked" ELSE "open"
  /\ step' = 1
  /\ UNCHANGED <<ffs, h, nextfd, last, own, fails, fds, dead, threadVars, dataVars, stray>>

\* pthread_cond_wait may return without a signal.
spurious_wakeup ==
  /\ opener = "blocked"
  /\ opener' = "check"
  /\ UNCHANGED <<ffs, h, step, nextfd, last, own, fails, fds, dead, threadVars, dataVars, stray>>

\* The next endpoint opens.
open_endpoint ==
  /\ opener = "open"
  /\ h' = [h EXCEPT ![Eps[step]] = nextfd]
  /\ fds' = fds \cup {nextfd}
  /\ nextfd' = nextfd + 1
  /\ step' = step + 1
  /\ opener' = IF step = Len(Eps) THEN "register" ELSE "open"
  /\ UNCHANGED <<ffs, last, own, fails, dead, threadVars, dataVars, stray>>

\* It does not open; or, with the control endpoint open, one of the writes of
\* the descriptors and the strings fails, before bulk_out is assigned.
open_fails ==
  /\ opener = "open" /\ fails < MaxFails
  /\ fails' = fails + 1
  /\ opener' = "err"
  /\ h' \in {[h EXCEPT ![Eps[step]] = NoFd]} \cup (IF ffs /\ step = 2 THEN {h} ELSE {})
  /\ UNCHANGED <<ffs, step, nextfd, last, own, fds, dead, threadVars, dataVars, stray>>

\* Mutant: the error path forgets the bulk endpoints.
to_close_ControlOnly == {First} \cap {e \in Names : h[e] > 0}

\* What the error path of init_functionfs closes.
to_close == {e \in Names : h[e] > 0}

init_error ==
  /\ opener = "err"
  /\ fds' = fds \ {h[e] : e \in to_close}
  /\ dead' = dead \cap fds'
  /\ stray' = (stray \/ ~ {h[e] : e \in to_close} \subseteq fds)
  /\ h' = [e \in Names |-> IF e \in to_close THEN NoFd ELSE h[e]]
  /\ opener' = IF h'[First] >= 0 THEN "register" ELSE "open"
  /\ step' = 1
  /\ UNCHANGED <<ffs, nextfd, last, own, fails, threadVars, dataVars>>

\* register_usb_transport; main starts the threads.
register_usb_transport ==
  /\ opener = "register" /\ last < MaxTransports
  /\ last' = last + 1
  /\ own' = [own EXCEPT ![last'] = h]
  /\ outpc' = [outpc EXCEPT ![last'] = "read"]
  /\ inpc' = [inpc EXCEPT ![last'] = "next"]
  /\ opener' = "check"
  /\ UNCHANGED <<ffs, h, step, nextfd, fails, fds, dead, kicked, dataVars, stray>>

-----------------------------------------------------------------------------
(* The threads of a transport.                                             *)

Works(e) == h[e] \in fds \ dead

\* usb_read of a header or of data; a whole packet goes to main, which has
\* something for the input thread.
usb_read(t) ==
  /\ outpc[t] = "read" /\ Works(ReadEp)
  /\ packets < MaxPackets
  /\ packets' = packets + 1
  /\ \/ UNCHANGED queue
     \/ queue' = [queue EXCEPT ![t] = Append(@, "PACKET")]
  /\ UNCHANGED <<ffs, h, openVars, fds, dead, threadVars, stray>>

\* A read fails, or check_header or check_data does: SYNC(0), by way of main.
read_fails(t) ==
  /\ outpc[t] = "read"
  /\ outpc' = [outpc EXCEPT ![t] = "kick"]
  /\ queue' = [queue EXCEPT ![t] = Append(@, "SYNC0")]
  /\ UNCHANGED <<ffs, h, openVars, fds, dead, inpc, kicked, packets, stray>>

\* The input thread takes what main has for it.
in_next(t) ==
  /\ inpc[t] = "next" /\ queue[t] # <<>>
  /\ queue' = [queue EXCEPT ![t] = Tail(@)]
  /\ inpc' = [inpc EXCEPT ![t] = IF Head(queue[t]) = "SYNC0" THEN "kick" ELSE "header"]
  /\ UNCHANGED <<ffs, h, openVars, fds, dead, outpc, kicked, packets, stray>>

\* remote_write: the header, then the data if there is any.
usb_write(t) ==
  /\ inpc[t] \in {"header", "data"} /\ Works(WriteEp)
  /\ \E next \in (IF inpc[t] = "header" THEN {"data", "next"} ELSE {"next"}) :
       inpc' = [inpc EXCEPT ![t] = next]
  /\ UNCHANGED <<ffs, h, openVars, fds, dead, outpc, kicked, queue, packets, stray>>

\* The input thread does not look at the result.
after_failed_write == "next"

write_fails(t) ==
  /\ inpc[t] \in {"header", "data"} /\ ~Works(WriteEp)
  /\ inpc' = [inpc EXCEPT ![t] = after_failed_write]
  /\ UNCHANGED <<ffs, h, openVars, fds, dead, outpc, kicked, dataVars, stray>>

Threads == {"out", "in"}
pc(th) == IF th = "out" THEN outpc ELSE inpc
goto(th, t, s) ==
  /\ outpc' = IF th = "out" THEN [outpc EXCEPT ![t] = s] ELSE outpc
  /\ inpc' = IF th = "in" THEN [inpc EXCEPT ![t] = s] ELSE inpc

\* Mutant: both threads kick.
first_to_kick_Assumed(t) == TRUE

\* kick_transport: only the first thread goes on to t->kick.
first_to_kick(t) == ~kicked[t]

kick_transport(th, t) ==
  /\ pc(th)[t] = "kick"
  /\ kicked' = [kicked EXCEPT ![t] = TRUE]
  /\ goto(th, t, IF first_to_kick(t) THEN "call" ELSE "done")
  /\ UNCHANGED <<ffs, h, openVars, fds, dead, dataVars, stray>>

\* Mutant: no signal.
woken_Not == opener

\* adb_cond_signal.
woken == IF opener = "blocked" THEN "check" ELSE opener

\* usb_ffs_kick, usb_adb_kick.
usb_kick(th, t) ==
  /\ pc(th)[t] = "call"
  /\ goto(th, t, "done")
  /\ fds' = fds \ {h[e] : e \in Names}
  /\ dead' = dead \cap fds'
  /\ stray' = (stray \/ ~ ({h[e] : e \in Names} \ {NoFd}) \subseteq fds)
  /\ h' = Shut
  /\ opener' = woken
  /\ UNCHANGED <<ffs, step, nextfd, last, own, fails, kicked, dataVars>>

\* The cable is pulled, or the host disables the interface.
unplug ==
  /\ fds \ dead # {}
  /\ dead' = dead \cup fds
  /\ UNCHANGED <<ffs, h, openVars, fds, threadVars, dataVars, stray>>

-----------------------------------------------------------------------------
Opener == open_check \/ open_endpoint \/ open_fails \/ init_error \/ register_usb_transport
Output(t) == usb_read(t) \/ read_fails(t)
Input(t) == in_next(t) \/ usb_write(t) \/ write_fails(t)
Kick(th, t) == kick_transport(th, t) \/ usb_kick(th, t)

Next ==
  \/ Opener
  \/ spurious_wakeup
  \/ \E t \in Ts :
       \/ Output(t) \/ Input(t)
       \/ \E th \in Threads : Kick(th, t)
  \/ unplug

Spec == Init /\ [][Next]_vars

\* The threads are scheduled, and an endpoint opens after finitely many
\* attempts.  A read or a write may block for ever.
Fairness ==
  /\ WF_vars(Opener)
  /\ \A t \in Ts, th \in Threads : WF_vars(Kick(th, t))

FairSpec == Spec /\ Fairness

-----------------------------------------------------------------------------
(* Properties.                                                             *)

\* t was registered, and usb_kick has not been called for it.
Live(t) == t <= last /\ ~(kicked[t] /\ \A th \in Threads : pc(th)[t] # "call")

\* The handle serves one transport at a time: the open thread registers the
\* next one only when the last one was kicked.
OneSession == \A t, u \in Ts : Live(t) /\ Live(u) => t = u

\* Whichever of the steps of init_functionfs fails, and however often: the
\* open endpoint files are exactly those the handle knows, and nothing else is
\* ever closed (not descriptor 0, which bulk_in starts with).
NoLeak == fds = {h[e] : e \in Names} \ {NoFd, 0} /\ ~stray

\* The handle and the kernel agree, and the handle has its type.
HandleInStep == TypeOK /\ NoLeak

\* What a thread looks up in the shared handle is its own transport's: always
\* when the output thread is about to read, until the transport is kicked when
\* the input thread is about to write, and when either is about to close the
\* endpoints, never those of the successor.
OwnEndpoints ==
  \A t \in Ts :
    /\ outpc[t] = "read" => h = own[t]
    /\ inpc[t] \in {"header", "data"} /\ ~kicked[t] => h = own[t]
    /\ \A th \in Threads : pc(th)[t] = "call" => h = own[t]

\* No wake-up is lost: a transport that is about to be kicked has a successor.
Reopens == \A t \in Ts : (outpc[t] = "kick" /\ t < MaxTransports) ~> last > t
=============================================================================
