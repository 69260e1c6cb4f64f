------------------------------ MODULE FdEvent ------------------------------
(***************************************************************************)
(* The event loop of adbd, fdevent.c.                                      *)
(*                                                                         *)
(* An fdevent watches one descriptor.  Its state word holds the events it  *)
(* wants and flags; fdevent_update keeps the kernel's epoll interest list  *)
(* in step with it, and decides between ADD, MOD and DEL from the state    *)
(* word alone.  epoll_wait marks fdevents pending and queues them; then    *)
(* their functions are called one by one, and a function may install, set  *)
(* or remove any fdevent, queued ones included.                            *)
(*                                                                         *)
(* The state word is a set of names.  FDE_DONT_CLOSE (0x0080) lies inside  *)
(* FDE_EVENTMASK (0x00ff), as in the code.                                 *)
(*                                                                         *)
(* Most callers install an idle fdevent on a descriptor they have just     *)
(* opened and leave its closing to fdevent_remove.  Four do not, and each  *)
(* is a parameter: JDWP processes, the streams of "dev:", the auth_fde of  *)
(* a transport, and main's second close of t->fd.                          *)
(***************************************************************************)
EXTENDS Naturals, Sequences, SequencesExt

CONSTANTS
  Fdes,          \* fdevent structures
  Fds,           \* descriptor numbers
  None,          \* a null pointer
  DontCloseFdes, \* the fdevents of JDWP processes, which set FDE_DONT_CLOSE
  FileFdes,      \* the streams of "dev:", whose descriptor may be a file that
                 \* cannot be polled
  AuthFdes,      \* the auth_fde's: adb_auth_confirm_key installs one again
                 \* while it is in use, and two on one descriptor
  OutsideClose,  \* main closes t->fd's number, which its thread has closed
                 \* before and which may be another descriptor by now
  MaxOps         \* bound: calls of fdevent_* between two polls

ASSUME FdEventAssumption ==
  /\ None \notin Fdes \cup Fds
  /\ {"poll", "dispatch"} \cap (Fdes \cup {None}) = {}
  /\ IsFiniteSet(Fdes)
  /\ DontCloseFdes \cup FileFdes \cup AuthFdes \subseteq Fdes
  /\ OutsideClose \in BOOLEAN
  /\ MaxOps \in Nat

Wanted == {"READ", "WRITE"}
EventMask == Wanted \cup {"DONT_CLOSE"}   \* FDE_EVENTMASK
Reported == {"READ", "WRITE", "ERROR"}

VARIABLES
  fd,        \* fde->fd
  mask,      \* fde->state & FDE_EVENTMASK
  active,    \* fde->state & FDE_ACTIVE
  pending,   \* fde->state & FDE_PENDING
  events,    \* fde->events
  plist,     \* list_pending
  cut,       \* listed fdevents whose links to the next one are null
  fd_table,  \* fd_table[fd]
  epoll,     \* kernel: interest list, by descriptor
  open,      \* kernel: open descriptors
  files,     \* kernel: those of them that cannot be polled
  cb,        \* the fdevent whose function runs, "poll" before epoll_wait,
             \* "dispatch" between functions
  cbevents,  \* the events that function was called with
  ops,       \* calls of fdevent_* since the last poll
  dead,      \* why the daemon has ended: "no", "epoll_ctl", "fd_table", or
             \* a null link of the "list"
  culprit,   \* the fdevent it ended on
  foul       \* history: descriptors that were closed, shared or abandoned
             \* behind the back of an installed fdevent

fdeVars == <<fd, mask, active, pending, events>>
listVars == <<plist, cut>>
kernelVars == <<epoll, open, files>>
endVars == <<dead, culprit>>
vars == <<fdeVars, listVars, fd_table, kernelVars, cb, cbevents, ops, endVars, foul>>

NotWatched == [ptr |-> None, want |-> {}]
Free == [f \in Fdes |-> FALSE]

TypeOK ==
  /\ fd \in [Fdes -> Fds \cup {None}]
  /\ mask \in [Fdes -> SUBSET EventMask]
  /\ active \in [Fdes -> BOOLEAN]
  /\ pending \in [Fdes -> BOOLEAN]
  /\ events \in [Fdes -> SUBSET Reported]
  /\ plist \in Seq(Fdes)
  /\ cut \subseteq Fdes
  /\ fd_table \in [Fds -> Fdes \cup {None}]
  /\ epoll \in [Fds -> [ptr : Fdes \cup {None}, want : SUBSET Wanted]]
  /\ open \subseteq Fds
  /\ files \subseteq open
  /\ cb \in Fdes \cup {None, "poll", "dispatch"}
  /\ cbevents \in SUBSET Reported
  /\ ops \in 0..MaxOps
  /\ dead \in {"no", "epoll_ctl", "fd_table", "list"}
  /\ culprit \in Fdes \cup {None}
  /\ foul \subseteq Fds

Init ==
  /\ fd = [f \in Fdes |-> None]
  /\ mask = [f \in Fdes |-> {}]
  /\ active = Free
  /\ pending = Free
  /\ events = [f \in Fdes |-> {}]
  /\ plist = <<>>
  /\ cut = {}
  /\ fd_table = [d \in Fds |-> None]
  /\ epoll = [d \in Fds |-> NotWatched]
  /\ open = {}
  /\ files = {}
  /\ cb = None          \* adb_main, before fdevent_loop
  /\ cbevents = {}
  /\ ops = 0
  /\ dead = "no"
  /\ culprit = None
  /\ foul = {}

-----------------------------------------------------------------------------
(* The operations.  They run inside the function of some fdevent, or in    *)
(* adb_main before the loop starts.                                        *)

user == cb \in Fdes \cup {None} /\ dead = "no" /\ ops < MaxOps /\ ops' = ops + 1

fdevent_register(f, d) == fd_table' = [fd_table EXCEPT ![d] = f]
fdevent_unregister(f) == fd_table' = [fd_table EXCEPT ![fd[f]] = None]

\* fdevent_install, which clears the whole structure, links included: of an
\* idle fdevent on a descriptor that was just opened, or of an auth_fde,
\* whatever its state, also on a descriptor that an auth_fde has.
fdevent_install(f, d) ==
  /\ user
  /\ active[f] => f \in AuthFdes
  /\ d \in open => f \in AuthFdes /\ \E g \in AuthFdes : fd[g] = d
  /\ open' = open \cup {d}
  /\ \/ files' = files
     \/ f \in FileFdes /\ d \notin open /\ files' = files \cup {d}
  /\ fd' = [fd EXCEPT ![f] = d]
  /\ mask' = [mask EXCEPT ![f] = IF f \in DontCloseFdes THEN {"DONT_CLOSE"} ELSE {}]
  /\ active' = [active EXCEPT ![f] = TRUE]
  /\ pending' = [pending EXCEPT ![f] = FALSE]
  /\ events' = [events EXCEPT ![f] = {}]
  /\ cut' = IF pending[f] THEN cut \cup {f} ELSE cut
  /\ fdevent_register(f, d)
  /\ foul' = foul \cup ({d} \cap open) \cup ({fd[f]} \ {None})
  /\ UNCHANGED <<plist, epoll, cb, cbevents, endVars>>

\* adb_close(t->fd) in transport_registration_func: the number may belong to
\* an fdevent by now.
adb_close(d) ==
  /\ OutsideClose
  /\ user
  /\ d \in open
  /\ open' = open \ {d}
  /\ files' = files \ {d}
  /\ epoll' = [epoll EXCEPT ![d] = NotWatched]
  /\ foul' = IF \E f \in Fdes : fd[f] = d THEN foul \cup {d} ELSE foul
  /\ UNCHANGED <<fdeVars, listVars, fd_table, cb, cbevents, endVars>>

\* Mutants: no DEL when the last event goes; ADD even when watched.
CtlOp_NoDel(old, new) ==
  IF new \cap Wanted # {} THEN (IF old # {} THEN "MOD" ELSE "ADD") ELSE "none"
CtlOp_AlwaysAdd(old, new) ==
  IF new \cap Wanted # {} THEN "ADD" ELSE (IF old # {} THEN "DEL" ELSE "none")

\* What fdevent_update asks of epoll_ctl, from the old state word.
CtlOp(old, new) ==
  IF new \cap Wanted # {} THEN (IF old # {} THEN "MOD" ELSE "ADD")
                          ELSE (IF old # {} THEN "DEL" ELSE "none")

\* epoll_ctl fails with EBADF, EPERM, EEXIST or ENOENT.
CtlFails(op, d) ==
  \/ op # "none" /\ (d \notin open \/ d \in files)
  \/ op = "ADD" /\ epoll[d] # NotWatched
  \/ op \in {"MOD", "DEL"} /\ epoll[d] = NotWatched

\* The list without f, and whose null links that repairs: those of the fdevent
\* before it, which is now followed by f's next one.
fdevent_plist_remove(f) == RemoveAt(plist, CHOOSE i \in DOMAIN plist : plist[i] = f)
before(f) == {plist[i] : i \in {k \in DOMAIN plist : k < Len(plist) /\ plist[k + 1] = f}}

\* fdevent_set, with fdevent_update; the events that f no longer wants stay
\* pending, the others are taken off the list.
fdevent_set(f, new) ==
  LET op == CtlOp(mask[f], new)
      left == events[f] \ new
      drop == pending[f] /\ left = {}
  IN
  /\ user
  /\ active[f]
  /\ new # mask[f]
  /\ IF CtlFails(op, fd[f])
       THEN /\ dead' = "epoll_ctl" /\ culprit' = f
            /\ UNCHANGED <<mask, pending, events, listVars, epoll>>
       ELSE /\ UNCHANGED endVars
            /\ mask' = [mask EXCEPT ![f] = new]
            /\ epoll' = IF op = "none" THEN epoll
                        ELSE [epoll EXCEPT ![fd[f]] =
                               IF op = "DEL" THEN NotWatched
                               ELSE [ptr |-> f, want |-> new \cap Wanted]]
            /\ events' = IF pending[f] THEN [events EXCEPT ![f] = left] ELSE events
            /\ pending' = IF drop THEN [pending EXCEPT ![f] = FALSE] ELSE pending
            /\ plist' = IF drop THEN fdevent_plist_remove(f) ELSE plist
            /\ cut' = IF drop THEN cut \ before(f) ELSE cut
  /\ UNCHANGED <<fd, active, fd_table, open, files, cb, cbevents, foul>>

fdevent_add(f, evs) == fdevent_set(f, mask[f] \cup evs)
fdevent_del(f, evs) == fdevent_set(f, mask[f] \ evs)

\* Mutant: the pending list is forgotten.
unlist_Forgotten(f) == UNCHANGED <<plist, cut, pending, events>>

\* fdevent_remove: off the pending list, state and events cleared.
unlist(f) ==
  /\ plist' = IF pending[f] THEN fdevent_plist_remove(f) ELSE plist
  /\ cut' = IF pending[f] THEN cut \ before(f) ELSE cut
  /\ pending' = [pending EXCEPT ![f] = FALSE]
  /\ events' = [events EXCEPT ![f] = {}]

\* fdevent_remove: EPOLL_CTL_DEL, fdevent_unregister with its check of
\* fd_table, close.  Closing also ends the kernel's interest.
fdevent_remove(f) ==
  LET closes == "DONT_CLOSE" \notin mask[f]
  IN
  /\ user
  /\ active[f]
  /\ IF fd_table[fd[f]] # f
       THEN /\ dead' = "fd_table" /\ culprit' = f
            /\ UNCHANGED <<fdeVars, listVars, fd_table, kernelVars>>
       ELSE /\ UNCHANGED endVars
            /\ unlist(f)
            /\ epoll' = [epoll EXCEPT ![fd[f]] = NotWatched]
            /\ open' = IF closes THEN open \ {fd[f]} ELSE open
            /\ files' = files \cap open'
            /\ fdevent_unregister(f)
            /\ fd' = [fd EXCEPT ![f] = None]
            /\ mask' = [mask EXCEPT ![f] = {}]
            /\ active' = [active EXCEPT ![f] = FALSE]
  /\ UNCHANGED <<cb, cbevents, foul>>

-----------------------------------------------------------------------------
(* The loop.                                                               *)

\* The running function returns; adb_main enters fdevent_loop.
return ==
  /\ cb \in Fdes \cup {None} /\ dead = "no"
  /\ cb' = "dispatch"
  /\ cbevents' = {}
  /\ UNCHANGED <<fdeVars, listVars, fd_table, kernelVars, ops, endVars, foul>>

\* The list is empty: fdevent_process is next.
drained ==
  /\ cb = "dispatch" /\ dead = "no" /\ plist = <<>>
  /\ cb' = "poll"
  /\ ops' = 0
  /\ UNCHANGED <<fdeVars, listVars, fd_table, kernelVars, cbevents, endVars, foul>>

\* fdevent_process: epoll_wait reports some watched descriptors, each with
\* events that are watched or an error, in any order.
fdevent_process ==
  /\ cb = "poll" /\ dead = "no"
  /\ \E D \in (SUBSET {d \in Fds : epoll[d] # NotWatched}) \ {{}} :
       \E ev \in [D -> (SUBSET Reported) \ {{}}] :
         LET ptrs == {epoll[d].ptr : d \in D}
             of(f) == UNION {ev[d] : d \in {x \in D : epoll[x].ptr = f}}
         IN /\ \A d \in D : ev[d] \subseteq epoll[d].want \cup {"ERROR"}
            /\ events' = [f \in Fdes |-> events[f] \cup of(f)]
            /\ pending' = [f \in Fdes |-> pending[f] \/ f \in ptrs]
            /\ \E order \in SetToSeqs({f \in ptrs : ~pending[f]}) : plist' = plist \o order
  /\ cb' = "dispatch"
  /\ UNCHANGED <<fd, mask, active, cut, fd_table, kernelVars, cbevents, ops, endVars, foul>>

\* fdevent_plist_dequeue, which follows the link of the first fdevent, and
\* fdevent_call_fdfunc, which looks at FDE_PENDING.
fdevent_call_fdfunc ==
  /\ cb = "dispatch" /\ dead = "no" /\ plist # <<>>
  /\ LET f == Head(plist) IN
       IF f \in cut
         THEN /\ dead' = "list" /\ culprit' = f
              /\ UNCHANGED <<plist, events, pending, cb, cbevents>>
         ELSE /\ plist' = Tail(plist)
              /\ events' = [events EXCEPT ![f] = {}]
              /\ pending' = [pending EXCEPT ![f] = FALSE]
              /\ cb' = IF pending[f] THEN f ELSE cb
              /\ cbevents' = IF pending[f] THEN events[f] ELSE cbevents
              /\ UNCHANGED endVars
  /\ UNCHANGED <<fd, mask, active, cut, fd_table, kernelVars, ops, foul>>

\* fdevent_subproc_event_func: the shell behind f is gone and its descriptor
\* has nothing to read, so its function is called at once, as the last step
\* of the running one; unless f is pending already.  fd_table leads to f.
fdevent_subproc_event_func(f) ==
  /\ user
  /\ "READ" \in cbevents
  /\ \E d \in Fds : fd_table[d] = f /\ fd[f] = d
  /\ IF pending[f]
       THEN /\ events' = [events EXCEPT ![f] = @ \cup {"READ"}]
            /\ UNCHANGED <<cb, cbevents>>
       ELSE /\ events' = [events EXCEPT ![f] = {}]
            /\ cb' = f
            /\ cbevents' = events[f] \cup {"READ"}
  /\ UNCHANGED <<fd, mask, active, pending, listVars, fd_table, kernelVars, endVars, foul>>

Next ==
  \/ \E f \in Fdes :
       \/ \E d \in Fds : fdevent_install(f, d)
       \/ \E evs \in SUBSET Wanted : fdevent_add(f, evs) \/ fdevent_del(f, evs)
       \/ fdevent_remove(f)
       \/ fdevent_subproc_event_func(f)
  \/ \E d \in Fds : adb_close(d)
  \/ return
  \/ drained
  \/ fdevent_process
  \/ fdevent_call_fdfunc

Spec == Init /\ [][Next]_vars

-----------------------------------------------------------------------------
(* Properties.                                                             *)

\* list_pending holds exactly the fdevents marked FDE_PENDING, once each, and
\* only installed ones: fdevent_remove and fdevent_set take the others off
\* while the list is being worked through, so no function of a removed (and
\* freed) fdevent is ever reached from it.  An auth_fde that was installed
\* again while it was pending stays on the list unmarked, and one that was
\* removed may be queued by the descriptor it had before.
PendingListed ==
  /\ IsInjective(plist)
  /\ \A f \in Fdes :
       /\ pending[f] => f \in ToSet(plist) /\ events[f] # {}
       /\ f \notin AuthFdes => (f \in ToSet(plist) => pending[f]) /\ (pending[f] => active[f])

\* The kernel watches, for each installed fdevent, exactly the events in its
\* state word, and watches nothing else: no wanted event is missed and no
\* event names a freed fdevent.  Only on a descriptor that was closed, shared
\* or abandoned behind its fdevent's back may the two differ.
EpollInStep ==
  /\ \A f \in Fdes : active[f] /\ fd[f] \notin foul =>
       epoll[fd[f]] = IF mask[f] \cap Wanted = {} THEN NotWatched
                      ELSE [ptr |-> f, want |-> mask[f] \cap Wanted]
  /\ \A d \in Fds \ foul : epoll[d] # NotWatched =>
       d \in open /\ active[epoll[d].ptr] /\ fd[epoll[d].ptr] = d

\* With the same exception, two installed fdevents never share a descriptor,
\* and fd_table, the base of the shell-exit lookup, knows each of them.
TableInStep ==
  \A f \in Fdes : active[f] /\ fd[f] \notin foul => fd[f] \in open /\ fd_table[fd[f]] = f

\* The three records of what is installed agree: list_pending, the kernel's
\* epoll set and fd_table.
LoopInStep == TypeOK /\ PendingListed /\ EpollInStep /\ TableInStep

\* fdevent.c ends the daemon ("perror(epoll_ctl); exit(1)" in fdevent_update,
\* "fd_table out of sync" in fdevent_unregister, a null link of list_pending)
\* only on account of one of four callers: epoll_ctl fails on a JDWP process,
\* on a stream of "dev:", or on a descriptor that was closed, shared or
\* abandoned behind an fdevent's back; fd_table is out of sync only on such a
\* descriptor; and the null link is an auth_fde's.  No order of installing,
\* setting and removing fdevents does it otherwise.
FatalOnlyByCallers ==
  /\ dead = "epoll_ctl" => culprit \in DontCloseFdes \cup FileFdes \/ fd[culprit] \in foul
  /\ dead = "fd_table" => fd[culprit] \in foul
  /\ dead = "list" => culprit \in AuthFdes

\* epoll_ctl never fails ("perror(epoll_ctl); exit(1)" in fdevent_update), and
\* fd_table is never "out of sync" (fdevent_unregister).
NeverFatal == dead = "no"

\* A function is called only on an installed fdevent and with some event; an
\* auth_fde may be reached from a descriptor it no longer has.
CallsAreLive ==
  [][\A f \in Fdes \ AuthFdes : (cb # f /\ cb' = f) => active[f] /\ cbevents' # {}]_vars
=============================================================================
