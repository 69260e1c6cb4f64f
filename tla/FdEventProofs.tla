---------------------------- MODULE FdEventProofs ----------------------------
(***************************************************************************)
(* Proofs about FdEvent, for any sets of fdevents and descriptors.  The    *)
(* agreement of list_pending, epoll and fd_table is almost inductive as it *)
(* stands; what has to be added is whom the kernel may name on a           *)
(* descriptor that was closed, shared or abandoned behind its fdevent's    *)
(* back, where the flag FDE_DONT_CLOSE and the files that cannot be polled *)
(* come from, and that the pending list is empty before epoll_wait.        *)
(***************************************************************************)
EXTENDS FdEvent, Integers, TLAPS, FiniteSetTheorems, SequenceTheorems

-----------------------------------------------------------------------------
(* The inductive invariant.                                                *)

\* On every descriptor, foul or not, the kernel names an fdevent, and an
\* installed one with that descriptor unless it is an auth_fde; it watches
\* open descriptors only.
Named ==
  \A d \in Fds : epoll[d] # NotWatched =>
    /\ d \in open /\ epoll[d].ptr \in Fdes
    /\ epoll[d].ptr \notin AuthFdes => active[epoll[d].ptr] /\ fd[epoll[d].ptr] = d

\* What each of the four callers can have done.
Callers ==
  /\ \A f \in Fdes : active[f] <=> fd[f] # None
  /\ \A f \in Fdes : "DONT_CLOSE" \in mask[f] => f \in DontCloseFdes
  /\ \A f \in Fdes : fd[f] \in files /\ fd[f] \notin foul => f \in FileFdes
  /\ cut \subseteq AuthFdes

\* fdevent_process finds the list empty.
Drained == cb = "poll" => plist = <<>>

IInv == LoopInStep /\ Named /\ Callers /\ Drained /\ FatalOnlyByCallers

-----------------------------------------------------------------------------
(* The pending list.                                                       *)

\* RemoveAt closes the gap.
LEMMA Removed ==
  ASSUME NEW S, NEW q \in Seq(S), NEW k \in 1..Len(q)
  PROVE  /\ RemoveAt(q, k) \in Seq(S)
         /\ DOMAIN RemoveAt(q, k) = 1..(Len(q) - 1)
         /\ \A j \in 1..(Len(q) - 1) : RemoveAt(q, k)[j] = IF j < k THEN q[j] ELSE q[j + 1]
<1> DEFINE a == SubSeq(q, 1, k - 1)
           b == SubSeq(q, k + 1, Len(q))
<1>0. Len(q) \in Nat
  BY LenProperties
<1>1. a \in Seq(S) /\ Len(a) = k - 1 /\ \A i \in 1..(k - 1) : a[i] = q[i]
  BY <1>0, SubSeqProperties
<1>2. b \in Seq(S) /\ Len(b) = Len(q) - k /\ \A i \in 1..(Len(q) - k) : b[i] = q[k + i]
  BY <1>0, SubSeqProperties
<1> HIDE DEF a, b
<1>3. /\ a \o b \in Seq(S) /\ Len(a \o b) = Len(q) - 1
      /\ \A j \in 1..(Len(q) - 1) : (a \o b)[j] = IF j <= k - 1 THEN a[j] ELSE b[j - (k - 1)]
  BY <1>0, <1>1, <1>2, ConcatProperties
<1>4. RemoveAt(q, k) = a \o b
  BY DEF RemoveAt, a, b
<1>5. ASSUME NEW j \in 1..(Len(q) - 1) PROVE (a \o b)[j] = IF j < k THEN q[j] ELSE q[j + 1]
  BY <1>0, <1>1, <1>2, <1>3
<1> QED BY <1>0, <1>3, <1>4, <1>5, LenProperties

\* What fdevent_plist_remove leaves.
LEMMA PlistRemoved ==
  ASSUME plist \in Seq(Fdes), IsInjective(plist), NEW f \in ToSet(plist)
  PROVE  /\ fdevent_plist_remove(f) \in Seq(Fdes)
         /\ IsInjective(fdevent_plist_remove(f))
         /\ ToSet(fdevent_plist_remove(f)) = ToSet(plist) \ {f}
<1> DEFINE k == CHOOSE i \in DOMAIN plist : plist[i] = f
           q == RemoveAt(plist, k)
           n == Len(plist)
<1>0. n \in Nat /\ DOMAIN plist = 1..n
  BY LenProperties
<1>1. k \in 1..n /\ plist[k] = f
  BY <1>0 DEF ToSet
<1>2. q \in Seq(Fdes) /\ DOMAIN q = 1..(n - 1)
      /\ \A j \in 1..(n - 1) : q[j] = IF j < k THEN plist[j] ELSE plist[j + 1]
  <2> HIDE DEF k
  <2> QED BY <1>1, Removed
<1>3. fdevent_plist_remove(f) = q
  BY DEF fdevent_plist_remove
<1> HIDE DEF k, q
<1>i. \A i, j \in 1..n : plist[i] = plist[j] => i = j
  BY <1>0 DEF IsInjective
<1> HIDE DEF n
<1>4. ASSUME NEW i \in 1..(n - 1), NEW j \in 1..(n - 1), q[i] = q[j] PROVE i = j
  BY <1>0, <1>1, <1>2, <1>4, <1>i
<1>5. ASSUME NEW i \in 1..(n - 1) PROVE q[i] # f /\ \E j \in 1..n : plist[j] = q[i]
  <2>1. CASE i < k
    BY <1>0, <1>1, <1>2, <1>i, <2>1
  <2>2. CASE ~(i < k)
    BY <1>0, <1>1, <1>2, <1>i, <2>2
  <2> QED BY <2>1, <2>2
<1>6. ASSUME NEW j \in 1..n, plist[j] # f PROVE \E i \in 1..(n - 1) : q[i] = plist[j]
  <2>1. CASE j < k
    BY <1>0, <1>1, <1>2, <2>1
  <2>2. CASE ~(j < k)
    <3>1. j - 1 \in 1..(n - 1) /\ ~(j - 1 < k)
      BY <1>0, <1>1, <1>6, <2>2
    <3> QED BY <1>2, <3>1
  <2> QED BY <2>1, <2>2
<1>7. IsInjective(q)
  BY <1>2, <1>4 DEF IsInjective
<1>8. ToSet(q) \subseteq ToSet(plist) \ {f}
  BY <1>0, <1>2, <1>5 DEF ToSet
<1>9. ToSet(plist) \ {f} \subseteq ToSet(q)
  BY <1>0, <1>2, <1>6, SMTT(30) DEF ToSet
<1>10. ToSet(q) = ToSet(plist) \ {f}
  BY <1>8, <1>9, Zenon
<1> QED BY <1>2, <1>3, <1>7, <1>10

\* An order of a finite set has each of its elements once.
LEMMA Enumerated ==
  ASSUME NEW S, IsFiniteSet(S), NEW q \in SetToSeqs(S)
  PROVE  q \in Seq(S) /\ IsInjective(q) /\ ToSet(q) = S
<1> DEFINE n == Cardinality(S)
<1>1. n \in Nat
  BY FS_CardinalityType
<1>2. q \in [1..n -> S] /\ \A i, j \in 1..n : i # j => q[i] # q[j]
  BY Zenon DEF SetToSeqs
<1> HIDE DEF n
<1>3. q \in Seq(S)
  BY <1>1, <1>2, SeqDef
<1>4. IsInjective(q)
  BY <1>2 DEF IsInjective
<1>5. q \in Injection(1..n, S)
  BY <1>2 DEF Injection, IsInjective
<1>6. IsFiniteSet(1..n) /\ Cardinality(1..n) = n
  BY <1>1, FS_Interval
<1>7. q \in Surjection(1..n, S)
  BY <1>5, <1>6, FS_Injection DEF n
<1>8. ToSet(q) = S
  BY <1>2, <1>7 DEF ToSet, Surjection
<1> QED BY <1>3, <1>4, <1>8

\* Dequeuing the first fdevent.
LEMMA Dequeued ==
  ASSUME NEW S, NEW q \in Seq(S), q # <<>>, IsInjective(q)
  PROVE  /\ Head(q) \in S /\ Head(q) \in ToSet(q)
         /\ Tail(q) \in Seq(S) /\ IsInjective(Tail(q))
         /\ ToSet(Tail(q)) = ToSet(q) \ {Head(q)}
<1> DEFINE n == Len(q)
           r == Tail(q)
<1>1. /\ Head(q) = q[1] /\ Head(q) \in S /\ r \in Seq(S)
      /\ n \in Nat \ {0} /\ DOMAIN r = 1..(n - 1) /\ \A i \in 1..(n - 1) : r[i] = q[i + 1]
  BY HeadTailProperties, EmptySeq, LenProperties
<1>2. DOMAIN q = 1..n
  BY LenProperties
<1>3. \A i, j \in 1..n : q[i] = q[j] => i = j
  BY <1>2 DEF IsInjective
<1> HIDE DEF n, r
<1>4. \A i, j \in 1..(n - 1) : r[i] = r[j] => i = j
  <2>1. ASSUME NEW i \in 1..(n - 1), NEW j \in 1..(n - 1), r[i] = r[j] PROVE i = j
    <3>1. i + 1 \in 1..n /\ j + 1 \in 1..n /\ q[i + 1] = q[j + 1]
      BY <1>1, <2>1
    <3>2. i + 1 = j + 1
      BY <1>3, <3>1
    <3> QED BY <3>2
  <2> QED BY <2>1
<1>5. \A i \in 1..(n - 1) : r[i] \in ToSet(q) /\ r[i] # q[1]
  BY <1>1, <1>2, <1>3 DEF ToSet
<1>6. ASSUME NEW i \in 1..n, q[i] # q[1] PROVE q[i] \in ToSet(r)
  <2>1. i - 1 \in 1..(n - 1) /\ r[i - 1] = q[i]
    BY <1>1, <1>6
  <2> QED BY <1>1, <2>1 DEF ToSet
<1>7. ToSet(r) = ToSet(q) \ {q[1]}
  BY <1>1, <1>2, <1>5, <1>6, ZenonT(60) DEF ToSet
<1>8. q[1] \in ToSet(q)
  BY <1>1, <1>2 DEF ToSet
<1> QED BY <1>1, <1>4, <1>7, <1>8 DEF r, IsInjective

-----------------------------------------------------------------------------
(* The invariant holds at the start and every step keeps it.               *)

LEMMA InitInv == Init => IInv
<1> SUFFICES ASSUME Init PROVE IInv
  OBVIOUS
<1>1. TypeOK
  <2>1. /\ fd \in [Fdes -> Fds \cup {None}]
        /\ mask \in [Fdes -> SUBSET EventMask]
        /\ active \in [Fdes -> BOOLEAN]
        /\ pending \in [Fdes -> BOOLEAN]
        /\ events \in [Fdes -> SUBSET Reported]
    BY DEF Init, Free
  <2>2. NotWatched \in [ptr : Fdes \cup {None}, want : SUBSET Wanted]
    BY DEF NotWatched
  <2>3. epoll \in [Fds -> [ptr : Fdes \cup {None}, want : SUBSET Wanted]]
    BY <2>2 DEF Init
  <2>4. /\ plist \in Seq(Fdes) /\ cut \subseteq Fdes
        /\ fd_table \in [Fds -> Fdes \cup {None}]
        /\ open \subseteq Fds /\ files \subseteq open /\ foul \subseteq Fds
        /\ cb \in Fdes \cup {None, "poll", "dispatch"}
        /\ cbevents \in SUBSET Reported
        /\ ops \in 0..MaxOps
        /\ dead \in {"no", "epoll_ctl", "fd_table", "list"}
        /\ culprit \in Fdes \cup {None}
    BY FdEventAssumption DEF Init
  <2> QED BY <2>1, <2>3, <2>4 DEF TypeOK
<1>2. PendingListed
  <2>1. IsInjective(plist) /\ ToSet(plist) = {}
    BY DEF Init, IsInjective, ToSet
  <2> QED BY <2>1 DEF Init, Free, PendingListed
<1>3. EpollInStep /\ TableInStep
  BY DEF Init, Free, EpollInStep, TableInStep
<1>4. Named /\ Callers /\ Drained /\ FatalOnlyByCallers
  BY DEF Init, Free, Named, Callers, Drained, FatalOnlyByCallers
<1> QED BY <1>1, <1>2, <1>3, <1>4 DEF IInv, LoopInStep

\* What the invariant says, and what an installed fdevent has.
LEMMA Installed ==
  ASSUME IInv
  PROVE  /\ TypeOK /\ PendingListed /\ EpollInStep /\ TableInStep
         /\ Named /\ Callers /\ Drained /\ FatalOnlyByCallers
         /\ \A f \in Fdes : active[f] <=> fd[f] \in Fds
         /\ \A f \in Fdes : active[f] /\ fd[f] \notin foul => fd[f] \in open /\ fd_table[fd[f]] = f
<1>1. /\ TypeOK /\ PendingListed /\ EpollInStep /\ TableInStep
      /\ Named /\ Callers /\ Drained /\ FatalOnlyByCallers
  BY DEF IInv, LoopInStep
<1>2. \A f \in Fdes : active[f] <=> fd[f] \in Fds
  BY <1>1, FdEventAssumption DEF TypeOK, Callers
<1> QED BY <1>1, <1>2 DEF TableInStep

LEMMA InstallInv ==
  ASSUME IInv, NEW f \in Fdes, NEW d \in Fds, fdevent_install(f, d)
  PROVE  IInv'
<1>0. /\ TypeOK /\ PendingListed /\ EpollInStep /\ TableInStep
      /\ Named /\ Callers /\ Drained /\ FatalOnlyByCallers
  BY Installed
<1>t. /\ \A g \in Fdes : active[g] <=> fd[g] \in Fds
      /\ \A g \in Fdes : active[g] /\ fd[g] \notin foul => fd[g] \in open /\ fd_table[fd[g]] = g
  BY Installed
<1>1. /\ active[f] => f \in AuthFdes
      /\ cb \in Fdes \cup {None} /\ dead = "no" /\ ops' = ops + 1 /\ ops < MaxOps
      /\ open' = open \cup {d}
      /\ \/ files' = files
         \/ f \in FileFdes /\ d \notin open /\ files' = files \cup {d}
      /\ fd' = [fd EXCEPT ![f] = d]
      /\ mask' = [mask EXCEPT ![f] = IF f \in DontCloseFdes THEN {"DONT_CLOSE"} ELSE {}]
      /\ active' = [active EXCEPT ![f] = TRUE]
      /\ pending' = [pending EXCEPT ![f] = FALSE]
      /\ events' = [events EXCEPT ![f] = {}]
      /\ cut' = IF pending[f] THEN cut \cup {f} ELSE cut
      /\ fd_table' = [fd_table EXCEPT ![d] = f]
      /\ foul' = foul \cup ({d} \cap open) \cup ({fd[f]} \ {None})
      /\ UNCHANGED <<plist, epoll, cb, cbevents, dead, culprit>>
  BY DEF fdevent_install, user, fdevent_register, endVars
<1>p. pending[f] => f \in AuthFdes
  BY <1>0, <1>1 DEF PendingListed
<1>2. TypeOK'
  <2>1. ops' \in 0..MaxOps
    BY <1>0, <1>1, FdEventAssumption DEF TypeOK
  <2>2. mask' \in [Fdes -> SUBSET EventMask]
    BY <1>0, <1>1 DEF TypeOK, EventMask
  <2>3. foul' \subseteq Fds /\ cut' \subseteq Fdes /\ files' \subseteq open' /\ open' \subseteq Fds
    BY <1>0, <1>1 DEF TypeOK
  <2>4. /\ fd' \in [Fdes -> Fds \cup {None}] /\ active' \in [Fdes -> BOOLEAN]
        /\ pending' \in [Fdes -> BOOLEAN] /\ events' \in [Fdes -> SUBSET Reported]
        /\ fd_table' \in [Fds -> Fdes \cup {None}]
    BY <1>0, <1>1 DEF TypeOK
  <2> QED BY <1>0, <1>1, <2>1, <2>2, <2>3, <2>4 DEF TypeOK
<1>3. PendingListed'
  <2>1. ASSUME NEW g \in Fdes
        PROVE  /\ pending'[g] => g \in ToSet(plist) /\ events'[g] # {}
               /\ g \notin AuthFdes =>
                    (g \in ToSet(plist) => pending'[g]) /\ (pending'[g] => active'[g])
    <3>1. CASE g = f
      BY <1>0, <1>1, <1>p, <3>1 DEF TypeOK, PendingListed
    <3>2. CASE g # f
      <4>1. pending'[g] = pending[g] /\ events'[g] = events[g] /\ active'[g] = active[g]
        BY <1>0, <1>1, <3>2 DEF TypeOK
      <4> QED BY <1>0, <4>1 DEF PendingListed
    <3> QED BY <3>1, <3>2
  <2> QED BY <1>0, <1>1, <2>1 DEF PendingListed
<1>4. ASSUME NEW g \in Fdes, g # f, active'[g], fd'[g] \notin foul'
      PROVE  /\ active[g] /\ fd'[g] = fd[g] /\ mask'[g] = mask[g]
             /\ fd[g] \notin foul /\ fd[g] # d /\ fd[g] \in open
  <2>1. active[g] /\ fd'[g] = fd[g] /\ mask'[g] = mask[g] /\ fd[g] \notin foul
    BY <1>0, <1>1, <1>4 DEF TypeOK
  <2>2. fd[g] \in open
    BY <1>t, <2>1
  <2> QED BY <1>1, <1>4, <2>1, <2>2
<1>5. mask'[f] \cap Wanted = {} /\ fd'[f] = d /\ active'[f]
  BY <1>0, <1>1 DEF TypeOK, Wanted
<1>6. EpollInStep'
  <2>1. ASSUME NEW g \in Fdes, active'[g], fd'[g] \notin foul'
        PROVE  epoll'[fd'[g]] = IF mask'[g] \cap Wanted = {} THEN NotWatched
                                ELSE [ptr |-> g, want |-> mask'[g] \cap Wanted]
    <3>1. CASE g = f
      <4>1. d \notin open
        BY <1>1, <1>5, <2>1, <3>1
      <4>2. epoll[d] = NotWatched
        BY <1>0, <4>1 DEF Named
      <4> QED BY <1>1, <1>5, <3>1, <4>2
    <3>2. CASE g # f
      BY <1>0, <1>1, <1>4, <2>1, <3>2 DEF EpollInStep
    <3> QED BY <3>1, <3>2
  <2>2. ASSUME NEW e \in Fds \ foul', epoll'[e] # NotWatched
        PROVE  e \in open' /\ active'[epoll'[e].ptr] /\ fd'[epoll'[e].ptr] = e
    <3>1. /\ e \notin foul /\ epoll'[e] = epoll[e] /\ e \in open
          /\ active[epoll[e].ptr] /\ fd[epoll[e].ptr] = e /\ epoll[e].ptr \in Fdes
      BY <1>0, <1>1, <2>2 DEF EpollInStep, Named
    <3>2. epoll[e].ptr # f
      BY <1>1, <2>2, <3>1, FdEventAssumption
    <3> QED BY <1>0, <1>1, <3>1, <3>2 DEF TypeOK
  <2> QED BY <2>1, <2>2 DEF EpollInStep
<1>7. TableInStep'
  <2>1. ASSUME NEW g \in Fdes, active'[g], fd'[g] \notin foul'
        PROVE  fd'[g] \in open' /\ fd_table'[fd'[g]] = g
    <3>1. CASE g = f
      BY <1>0, <1>1, <1>5, <3>1 DEF TypeOK
    <3>2. CASE g # f
      <4>1. fd[g] \in Fds /\ fd_table[fd[g]] = g
        BY <1>t, <1>4, <2>1, <3>2
      <4> QED BY <1>0, <1>1, <1>4, <2>1, <3>2, <4>1 DEF TypeOK
    <3> QED BY <3>1, <3>2
  <2> QED BY <2>1 DEF TableInStep
<1>8. Named'
  <2>1. ASSUME NEW e \in Fds, epoll'[e] # NotWatched
        PROVE  /\ e \in open' /\ epoll'[e].ptr \in Fdes
               /\ epoll'[e].ptr \notin AuthFdes => active'[epoll'[e].ptr] /\ fd'[epoll'[e].ptr] = e
    <3>1. /\ epoll'[e] = epoll[e] /\ e \in open /\ epoll[e].ptr \in Fdes
          /\ epoll[e].ptr \notin AuthFdes => active[epoll[e].ptr] /\ fd[epoll[e].ptr] = e
      BY <1>0, <1>1, <2>1 DEF Named
    <3>2. epoll[e].ptr \notin AuthFdes => epoll[e].ptr # f
      BY <1>1, <3>1
    <3> QED BY <1>0, <1>1, <3>1, <3>2 DEF TypeOK
  <2> QED BY <2>1 DEF Named
<1>9. Callers'
  <2>1. \A g \in Fdes : active'[g] <=> fd'[g] # None
    BY <1>0, <1>1, FdEventAssumption DEF TypeOK, Callers
  <2>2. \A g \in Fdes : "DONT_CLOSE" \in mask'[g] => g \in DontCloseFdes
    BY <1>0, <1>1 DEF TypeOK, Callers
  <2>3. ASSUME NEW g \in Fdes, fd'[g] \in files', fd'[g] \notin foul' PROVE g \in FileFdes
    <3>1. CASE g = f
      BY <1>0, <1>1, <1>5, <2>3, <3>1 DEF TypeOK
    <3>2. CASE g # f
      <4>1. fd'[g] = fd[g] /\ fd[g] \in Fds
        BY <1>0, <1>1, <2>3, <3>2 DEF TypeOK
      <4>2. active'[g]
        BY <1>0, <1>1, <1>t, <3>2, <4>1 DEF TypeOK
      <4>3. fd[g] \in files /\ fd[g] \notin foul
        BY <1>1, <1>4, <2>3, <3>2, <4>1, <4>2
      <4> QED BY <1>0, <4>3 DEF Callers
    <3> QED BY <3>1, <3>2
  <2>4. cut' \subseteq AuthFdes
    BY <1>0, <1>1, <1>p DEF Callers
  <2> QED BY <2>1, <2>2, <2>3, <2>4 DEF Callers
<1>10. Drained' /\ FatalOnlyByCallers'
  BY <1>1, FdEventAssumption DEF Drained, FatalOnlyByCallers
<1> QED BY <1>2, <1>3, <1>6, <1>7, <1>8, <1>9, <1>10 DEF IInv, LoopInStep

\* Main closes a number from outside: whoever has it is on a foul descriptor.
LEMMA CloseInv ==
  ASSUME IInv, NEW d \in Fds, adb_close(d)
  PROVE  IInv'
<1>0. /\ TypeOK /\ PendingListed /\ EpollInStep /\ TableInStep
      /\ Named /\ Callers /\ Drained /\ FatalOnlyByCallers
  BY Installed
<1>1. /\ cb \in Fdes \cup {None} /\ dead = "no" /\ ops' = ops + 1 /\ ops < MaxOps
      /\ open' = open \ {d} /\ files' = files \ {d}
      /\ epoll' = [epoll EXCEPT ![d] = NotWatched]
      /\ foul' = IF \E f \in Fdes : fd[f] = d THEN foul \cup {d} ELSE foul
      /\ UNCHANGED <<fd, mask, active, pending, events, plist, cut, fd_table, cb, cbevents, dead, culprit>>
  BY DEF adb_close, user, fdeVars, listVars, endVars
<1>2. TypeOK'
  <2>1. NotWatched \in [ptr : Fdes \cup {None}, want : SUBSET Wanted]
    BY DEF NotWatched
  <2>2. epoll' \in [Fds -> [ptr : Fdes \cup {None}, want : SUBSET Wanted]]
    BY <1>0, <1>1, <2>1 DEF TypeOK
  <2>3. ops' \in 0..MaxOps
    BY <1>0, <1>1, FdEventAssumption DEF TypeOK
  <2>4. open' \subseteq Fds /\ files' \subseteq open' /\ foul' \subseteq Fds
    BY <1>0, <1>1 DEF TypeOK
  <2> QED BY <1>0, <1>1, <2>2, <2>3, <2>4 DEF TypeOK
<1>3. ASSUME NEW f \in Fdes, fd[f] \notin foul' PROVE fd[f] # d /\ fd[f] \notin foul
  BY <1>1, <1>3
<1>4. /\ epoll'[d] = NotWatched
      /\ \A e \in Fds : e # d => epoll'[e] = epoll[e]
  BY <1>0, <1>1 DEF TypeOK
<1>5. EpollInStep'
  <2>1. ASSUME NEW g \in Fdes, active[g], fd[g] \notin foul'
        PROVE  epoll'[fd[g]] = IF mask[g] \cap Wanted = {} THEN NotWatched
                               ELSE [ptr |-> g, want |-> mask[g] \cap Wanted]
    <3>1. fd[g] \in Fds
      BY <2>1, Installed
    <3> QED BY <1>0, <1>3, <1>4, <2>1, <3>1 DEF EpollInStep
  <2>2. ASSUME NEW e \in Fds \ foul', epoll'[e] # NotWatched
        PROVE  e \in open' /\ active[epoll'[e].ptr] /\ fd[epoll'[e].ptr] = e
    <3>1. e # d /\ e \notin foul /\ epoll'[e] = epoll[e]
      BY <1>1, <1>4, <2>2
    <3> QED BY <1>0, <1>1, <2>2, <3>1 DEF EpollInStep
  <2> QED BY <1>1, <2>1, <2>2 DEF EpollInStep
<1>6. PendingListed' /\ TableInStep'
  BY <1>0, <1>1, <1>3 DEF PendingListed, TableInStep
<1>7. Named'
  <2>1. ASSUME NEW e \in Fds, epoll'[e] # NotWatched
        PROVE  /\ e \in open' /\ epoll'[e].ptr \in Fdes
               /\ epoll'[e].ptr \notin AuthFdes => active[epoll'[e].ptr] /\ fd[epoll'[e].ptr] = e
    BY <1>0, <1>1, <1>4, <2>1 DEF Named
  <2> QED BY <1>1, <2>1 DEF Named
<1>8. Callers' /\ Drained' /\ FatalOnlyByCallers'
  BY <1>0, <1>1, <1>3 DEF Callers, Drained, FatalOnlyByCallers
<1> QED BY <1>2, <1>5, <1>6, <1>7, <1>8 DEF IInv, LoopInStep

\* fdevent_update keeps the kernel in step with the state word of an fdevent
\* whose descriptor is not foul, unless FDE_DONT_CLOSE made it take the fdevent
\* for a watched one or the descriptor cannot be polled.
LEMMA UpdateInStep ==
  ASSUME IInv, NEW f \in Fdes, active[f], NEW new \in SUBSET EventMask
  PROVE  /\ CtlFails(CtlOp(mask[f], new), fd[f]) =>
              f \in DontCloseFdes \cup FileFdes \/ fd[f] \in foul
         /\ ~CtlFails(CtlOp(mask[f], new), fd[f]) =>
              /\ CtlOp(mask[f], new) = "none" =>
                   new \cap Wanted = {} /\ (fd[f] \notin foul => epoll[fd[f]] = NotWatched)
              /\ CtlOp(mask[f], new) # "none" => fd[f] \in open
         /\ CtlOp(mask[f], new) \in {"MOD", "ADD"} <=> new \cap Wanted # {}
         /\ CtlOp(mask[f], new) \in {"MOD", "ADD", "DEL", "none"}
<1>0. TypeOK /\ EpollInStep /\ Callers /\ fd[f] \in Fds /\ (fd[f] \notin foul => fd[f] \in open)
  BY Installed
<1>1. mask[f] \subseteq EventMask
  BY <1>0 DEF TypeOK
<1>2. ASSUME fd[f] \notin foul
      PROVE  /\ mask[f] \cap Wanted = {} => epoll[fd[f]] = NotWatched
             /\ mask[f] \cap Wanted # {} => epoll[fd[f]] # NotWatched
  <2>1. mask[f] \cap Wanted # {} => [ptr |-> f, want |-> mask[f] \cap Wanted] # NotWatched
    BY DEF NotWatched
  <2> QED BY <1>0, <1>2, <2>1 DEF EpollInStep
<1>3. ASSUME f \notin DontCloseFdes PROVE mask[f] # {} => mask[f] \cap Wanted # {}
  <2>1. "DONT_CLOSE" \notin mask[f]
    BY <1>0, <1>3 DEF Callers
  <2> QED BY <1>1, <2>1 DEF EventMask
<1>4. mask[f] = {} => mask[f] \cap Wanted = {}
  OBVIOUS
<1>f. fd[f] \in files => f \in FileFdes \/ fd[f] \in foul
  BY <1>0 DEF Callers
<1>5. CtlFails(CtlOp(mask[f], new), fd[f]) => f \in DontCloseFdes \cup FileFdes \/ fd[f] \in foul
  BY <1>0, <1>2, <1>3, <1>4, <1>f DEF CtlFails, CtlOp
<1>6. ~CtlFails(CtlOp(mask[f], new), fd[f]) /\ CtlOp(mask[f], new) # "none" => fd[f] \in open
  BY DEF CtlFails
<1> QED BY <1>2, <1>4, <1>5, <1>6 DEF CtlOp

LEMMA SetInv ==
  ASSUME IInv, NEW f \in Fdes, NEW new \in SUBSET EventMask,
         "DONT_CLOSE" \in new => "DONT_CLOSE" \in mask[f],
         fdevent_set(f, new)
  PROVE  IInv'
<1>0. /\ TypeOK /\ PendingListed /\ EpollInStep /\ TableInStep
      /\ Named /\ Callers /\ Drained /\ FatalOnlyByCallers
  BY Installed
<1> DEFINE op == CtlOp(mask[f], new)
           d == fd[f]
           left == events[f] \ new
           drop == pending[f] /\ left = {}
           seen == IF new \cap Wanted = {} THEN NotWatched
                   ELSE [ptr |-> f, want |-> new \cap Wanted]
<1>1. /\ active[f] /\ cb \in Fdes \cup {None} /\ dead = "no" /\ ops < MaxOps /\ ops' = ops + 1
      /\ UNCHANGED <<fd, active, fd_table, open, files, cb, cbevents, foul>>
  BY DEF fdevent_set, user
<1>o. ops' \in 0..MaxOps
  BY <1>0, <1>1, FdEventAssumption DEF TypeOK
<1>d. d \in Fds
  BY <1>1, Installed
<1>2. CASE CtlFails(op, d)
  <2>1. dead' = "epoll_ctl" /\ culprit' = f /\ UNCHANGED <<mask, pending, events, plist, cut, epoll>>
    BY <1>2 DEF fdevent_set, listVars
  <2>2. f \in DontCloseFdes \cup FileFdes \/ d \in foul
    BY <1>1, <1>2, UpdateInStep
  <2>3. TypeOK'
    BY <1>0, <1>1, <1>o, <2>1 DEF TypeOK
  <2>4. PendingListed' /\ EpollInStep' /\ TableInStep' /\ Named'
    BY <1>0, <1>1, <2>1 DEF PendingListed, EpollInStep, TableInStep, Named
  <2>5. Callers' /\ Drained'
    BY <1>0, <1>1, <2>1 DEF Callers, Drained
  <2>6. FatalOnlyByCallers'
    BY <1>1, <2>1, <2>2 DEF FatalOnlyByCallers
  <2> QED BY <2>3, <2>4, <2>5, <2>6 DEF IInv, LoopInStep
<1>3. CASE ~CtlFails(op, d)
  <2>1. /\ UNCHANGED <<dead, culprit>>
        /\ mask' = [mask EXCEPT ![f] = new]
        /\ epoll' = IF op = "none" THEN epoll
                    ELSE [epoll EXCEPT ![d] = IF op = "DEL" THEN NotWatched
                                              ELSE [ptr |-> f, want |-> new \cap Wanted]]
        /\ events' = IF pending[f] THEN [events EXCEPT ![f] = left] ELSE events
        /\ pending' = IF drop THEN [pending EXCEPT ![f] = FALSE] ELSE pending
        /\ plist' = IF drop THEN fdevent_plist_remove(f) ELSE plist
        /\ cut' \subseteq cut
    BY <1>3 DEF fdevent_set, endVars
  <2>2. /\ epoll' = [epoll EXCEPT ![d] = epoll'[d]]
        /\ epoll'[d] # epoll[d] => epoll'[d] = seen /\ d \in open
        /\ d \notin foul => epoll'[d] = seen
    <3>1. /\ op = "none" => new \cap Wanted = {} /\ (d \notin foul => epoll[d] = NotWatched)
          /\ op # "none" => d \in open
          /\ op \in {"MOD", "ADD"} <=> new \cap Wanted # {}
          /\ op \in {"MOD", "ADD", "DEL", "none"}
      BY <1>1, <1>3, UpdateInStep
    <3> HIDE DEF op
    <3>2. CASE op = "none"
      <4>1. epoll' = epoll /\ epoll = [epoll EXCEPT ![d] = epoll[d]]
        BY <1>0, <1>d, <2>1, <3>2 DEF TypeOK
      <4> QED BY <3>1, <3>2, <4>1
    <3>3. CASE op = "DEL"
      <4>1. epoll' = [epoll EXCEPT ![d] = NotWatched] /\ epoll'[d] = NotWatched
        BY <1>0, <1>d, <2>1, <3>3 DEF TypeOK
      <4> QED BY <3>1, <3>3, <4>1
    <3>4. CASE op \in {"MOD", "ADD"}
      <4> DEFINE r == [ptr |-> f, want |-> new \cap Wanted]
      <4>1. epoll' = [epoll EXCEPT ![d] = r]
        BY <2>1, <3>4
      <4>2. r = seen
        BY <3>1, <3>4
      <4> HIDE DEF r, seen
      <4>3. epoll'[d] = r
        BY <1>0, <1>d, <4>1 DEF TypeOK
      <4> QED BY <3>1, <3>4, <4>1, <4>2, <4>3
    <3> QED BY <3>1, <3>2, <3>3, <3>4
  <2>3. seen \in [ptr : Fdes \cup {None}, want : SUBSET Wanted] /\ (seen # NotWatched => seen.ptr = f)
    <3>1. [ptr |-> f, want |-> new \cap Wanted] \in [ptr : Fdes \cup {None}, want : SUBSET Wanted]
      OBVIOUS
    <3>2. NotWatched \in [ptr : Fdes \cup {None}, want : SUBSET Wanted]
      BY DEF NotWatched
    <3> QED BY <3>1, <3>2
  <2>4. seen = IF new \cap Wanted = {} THEN NotWatched ELSE [ptr |-> f, want |-> new \cap Wanted]
    OBVIOUS
  <2>p. /\ plist' \in Seq(Fdes) /\ IsInjective(plist')
        /\ ToSet(plist') = IF drop THEN ToSet(plist) \ {f} ELSE ToSet(plist)
    <3>1. drop => f \in ToSet(plist)
      BY <1>0 DEF PendingListed
    <3>2. plist \in Seq(Fdes) /\ IsInjective(plist)
      BY <1>0 DEF TypeOK, PendingListed
    <3>3. CASE drop
      BY <2>1, <3>1, <3>2, <3>3, PlistRemoved
    <3>4. CASE ~drop
      BY <2>1, <3>2, <3>4
    <3> QED BY <3>3, <3>4
  <2> HIDE DEF seen
  <2>e. \A e \in Fds : e # d => epoll'[e] = epoll[e]
    BY <1>0, <2>2 DEF TypeOK
  <2>5. TypeOK'
    <3>0. epoll'[d] \in [ptr : Fdes \cup {None}, want : SUBSET Wanted]
      BY <1>0, <1>d, <2>2, <2>3 DEF TypeOK
    <3>1. epoll' \in [Fds -> [ptr : Fdes \cup {None}, want : SUBSET Wanted]]
      BY <1>0, <2>2, <3>0 DEF TypeOK
    <3>2. mask' \in [Fdes -> SUBSET EventMask] /\ events' \in [Fdes -> SUBSET Reported]
      BY <1>0, <2>1 DEF TypeOK
    <3>3. pending' \in [Fdes -> BOOLEAN] /\ cut' \subseteq Fdes
      BY <1>0, <2>1 DEF TypeOK
    <3> QED BY <1>0, <1>1, <1>o, <2>1, <2>p, <3>1, <3>2, <3>3 DEF TypeOK
  <2>6. PendingListed'
    <3>1. ASSUME NEW g \in Fdes
          PROVE  /\ pending'[g] => g \in ToSet(plist') /\ events'[g] # {}
                 /\ g \notin AuthFdes =>
                      (g \in ToSet(plist') => pending'[g]) /\ (pending'[g] => active'[g])
      <4>1. /\ pending[g] => g \in ToSet(plist) /\ events[g] # {}
            /\ g \notin AuthFdes =>
                 (g \in ToSet(plist) => pending[g]) /\ (pending[g] => active[g])
        BY <1>0 DEF PendingListed
      <4>2. CASE g # f
        <5>1. /\ pending'[g] = pending[g] /\ events'[g] = events[g] /\ active'[g] = active[g]
          BY <1>0, <1>1, <2>1, <4>2 DEF TypeOK
        <5> QED BY <4>1, <4>2, <5>1, <2>p
      <4>3. CASE g = f
        <5>1. pending'[f] = (pending[f] /\ ~drop) /\ (pending[f] => events'[f] = left)
          BY <1>0, <2>1 DEF TypeOK
        <5> QED BY <1>1, <4>1, <4>3, <5>1, <2>p
      <4> QED BY <4>2, <4>3
    <3> QED BY <2>p, <3>1 DEF PendingListed
  <2>7. EpollInStep'
    <3>1. ASSUME NEW g \in Fdes, active'[g], fd'[g] \notin foul'
          PROVE  epoll'[fd'[g]] = IF mask'[g] \cap Wanted = {} THEN NotWatched
                                  ELSE [ptr |-> g, want |-> mask'[g] \cap Wanted]
      <4>1. CASE g = f
        <5>1. mask'[f] = new /\ epoll'[d] = seen /\ fd'[f] = d
          BY <1>0, <1>1, <1>d, <2>1, <2>2, <3>1, <4>1 DEF TypeOK
        <5> QED BY <4>1, <5>1, <2>4
      <4>2. CASE g # f
        <5>1. /\ active[g] /\ fd'[g] = fd[g] /\ mask'[g] = mask[g] /\ fd[g] \in Fds /\ fd[g] \notin foul
          BY <1>0, <1>1, <2>1, <3>1, <4>2, Installed DEF TypeOK
        <5>2. fd[g] # d
          <6>1. fd_table[fd[g]] = g /\ (d \notin foul => fd_table[d] = f)
            BY <1>1, <5>1, Installed
          <6> QED BY <4>2, <5>1, <6>1
        <5> QED BY <1>0, <2>e, <5>1, <5>2 DEF EpollInStep
      <4> QED BY <4>1, <4>2
    <3>2. ASSUME NEW e \in Fds \ foul', epoll'[e] # NotWatched
          PROVE  e \in open' /\ active'[epoll'[e].ptr] /\ fd'[epoll'[e].ptr] = e
      <4>1. CASE e = d
        <5>1. epoll'[d] = seen /\ d \in open
          BY <1>1, <2>2, <3>2, <4>1, Installed
        <5> QED BY <1>1, <1>d, <2>3, <3>2, <4>1, <5>1
      <4>2. CASE e # d
        BY <1>0, <1>1, <2>e, <3>2, <4>2 DEF EpollInStep
      <4> QED BY <4>1, <4>2
    <3> QED BY <3>1, <3>2 DEF EpollInStep
  <2>8. TableInStep'
    BY <1>0, <1>1 DEF TableInStep
  <2>9. Named'
    <3>1. ASSUME NEW e \in Fds, epoll'[e] # NotWatched
          PROVE  /\ e \in open /\ epoll'[e].ptr \in Fdes
                 /\ epoll'[e].ptr \notin AuthFdes => active[epoll'[e].ptr] /\ fd[epoll'[e].ptr] = e
      <4>1. CASE epoll'[e] = epoll[e]
        BY <1>0, <3>1, <4>1 DEF Named
      <4>2. CASE epoll'[e] # epoll[e]
        <5>1. e = d /\ epoll'[d] = seen /\ d \in open
          BY <2>2, <2>e, <4>2
        <5>2. epoll'[e].ptr = f
          BY <2>3, <3>1, <5>1
        <5> QED BY <1>1, <5>1, <5>2
      <4> QED BY <4>1, <4>2
    <3> QED BY <1>1, <3>1 DEF Named
  <2>10. Callers'
    <3>1. ASSUME NEW g \in Fdes, "DONT_CLOSE" \in mask'[g] PROVE g \in DontCloseFdes
      BY <1>0, <2>1, <3>1 DEF TypeOK, Callers
    <3> QED BY <1>0, <1>1, <2>1, <3>1 DEF Callers
  <2>11. Drained' /\ FatalOnlyByCallers'
    BY <1>1, <2>1, FdEventAssumption DEF Drained, FatalOnlyByCallers
  <2> QED BY <2>5, <2>6, <2>7, <2>8, <2>9, <2>10, <2>11 DEF IInv, LoopInStep
<1> QED BY <1>2, <1>3

\* fdevent_add and fdevent_del never change FDE_DONT_CLOSE.
LEMMA AddDelInv ==
  ASSUME IInv, NEW f \in Fdes, NEW evs \in SUBSET Wanted, fdevent_add(f, evs) \/ fdevent_del(f, evs)
  PROVE  IInv'
<1>1. mask[f] \subseteq EventMask
  BY DEF IInv, LoopInStep, TypeOK
<1>2. CASE fdevent_add(f, evs)
  <2> DEFINE new == mask[f] \cup evs
  <2>1. new \in SUBSET EventMask /\ ("DONT_CLOSE" \in new => "DONT_CLOSE" \in mask[f])
    BY <1>1 DEF EventMask, Wanted
  <2>2. fdevent_set(f, new)
    BY <1>2 DEF fdevent_add
  <2> HIDE DEF new
  <2> QED BY <2>1, <2>2, SetInv
<1>3. CASE fdevent_del(f, evs)
  <2> DEFINE new == mask[f] \ evs
  <2>1. new \in SUBSET EventMask /\ ("DONT_CLOSE" \in new => "DONT_CLOSE" \in mask[f])
    BY <1>1
  <2>2. fdevent_set(f, new)
    BY <1>3 DEF fdevent_del
  <2> HIDE DEF new
  <2> QED BY <2>1, <2>2, SetInv
<1> QED BY <1>2, <1>3

LEMMA RemoveInv ==
  ASSUME IInv, NEW f \in Fdes, fdevent_remove(f)
  PROVE  IInv'
<1>0. /\ TypeOK /\ PendingListed /\ EpollInStep /\ TableInStep
      /\ Named /\ Callers /\ Drained /\ FatalOnlyByCallers
  BY Installed
<1> DEFINE d == fd[f]
<1>1. /\ active[f] /\ cb \in Fdes \cup {None} /\ dead = "no" /\ ops < MaxOps /\ ops' = ops + 1
      /\ UNCHANGED <<cb, cbevents, foul>>
  BY DEF fdevent_remove, user
<1>o. ops' \in 0..MaxOps
  BY <1>0, <1>1, FdEventAssumption DEF TypeOK
<1>d. d \in Fds
  BY <1>1, Installed
<1>t. CASE fd_table[d] # f
  <2>1. /\ dead' = "fd_table" /\ culprit' = f
        /\ UNCHANGED <<fd, mask, active, pending, events, plist, cut, fd_table, epoll, open, files>>
    BY <1>t DEF fdevent_remove, fdeVars, listVars, kernelVars
  <2>2. d \in foul
    BY <1>1, <1>t, Installed
  <2>3. TypeOK'
    BY <1>0, <1>1, <1>o, <2>1 DEF TypeOK
  <2>4. PendingListed' /\ EpollInStep' /\ TableInStep' /\ Named'
    BY <1>0, <1>1, <2>1 DEF PendingListed, EpollInStep, TableInStep, Named
  <2>5. Callers' /\ Drained'
    BY <1>0, <1>1, <2>1 DEF Callers, Drained
  <2>6. FatalOnlyByCallers'
    BY <1>1, <2>1, <2>2 DEF FatalOnlyByCallers
  <2> QED BY <2>3, <2>4, <2>5, <2>6 DEF IInv, LoopInStep
<1>n. CASE fd_table[d] = f
  <2>1. /\ UNCHANGED <<dead, culprit>> /\ unlist(f)
        /\ epoll' = [epoll EXCEPT ![d] = NotWatched]
        /\ open' \in {open, open \ {d}} /\ files' = files \cap open'
        /\ fd_table' = [fd_table EXCEPT ![d] = None]
        /\ fd' = [fd EXCEPT ![f] = None]
        /\ mask' = [mask EXCEPT ![f] = {}]
        /\ active' = [active EXCEPT ![f] = FALSE]
    BY <1>n DEF fdevent_remove, fdevent_unregister, endVars
  <2>2. /\ plist' = IF pending[f] THEN fdevent_plist_remove(f) ELSE plist
        /\ cut' \subseteq cut
        /\ pending' = [pending EXCEPT ![f] = FALSE]
        /\ events' = [events EXCEPT ![f] = {}]
    BY <2>1 DEF unlist
  <2>u. ASSUME NEW g \in Fdes, active'[g]
        PROVE  /\ g # f /\ active[g] /\ fd'[g] = fd[g] /\ mask'[g] = mask[g] /\ fd[g] \in Fds
               /\ fd[g] \notin foul => fd[g] # d /\ fd[g] \in open /\ fd_table[fd[g]] = g
    <3>1. g # f /\ active[g] /\ fd'[g] = fd[g] /\ mask'[g] = mask[g]
      BY <1>0, <2>1, <2>u DEF TypeOK
    <3>2. fd[g] \in Fds /\ (fd[g] \notin foul => fd[g] \in open /\ fd_table[fd[g]] = g)
      BY <3>1, Installed
    <3> QED BY <1>n, <3>1, <3>2
  <2>e. /\ epoll'[d] = NotWatched
        /\ \A e \in Fds : e # d => epoll'[e] = epoll[e]
    BY <1>0, <1>d, <2>1 DEF TypeOK
  <2>p. /\ plist' \in Seq(Fdes) /\ IsInjective(plist')
        /\ ToSet(plist') \subseteq ToSet(plist)
        /\ ToSet(plist) \subseteq ToSet(plist') \cup {f}
        /\ pending[f] => f \notin ToSet(plist')
    <3>1. pending[f] => f \in ToSet(plist)
      BY <1>0 DEF PendingListed
    <3>2. plist \in Seq(Fdes) /\ IsInjective(plist)
      BY <1>0 DEF TypeOK, PendingListed
    <3>3. CASE pending[f]
      BY <2>2, <3>1, <3>2, <3>3, PlistRemoved
    <3>4. CASE ~pending[f]
      BY <2>2, <3>2, <3>4
    <3> QED BY <3>3, <3>4
  <2>3. TypeOK'
    <3>1. NotWatched \in [ptr : Fdes \cup {None}, want : SUBSET Wanted]
      BY DEF NotWatched
    <3>2. epoll' \in [Fds -> [ptr : Fdes \cup {None}, want : SUBSET Wanted]]
      BY <1>0, <2>1, <3>1 DEF TypeOK
    <3>3. open' \subseteq Fds /\ files' \subseteq open' /\ cut' \subseteq Fdes
      BY <1>0, <2>1, <2>2 DEF TypeOK
    <3> QED BY <1>0, <1>1, <1>o, <2>1, <2>2, <2>p, <3>2, <3>3 DEF TypeOK
  <2>4. PendingListed'
    <3>1. ASSUME NEW g \in Fdes
          PROVE  /\ pending'[g] => g \in ToSet(plist') /\ events'[g] # {}
                 /\ g \notin AuthFdes =>
                      (g \in ToSet(plist') => pending'[g]) /\ (pending'[g] => active'[g])
      <4>1. /\ pending[g] => g \in ToSet(plist) /\ events[g] # {}
            /\ g \notin AuthFdes =>
                 (g \in ToSet(plist) => pending[g]) /\ (pending[g] => active[g])
        BY <1>0 DEF PendingListed
      <4>2. CASE g = f
        BY <1>0, <2>2, <2>p, <4>1, <4>2 DEF TypeOK
      <4>3. CASE g # f
        <5>1. pending'[g] = pending[g] /\ events'[g] = events[g] /\ active'[g] = active[g]
          BY <1>0, <2>1, <2>2, <4>3 DEF TypeOK
        <5> QED BY <2>p, <4>1, <4>3, <5>1
      <4> QED BY <4>2, <4>3
    <3> QED BY <2>p, <3>1 DEF PendingListed
  <2>5. EpollInStep'
    <3>1. ASSUME NEW g \in Fdes, active'[g], fd'[g] \notin foul'
          PROVE  epoll'[fd'[g]] = IF mask'[g] \cap Wanted = {} THEN NotWatched
                                  ELSE [ptr |-> g, want |-> mask'[g] \cap Wanted]
      <4>1. /\ active[g] /\ fd'[g] = fd[g] /\ mask'[g] = mask[g] /\ fd[g] \in Fds
            /\ fd[g] \notin foul /\ fd[g] # d
        BY <1>1, <2>u, <3>1
      <4> QED BY <1>0, <2>e, <4>1 DEF EpollInStep
    <3>2. ASSUME NEW e \in Fds \ foul', epoll'[e] # NotWatched
          PROVE  e \in open' /\ active'[epoll'[e].ptr] /\ fd'[epoll'[e].ptr] = e
      <4>1. e # d /\ epoll'[e] = epoll[e] /\ e \notin foul
        BY <1>1, <2>e, <3>2
      <4>2. e \in open /\ active[epoll[e].ptr] /\ fd[epoll[e].ptr] = e /\ epoll[e].ptr \in Fdes
        BY <1>0, <3>2, <4>1 DEF EpollInStep, Named
      <4>3. epoll[e].ptr # f
        BY <4>1, <4>2
      <4> QED BY <1>0, <2>1, <4>1, <4>2, <4>3 DEF TypeOK
    <3> QED BY <3>1, <3>2 DEF EpollInStep
  <2>6. TableInStep'
    <3>1. ASSUME NEW g \in Fdes, active'[g], fd'[g] \notin foul'
          PROVE  fd'[g] \in open' /\ fd_table'[fd'[g]] = g
      <4>1. fd'[g] = fd[g] /\ fd[g] \in Fds /\ fd[g] # d /\ fd[g] \in open /\ fd_table[fd[g]] = g
        BY <1>1, <2>u, <3>1
      <4> QED BY <1>0, <2>1, <4>1 DEF TypeOK
    <3> QED BY <3>1 DEF TableInStep
  <2>7. Named'
    <3>1. ASSUME NEW e \in Fds, epoll'[e] # NotWatched
          PROVE  /\ e \in open' /\ epoll'[e].ptr \in Fdes
                 /\ epoll'[e].ptr \notin AuthFdes => active'[epoll'[e].ptr] /\ fd'[epoll'[e].ptr] = e
      <4>1. e # d /\ epoll'[e] = epoll[e]
        BY <2>e, <3>1
      <4>2. /\ e \in open /\ epoll[e].ptr \in Fdes
            /\ epoll[e].ptr \notin AuthFdes => active[epoll[e].ptr] /\ fd[epoll[e].ptr] = e
        BY <1>0, <3>1, <4>1 DEF Named
      <4>3. epoll[e].ptr \notin AuthFdes => epoll[e].ptr # f
        BY <4>1, <4>2
      <4> QED BY <1>0, <2>1, <4>1, <4>2, <4>3 DEF TypeOK
    <3> QED BY <3>1 DEF Named
  <2>8. Callers'
    <3>1. \A g \in Fdes : active'[g] <=> fd'[g] # None
      BY <1>0, <2>1 DEF TypeOK, Callers
    <3>2. \A g \in Fdes : "DONT_CLOSE" \in mask'[g] => g \in DontCloseFdes
      BY <1>0, <2>1 DEF TypeOK, Callers
    <3>3. ASSUME NEW g \in Fdes, fd'[g] \in files', fd'[g] \notin foul' PROVE g \in FileFdes
      <4>1. fd'[g] \in Fds
        BY <1>0, <2>1, <3>3 DEF TypeOK
      <4>2. fd'[g] = fd[g]
        BY <1>0, <2>1, <4>1, FdEventAssumption DEF TypeOK
      <4> QED BY <1>0, <1>1, <2>1, <3>3, <4>2 DEF Callers
    <3> QED BY <1>0, <2>2, <3>1, <3>2, <3>3 DEF Callers
  <2>9. Drained' /\ FatalOnlyByCallers'
    BY <1>1, <2>1, FdEventAssumption DEF Drained, FatalOnlyByCallers
  <2> QED BY <2>3, <2>4, <2>5, <2>6, <2>7, <2>8, <2>9 DEF IInv, LoopInStep
<1> QED BY <1>t, <1>n

LEMMA SubprocInv ==
  ASSUME IInv, NEW f \in Fdes, fdevent_subproc_event_func(f)
  PROVE  IInv' /\ active[f]
<1>0. /\ TypeOK /\ PendingListed /\ EpollInStep /\ TableInStep
      /\ Named /\ Callers /\ Drained /\ FatalOnlyByCallers
  BY Installed
<1>1. /\ fd[f] \in Fds /\ cb \in Fdes \cup {None} /\ dead = "no" /\ ops < MaxOps /\ ops' = ops + 1
      /\ UNCHANGED <<fd, mask, active, pending, plist, cut, fd_table, epoll, open, files,
                     dead, culprit, foul>>
  BY DEF fdevent_subproc_event_func, user, kernelVars, listVars, endVars
<1>a. active[f]
  BY <1>1, Installed
<1>o. ops' \in 0..MaxOps
  BY <1>0, <1>1, FdEventAssumption DEF TypeOK
<1>2. \/ /\ pending[f] /\ events' = [events EXCEPT ![f] = @ \cup {"READ"}]
         /\ UNCHANGED <<cb, cbevents>>
      \/ /\ ~pending[f] /\ events' = [events EXCEPT ![f] = {}]
         /\ cb' = f /\ cbevents' = events[f] \cup {"READ"}
  BY DEF fdevent_subproc_event_func
<1>3. TypeOK'
  <2>1. events' \in [Fdes -> SUBSET Reported] /\ cbevents' \in SUBSET Reported
    BY <1>0, <1>2, ZenonT(60) DEF TypeOK, Reported
  <2> QED BY <1>0, <1>1, <1>2, <1>o, <2>1 DEF TypeOK
<1>4. PendingListed'
  <2>1. ASSUME NEW g \in Fdes, pending'[g] PROVE events'[g] # {}
    BY <1>0, <1>1, <1>2, <2>1 DEF TypeOK, PendingListed
  <2> QED BY <1>0, <1>1, <2>1 DEF PendingListed
<1>5. EpollInStep' /\ TableInStep' /\ Named' /\ Callers' /\ FatalOnlyByCallers'
  BY <1>0, <1>1 DEF EpollInStep, TableInStep, Named, Callers, FatalOnlyByCallers
<1>6. Drained'
  BY <1>1, <1>2, FdEventAssumption DEF Drained
<1> QED BY <1>a, <1>3, <1>4, <1>5, <1>6 DEF IInv, LoopInStep

\* epoll_wait reports, into an empty list.
LEMMA ProcessInv ==
  ASSUME IInv, fdevent_process
  PROVE  IInv'
<1>0. /\ TypeOK /\ PendingListed /\ EpollInStep /\ TableInStep
      /\ Named /\ Callers /\ Drained /\ FatalOnlyByCallers
  BY Installed
<1>1. /\ cb = "poll" /\ dead = "no" /\ cb' = "dispatch"
      /\ UNCHANGED <<fd, mask, active, cut, fd_table, epoll, open, files, cbevents, ops, dead, culprit, foul>>
  BY DEF fdevent_process, kernelVars, endVars
<1>p. plist = <<>> /\ \A f \in Fdes : ~pending[f]
  <2>1. plist = <<>>
    BY <1>0, <1>1 DEF Drained
  <2>2. ToSet(plist) = {}
    BY <2>1 DEF ToSet
  <2> QED BY <1>0, <2>1, <2>2 DEF PendingListed
<1>D. PICK D \in (SUBSET {d \in Fds : epoll[d] # NotWatched}) \ {{}} :
        \E ev \in [D -> (SUBSET Reported) \ {{}}] :
          LET ptrs == {epoll[d].ptr : d \in D}
              of(f) == UNION {ev[d] : d \in {x \in D : epoll[x].ptr = f}}
          IN /\ \A d \in D : ev[d] \subseteq epoll[d].want \cup {"ERROR"}
             /\ events' = [f \in Fdes |-> events[f] \cup of(f)]
             /\ pending' = [f \in Fdes |-> pending[f] \/ f \in ptrs]
             /\ \E order \in SetToSeqs({f \in ptrs : ~pending[f]}) : plist' = plist \o order
  BY Zenon DEF fdevent_process
<1>2. PICK ev \in [D -> (SUBSET Reported) \ {{}}] :
        LET ptrs == {epoll[d].ptr : d \in D}
            of(f) == UNION {ev[d] : d \in {x \in D : epoll[x].ptr = f}}
        IN /\ events' = [f \in Fdes |-> events[f] \cup of(f)]
           /\ pending' = [f \in Fdes |-> pending[f] \/ f \in ptrs]
           /\ \E order \in SetToSeqs({f \in ptrs : ~pending[f]}) : plist' = plist \o order
  BY <1>D, Zenon
<1> DEFINE ptrs == {epoll[d].ptr : d \in D}
           of(f) == UNION {ev[d] : d \in {x \in D : epoll[x].ptr = f}}
           fresh == {f \in ptrs : ~pending[f]}
<1>3. PICK order \in SetToSeqs(fresh) : plist' = plist \o order
  BY <1>2
<1>4. \A d \in D : /\ d \in Fds /\ epoll[d] # NotWatched /\ epoll[d].ptr \in Fdes
                   /\ epoll[d].ptr \notin AuthFdes => active[epoll[d].ptr]
  BY <1>0 DEF Named
<1>5. /\ ptrs \subseteq Fdes
      /\ \A f \in ptrs : f \notin AuthFdes => active[f]
  BY <1>4
<1>6. \A f \in Fdes : of(f) \subseteq Reported
  OBVIOUS
<1>7. \A f \in ptrs : of(f) # {}
  <2>1. ASSUME NEW d \in D PROVE of(epoll[d].ptr) # {}
    <3>1. ev[d] # {} /\ ev[d] \subseteq of(epoll[d].ptr)
      OBVIOUS
    <3> QED BY <3>1
  <2> QED BY <2>1
<1>8. order \in Seq(Fdes) /\ IsInjective(order) /\ ToSet(order) = fresh
  <2>1. IsFiniteSet(fresh)
    <3>1. fresh \in SUBSET Fdes /\ IsFiniteSet(Fdes)
      BY <1>5, FdEventAssumption
    <3> HIDE DEF fresh
    <3> QED BY <3>1, FS_Subset
  <2>2. fresh \subseteq Fdes
    BY <1>5
  <2> HIDE DEF fresh
  <2>3. order \in Seq(fresh) /\ IsInjective(order) /\ ToSet(order) = fresh
    BY <2>1, Enumerated
  <2> QED BY <2>2, <2>3
<1>9. plist' \in Seq(Fdes) /\ IsInjective(plist') /\ ToSet(plist') = ptrs
  <2>1. plist' = order
    BY <1>3, <1>8, <1>p
  <2>2. fresh = ptrs
    BY <1>5, <1>p
  <2> HIDE DEF fresh, ptrs
  <2> QED BY <1>8, <2>1, <2>2
<1>e. /\ events' = [f \in Fdes |-> events[f] \cup of(f)]
      /\ pending' = [f \in Fdes |-> pending[f] \/ f \in ptrs]
  BY <1>2
<1> HIDE DEF of, ptrs, fresh
<1>10. TypeOK'
  <2>1. events' \in [Fdes -> SUBSET Reported] /\ pending' \in [Fdes -> BOOLEAN]
    BY <1>0, <1>e, <1>6 DEF TypeOK
  <2> QED BY <1>0, <1>1, <1>9, <2>1 DEF TypeOK
<1>11. PendingListed'
  <2>1. ASSUME NEW g \in Fdes
        PROVE  /\ pending'[g] => g \in ToSet(plist') /\ events'[g] # {}
               /\ g \notin AuthFdes =>
                    (g \in ToSet(plist') => pending'[g]) /\ (pending'[g] => active'[g])
    <3>1. /\ pending'[g] = (g \in ptrs) /\ events'[g] = events[g] \cup of(g)
          /\ active'[g] = active[g]
      BY <1>1, <1>e, <1>p
    <3> QED BY <3>1, <1>5, <1>7, <1>9
  <2> QED BY <1>9, <2>1 DEF PendingListed
<1>12. EpollInStep' /\ TableInStep' /\ Named' /\ Callers' /\ Drained' /\ FatalOnlyByCallers'
  BY <1>0, <1>1 DEF EpollInStep, TableInStep, Named, Callers, Drained, FatalOnlyByCallers
<1> QED BY <1>10, <1>11, <1>12 DEF IInv, LoopInStep

LEMMA CallInv ==
  ASSUME IInv, fdevent_call_fdfunc
  PROVE  /\ IInv'
         /\ cb = "dispatch"
         /\ \A f \in Fdes \ AuthFdes : cb' = f => active[f] /\ cbevents' # {}
<1>0. /\ TypeOK /\ PendingListed /\ EpollInStep /\ TableInStep
      /\ Named /\ Callers /\ Drained /\ FatalOnlyByCallers
  BY Installed
<1> DEFINE f == Head(plist)
<1>1. /\ cb = "dispatch" /\ dead = "no" /\ plist # <<>>
      /\ UNCHANGED <<fd, mask, active, cut, fd_table, epoll, open, files, ops, foul>>
  BY DEF fdevent_call_fdfunc, kernelVars
<1>2. /\ f \in Fdes /\ f \in ToSet(plist)
      /\ Tail(plist) \in Seq(Fdes) /\ IsInjective(Tail(plist)) /\ ToSet(Tail(plist)) = ToSet(plist) \ {f}
  <2>1. plist \in Seq(Fdes) /\ IsInjective(plist)
    BY <1>0 DEF TypeOK, PendingListed
  <2> QED BY <1>1, <2>1, Dequeued
<1>3. CASE f \in cut
  <2>1. dead' = "list" /\ culprit' = f /\ UNCHANGED <<plist, events, pending, cb, cbevents>>
    BY <1>3 DEF fdevent_call_fdfunc
  <2> HIDE DEF f
  <2>2. TypeOK'
    BY <1>0, <1>1, <1>2, <2>1 DEF TypeOK
  <2>3. PendingListed' /\ EpollInStep' /\ TableInStep' /\ Named'
    BY <1>0, <1>1, <2>1 DEF PendingListed, EpollInStep, TableInStep, Named
  <2>4. Callers' /\ Drained'
    BY <1>0, <1>1, <2>1 DEF Callers, Drained
  <2>5. FatalOnlyByCallers'
    BY <1>0, <1>3, <2>1 DEF FatalOnlyByCallers, Callers
  <2>6. \A g \in Fdes : cb' # g
    BY <1>1, <2>1, FdEventAssumption
  <2> QED BY <1>1, <2>2, <2>3, <2>4, <2>5, <2>6 DEF IInv, LoopInStep
<1>4. CASE f \notin cut
  <2>1. /\ plist' = Tail(plist)
        /\ events' = [events EXCEPT ![f] = {}]
        /\ pending' = [pending EXCEPT ![f] = FALSE]
        /\ cb' = IF pending[f] THEN f ELSE cb
        /\ cbevents' = IF pending[f] THEN events[f] ELSE cbevents
        /\ UNCHANGED <<dead, culprit>>
    BY <1>4 DEF fdevent_call_fdfunc, endVars
  <2> HIDE DEF f
  <2>2. TypeOK'
    BY <1>0, <1>1, <1>2, <2>1 DEF TypeOK
  <2>3. PendingListed'
    <3>1. ASSUME NEW g \in Fdes
          PROVE  /\ pending'[g] => g \in ToSet(plist') /\ events'[g] # {}
                 /\ g \notin AuthFdes =>
                      (g \in ToSet(plist') => pending'[g]) /\ (pending'[g] => active'[g])
      BY <1>0, <1>1, <1>2, <2>1 DEF TypeOK, PendingListed
    <3> QED BY <1>2, <2>1, <3>1 DEF PendingListed
  <2>4. EpollInStep' /\ TableInStep' /\ Named' /\ Callers' /\ FatalOnlyByCallers'
    BY <1>0, <1>1, <2>1 DEF EpollInStep, TableInStep, Named, Callers, FatalOnlyByCallers
  <2>5. Drained'
    BY <1>1, <1>2, <2>1, FdEventAssumption DEF Drained
  <2>6. ASSUME NEW g \in Fdes \ AuthFdes, cb' = g PROVE active[g] /\ cbevents' # {}
    <3>1. g = f /\ pending[f]
      BY <1>1, <2>1, <2>6, FdEventAssumption
    <3> QED BY <1>0, <2>1, <2>6, <3>1 DEF PendingListed
  <2> QED BY <1>1, <2>2, <2>3, <2>4, <2>5, <2>6 DEF IInv, LoopInStep
<1> QED BY <1>3, <1>4

LEMMA LoopInv ==
  ASSUME IInv, return \/ drained
  PROVE  IInv'
<1>0. /\ TypeOK /\ PendingListed /\ EpollInStep /\ TableInStep
      /\ Named /\ Callers /\ Drained /\ FatalOnlyByCallers
  BY Installed
<1>1. UNCHANGED <<fd, mask, active, pending, events, plist, cut, fd_table, epoll, open, files,
                 dead, culprit, foul>>
  BY DEF return, drained, fdeVars, listVars, kernelVars, endVars
<1>2. TypeOK'
  BY <1>0, <1>1, FdEventAssumption DEF TypeOK, return, drained
<1>3. PendingListed' /\ EpollInStep' /\ TableInStep' /\ Named' /\ Callers' /\ FatalOnlyByCallers'
  BY <1>0, <1>1 DEF PendingListed, EpollInStep, TableInStep, Named, Callers, FatalOnlyByCallers
<1>4. Drained'
  BY <1>1 DEF Drained, return, drained
<1> QED BY <1>2, <1>3, <1>4 DEF IInv, LoopInStep

LEMMA NextInv == IInv /\ [Next]_vars => IInv'
<1> SUFFICES ASSUME IInv, [Next]_vars PROVE IInv'
  OBVIOUS
<1>1. CASE UNCHANGED vars
  BY <1>1 DEF IInv, LoopInStep, TypeOK, PendingListed, EpollInStep, TableInStep,
              Named, Callers, Drained, FatalOnlyByCallers,
              vars, fdeVars, listVars, kernelVars, endVars
<1>2. CASE Next
  BY <1>2, InstallInv, CloseInv, AddDelInv, RemoveInv, SubprocInv, ProcessInv, CallInv, LoopInv DEF Next
<1> QED BY <1>1, <1>2

-----------------------------------------------------------------------------
(* The theorems.                                                           *)

\* The invariant holds in every reachable state.
THEOREM Invariance == Spec => []IInv
BY InitInv, NextInv, PTL DEF Spec

\* list_pending, the kernel's epoll set and fd_table agree, whatever the
\* functions of the fdevents install, set or remove while the list is worked
\* through, with any number of fdevents, of JDWP processes or of calls; on a
\* descriptor closed, shared or abandoned behind an fdevent's back, only the
\* list does.
THEOREM LoopStaysInStep == Spec => []LoopInStep
<1>1. IInv => LoopInStep
  BY DEF IInv
<1> QED BY <1>1, Invariance, PTL

\* The event loop ends the daemon only on account of one of its four unusual
\* callers: FDE_DONT_CLOSE inside FDE_EVENTMASK, a file of "dev:" that cannot
\* be polled, an auth_fde installed while it or its descriptor is in use, and
\* the second close of t->fd.
THEOREM EndsOnlyByCallers == Spec => []FatalOnlyByCallers
<1>1. IInv => FatalOnlyByCallers
  BY DEF IInv
<1> QED BY <1>1, Invariance, PTL

\* Every function of an fdevent is called while it is installed, and with some
\* event: from the pending list, or because the shell behind it is gone.  An
\* auth_fde is excepted.
THEOREM CallsLive == Spec => CallsAreLive
<1>1. ASSUME IInv, [Next]_vars
      PROVE  [\A f \in Fdes \ AuthFdes : (cb # f /\ cb' = f) => active[f] /\ cbevents' # {}]_vars
  <2> SUFFICES ASSUME Next, NEW f \in Fdes \ AuthFdes, cb # f, cb' = f
               PROVE  active[f] /\ cbevents' # {}
    BY <1>1
  <2>1. f \notin {"poll", "dispatch"}
    BY FdEventAssumption
  <2>2. ASSUME NEW g \in Fdes, fdevent_subproc_event_func(g) PROVE active[f] /\ cbevents' # {}
    <3>1. active[g]
      BY <1>1, <2>2, SubprocInv
    <3>2. g = f /\ cbevents' # {}
      BY <2>2 DEF fdevent_subproc_event_func
    <3> QED BY <3>1, <3>2
  <2>3. CASE fdevent_call_fdfunc
    BY <1>1, <2>1, <2>3, CallInv
  <2>4. ASSUME NEW g \in Fdes, \E d \in Fds : fdevent_install(g, d) PROVE FALSE
    BY <2>4 DEF fdevent_install
  <2>5. ASSUME NEW g \in Fdes, \E evs \in SUBSET Wanted : fdevent_add(g, evs) \/ fdevent_del(g, evs)
        PROVE FALSE
    BY <2>5 DEF fdevent_add, fdevent_del, fdevent_set
  <2>6. ASSUME NEW g \in Fdes, fdevent_remove(g) PROVE FALSE
    BY <2>6 DEF fdevent_remove
  <2>7. return \/ drained \/ fdevent_process \/ (\E d \in Fds : adb_close(d)) => FALSE
    BY <2>1 DEF return, drained, fdevent_process, adb_close
  <2> QED BY <2>2, <2>3, <2>4, <2>5, <2>6, <2>7 DEF Next
<1> QED BY <1>1, Invariance, PTL DEF Spec, CallsAreLive
=============================================================================
