----------------------------- MODULE UsbProofs -----------------------------
(***************************************************************************)
(* Proofs about Usb, for any number of transports, transfers and failed    *)
(* attempts to open, and for both kinds of handle.  The safety properties  *)
(* rest on one inductive invariant, IInv: what the handle holds while the  *)
(* open thread is where it is (Handle), whom it serves (Session), and how  *)
(* far the two threads of a transport may be apart (ThreadsOf).            *)
(***************************************************************************)
EXTENDS Usb, TLAPS, FiniteSetTheorems, SequenceTheorems

-----------------------------------------------------------------------------
(* The inductive invariant.                                                *)

Ending == {"kick", "call", "done"}
Opening == {"open", "err", "register"}

\* Before step the endpoints are open and from it on they are not; before the
\* thread opens, and when the handle is shut, none is.
Handle ==
  /\ nextfd > 0
  /\ h[First] # 0
  /\ opener = "open" =>
       /\ step <= Len(Eps)
       /\ \A k \in 1..Len(Eps) : IF k < step THEN h[Eps[k]] > 0 ELSE h[Eps[k]] <= 0
  /\ opener = "register" => \A e \in Names : h[e] > 0
  /\ opener \in {"check", "blocked"} /\ h[First] = NoFd => \A e \in Names : h[e] <= 0

\* The handle serves the last transport, with all its endpoints, until that is
\* kicked; the open thread opens for nobody.
Session ==
  \A t \in Ts : Live(t) =>
    /\ t = last /\ h = own[t] /\ opener \notin Opening
    /\ \A e \in Names : h[e] > 0

\* The first thread to kick has set kicked, the input thread follows the output
\* thread's SYNC(0).
ThreadsOf(t) ==
  /\ t > last => outpc[t] = "none" /\ inpc[t] = "none" /\ ~kicked[t]
  /\ ~kicked[t] => outpc[t] \notin {"call", "done"} /\ inpc[t] \notin {"call", "done"}
  /\ ~ (outpc[t] = "call" /\ inpc[t] = "call")
  /\ (\E i \in DOMAIN queue[t] : queue[t][i] = "SYNC0") => outpc[t] \in Ending
  /\ inpc[t] \in Ending \/ kicked[t] => outpc[t] \in Ending

IInv == HandleInStep /\ Handle /\ Session /\ \A t \in Ts : ThreadsOf(t)

-----------------------------------------------------------------------------
(* The fields of the handle.                                               *)

\* Each field is opened once, in order.
LEMMA Fields ==
  /\ Len(Eps) \in Nat \ {0}
  /\ Names = {Eps[k] : k \in 1..Len(Eps)}
  /\ \A k, m \in 1..Len(Eps) : Eps[k] = Eps[m] => k = m
  /\ First = Eps[1] /\ First # "bulk_in"
<1>1. CASE ffs
  <2>1. Eps = <<"control", "bulk_out", "bulk_in">>
    BY <1>1 DEF Eps
  <2> QED BY <2>1 DEF Names, First
<1>2. CASE ~ffs
  <2>1. Eps = <<"fd">>
    BY <1>2 DEF Eps
  <2> QED BY <2>1 DEF Names, First
<1> QED BY <1>1, <1>2

\* The kind of handle never changes.
LEMMA SameKind ==
  ASSUME ffs' = ffs
  PROVE  /\ Eps' = Eps /\ Names' = Names /\ First' = First
         /\ ReadEp' = ReadEp /\ WriteEp' = WriteEp /\ Shut' = Shut
BY DEF Eps, Names, First, ReadEp, WriteEp, Shut

\* There are no more descriptors than fields.
LEMMA FewFds ==
  ASSUME NEW g, NEW D, D \subseteq {g[e] : e \in Names}
  PROVE  Cardinality(D) <= Len(Eps) /\ IsFiniteSet(D)
<1> DEFINE n == Len(Eps)
           f == [k \in 1..n |-> g[Eps[k]]]
           img == {f[k] : k \in 1..n}
<1>1. n \in Nat /\ Names = {Eps[k] : k \in 1..n}
  BY Fields
<1>2. IsFiniteSet(1..n) /\ Cardinality(1..n) = n
  <2>1. IsFiniteSet(1..n) /\ Cardinality(1..n) = IF 1 > n THEN 0 ELSE n - 1 + 1
    BY <1>1, FS_Interval
  <2> QED BY <1>1, <2>1
<1>3. D \subseteq img
  BY <1>1
<1> HIDE DEF n, f
<1>4. IsFiniteSet(img) /\ Cardinality(img) <= n
  <2>1. f \in Surjection(1..n, img)
    BY DEF Surjection, f
  <2> QED BY <1>2, <2>1, FS_Surjection
<1>5. IsFiniteSet(D) /\ Cardinality(D) <= Cardinality(img)
  BY <1>3, <1>4, FS_Subset
<1>6. Cardinality(D) \in Nat /\ Cardinality(img) \in Nat
  BY <1>4, <1>5, FS_CardinalityType
<1> QED BY <1>1, <1>4, <1>5, <1>6 DEF n

\* Whether a transport is served, by its threads.
LEMMA LiveThreads ==
  ASSUME NEW t
  PROVE  /\ Live(t) <=> t <= last /\ (~kicked[t] \/ outpc[t] = "call" \/ inpc[t] = "call")
         /\ Live(t)' <=> t <= last' /\ (~kicked'[t] \/ outpc'[t] = "call" \/ inpc'[t] = "call")
BY DEF Live, Threads, pc

-----------------------------------------------------------------------------
(* The invariant holds at the start.                                       *)

LEMMA InitInv == Init => IInv
<1> SUFFICES ASSUME Init PROVE IInv
  OBVIOUS
<1>1. TypeOK
  <2>1. Cardinality(fds) <= Len(Eps)
    BY FewFds DEF Init
  <2>2. h \in [Names -> {NoFd} \cup 0..nextfd] /\ Shut \in [Names -> {NoFd} \cup 0..nextfd]
    BY DEF Init, Shut, NoFd
  <2>3. \A t \in Ts : queue[t] \in Seq({"PACKET", "SYNC0"})
    BY EmptySeq DEF Init
  <2>4. Len(Eps) \in Nat \ {0}
    BY Fields
  <2>5. /\ step \in 1..(Len(Eps) + 1) /\ nextfd \in Nat
        /\ fds \subseteq 1..nextfd /\ dead \subseteq fds
        /\ last \in 0..MaxTransports /\ packets \in 0..MaxPackets /\ fails \in 0..MaxFails
    BY <2>4, UsbAssumption DEF Init
  <2>6. /\ own \in [Ts -> [Names -> {NoFd} \cup 0..nextfd]]
        /\ queue \in [Ts -> Seq({"PACKET", "SYNC0"})]
    BY <2>2, <2>3 DEF Init
  <2>7. /\ outpc \in [Ts -> {"none", "read", "kick", "call", "done"}]
        /\ inpc \in [Ts -> {"none", "next", "header", "data", "kick", "call", "done"}]
        /\ kicked \in [Ts -> BOOLEAN]
    BY DEF Init
  <2> QED BY <2>1, <2>2, <2>5, <2>6, <2>7 DEF Init, TypeOK
<1>2. NoLeak
  BY DEF Init, NoLeak, NoFd
<1>3. Handle
  BY Fields DEF Init, Handle, NoFd
<1>4. Session /\ \A t \in Ts : ThreadsOf(t)
  BY LiveThreads DEF Init, Session, ThreadsOf, Ts, Ending
<1> QED BY <1>1, <1>2, <1>3, <1>4 DEF IInv, HandleInStep

-----------------------------------------------------------------------------
(* The steps of the open thread.                                           *)

\* What the threads' part of the invariant looks at.
LEMMA ThreadsKept ==
  ASSUME \A t \in Ts : ThreadsOf(t), UNCHANGED <<last, outpc, inpc, kicked, queue>>
  PROVE  /\ \A t \in Ts : ThreadsOf(t)'
         /\ \A t \in Ts : Live(t)' <=> Live(t)
BY LiveThreads DEF ThreadsOf

LEMMA OpenerInv ==
  ASSUME IInv, Opener \/ spurious_wakeup
  PROVE  IInv'
<1> USE DEF threadVars, dataVars
<1>k. /\ Eps' = Eps /\ Names' = Names /\ First' = First
      /\ TypeOK /\ NoLeak /\ Handle /\ Session /\ \A t \in Ts : ThreadsOf(t)
  <2>1. ffs' = ffs
    BY DEF Opener, open_check, spurious_wakeup, open_endpoint, open_fails, init_error,
           register_usb_transport
  <2> QED BY <2>1, SameKind DEF IInv, HandleInStep
<1>f. /\ Len(Eps) \in Nat \ {0}
      /\ Names = {Eps[k] : k \in 1..Len(Eps)}
      /\ \A k, m \in 1..Len(Eps) : Eps[k] = Eps[m] => k = m
      /\ First = Eps[1] /\ First \in Names
  BY Fields
<1>n. Len(Eps) \in Nat \ {0}
  BY <1>f
<1>1. CASE open_check \/ spurious_wakeup
  <2>0. UNCHANGED <<ffs, h, nextfd, last, own, fails, fds, dead, threadVars, dataVars, stray>>
    BY <1>1 DEF open_check, spurious_wakeup
  <2>1. TypeOK' /\ NoLeak'
    BY <1>1, <1>k, <1>n, <2>0 DEF open_check, spurious_wakeup, TypeOK, NoLeak
  <2>2. Handle'
    BY <1>1, <1>k, <1>f, <2>0 DEF open_check, spurious_wakeup, must_wait, Handle, TypeOK, NoFd
  <2>3. (\A t \in Ts : ThreadsOf(t)') /\ (\A t \in Ts : Live(t)' <=> Live(t))
    BY <1>k, <2>0, ThreadsKept
  <2>4. Session'
    <3>1. ASSUME NEW t \in Ts, Live(t) PROVE opener' \notin Opening
      <4>1. h[First] > 0
        BY <3>1, <1>k, <1>f DEF Session
      <4> QED BY <1>1, <3>1, <4>1, <1>k
        DEF open_check, spurious_wakeup, must_wait, Session, Opening, NoFd
    <3> QED BY <1>k, <2>0, <2>3, <3>1 DEF Session
  <2> QED BY <2>1, <2>2, <2>3, <2>4 DEF IInv, HandleInStep
<1>2. CASE open_endpoint
  <2>0. UNCHANGED <<ffs, last, own, fails, dead, threadVars, dataVars, stray>>
    BY <1>2 DEF open_endpoint
  <2>1. /\ opener = "open" /\ step \in 1..Len(Eps) /\ Eps[step] \in Names
        /\ h[Eps[step]] <= 0 /\ nextfd \in Nat /\ nextfd > 0
        /\ h' = [h EXCEPT ![Eps[step]] = nextfd] /\ nextfd' = nextfd + 1
        /\ fds' = fds \cup {nextfd} /\ step' = step + 1
        /\ opener' = IF step = Len(Eps) THEN "register" ELSE "open"
    BY <1>2, <1>k, <1>f DEF open_endpoint, Handle, TypeOK
  <2>2. h' \in [Names -> {NoFd} \cup 0..nextfd']
    BY <2>1, <1>k DEF TypeOK, NoFd
  <2>3. NoLeak'
    BY <2>0, <2>1, <1>k DEF NoLeak, TypeOK, NoFd
  <2>4. TypeOK'
    <3>1. Cardinality(fds') <= Len(Eps)
      BY <2>3, <1>k, FewFds DEF NoLeak
    <3>2. own \in [Ts -> [Names -> {NoFd} \cup 0..nextfd']]
      BY <1>k, <2>1 DEF TypeOK
    <3>3. fds' \subseteq 1..nextfd' /\ dead \subseteq fds'
      BY <1>k, <2>1 DEF TypeOK
    <3> QED BY <1>k, <1>n, <2>0, <2>1, <2>2, <3>1, <3>2, <3>3 DEF TypeOK
  <2>5. Handle'
    <3>1. \A k \in 1..Len(Eps) : h'[Eps[k]] = IF k = step THEN nextfd ELSE h[Eps[k]]
      BY <1>f, <1>k, <2>1 DEF TypeOK
    <3>2. \A k \in 1..Len(Eps) : IF k < step THEN h[Eps[k]] > 0 ELSE h[Eps[k]] <= 0
      BY <2>1, <1>k DEF Handle
    <3>3. \A k \in 1..Len(Eps) : IF k < step' THEN h'[Eps[k]] > 0 ELSE h'[Eps[k]] <= 0
      BY <2>1, <3>1, <3>2, <1>f
    <3>4. h'[First] # 0
      BY <1>f, <1>k, <2>1, <3>1 DEF Handle
    <3>5. opener' = "register" => \A e \in Names : h'[e] > 0
      BY <1>f, <2>1, <3>3
    <3> QED BY <1>k, <1>f, <2>1, <3>3, <3>4, <3>5 DEF Handle
  <2>6. (\A t \in Ts : ThreadsOf(t)') /\ (\A t \in Ts : Live(t)' <=> Live(t))
    BY <1>k, <2>0, ThreadsKept
  <2>7. Session'
    BY <1>k, <2>1, <2>6 DEF Session, Opening
  <2> QED BY <2>3, <2>4, <2>5, <2>6, <2>7 DEF IInv, HandleInStep
<1>3. CASE open_fails
  <2>0. UNCHANGED <<ffs, step, nextfd, last, own, fds, dead, threadVars, dataVars, stray>>
    BY <1>3 DEF open_fails
  <2>1. /\ opener = "open" /\ step \in 1..Len(Eps) /\ Eps[step] \in Names
        /\ h[Eps[step]] <= 0 /\ opener' = "err" /\ fails' = fails + 1 /\ fails < MaxFails
        /\ h' = h \/ h' = [h EXCEPT ![Eps[step]] = NoFd]
    BY <1>3, <1>k, <1>f DEF open_fails, Handle, TypeOK
  <2>2. h' \in [Names -> {NoFd} \cup 0..nextfd']
    BY <2>0, <2>1, <1>k DEF TypeOK, NoFd
  <2>3. NoLeak'
    <3>1. \A e \in Names : h[e] \in {NoFd} \cup 0..nextfd
      BY <1>k DEF TypeOK
    <3>2. \A e \in Names : h'[e] = h[e] \/ (h'[e] = NoFd /\ h[e] \in {NoFd, 0})
      BY <2>1, <3>1, <1>k DEF TypeOK, NoFd
    <3> QED BY <2>0, <3>1, <3>2, <1>k DEF NoLeak
  <2>4. TypeOK'
    BY <1>k, <1>n, <2>0, <2>1, <2>2, UsbAssumption DEF TypeOK
  <2>5. Handle'
    BY <1>k, <1>f, <2>0, <2>1 DEF Handle, TypeOK, NoFd
  <2>6. (\A t \in Ts : ThreadsOf(t)') /\ (\A t \in Ts : Live(t)' <=> Live(t))
    BY <1>k, <2>0, ThreadsKept
  <2>7. Session'
    BY <1>k, <2>1, <2>6 DEF Session, Opening
  <2> QED BY <2>3, <2>4, <2>5, <2>6, <2>7 DEF IInv, HandleInStep
<1>4. CASE init_error
  <2>0. UNCHANGED <<ffs, nextfd, last, own, fails, threadVars, dataVars>>
    BY <1>4 DEF init_error
  <2>1. \A e \in Names : h[e] \in {NoFd} \cup 0..nextfd
    BY <1>k DEF TypeOK
  <2>2. /\ \A e \in Names : h'[e] \in {NoFd, 0}
        /\ h' \in [Names -> {NoFd} \cup 0..nextfd'] /\ h'[First] = NoFd
    <3>1. h' = [e \in Names |-> IF h[e] > 0 THEN NoFd ELSE h[e]]
      BY <1>4, <1>k DEF init_error, to_close
    <3>2. First \in Names /\ h[First] # 0 /\ nextfd \in Nat
      BY <1>f, <1>k DEF Handle, TypeOK
    <3> QED BY <2>0, <2>1, <3>1, <3>2 DEF NoFd
  <2>3. {h[e] : e \in to_close} = fds
    <3>1. fds = {h[e] : e \in Names} \ {NoFd, 0}
      BY <1>k DEF NoLeak
    <3> QED BY <2>1, <3>1, <1>k DEF to_close, NoFd, TypeOK
  <2>4. fds' = {} /\ dead' = {} /\ stray' = stray /\ opener' = "open" /\ step' = 1
    BY <1>4, <1>k, <2>2, <2>3 DEF init_error, TypeOK, NoFd
  <2>5. NoLeak'
    BY <1>k, <2>2, <2>4 DEF NoLeak
  <2>6. TypeOK'
    <3>1. Cardinality(fds') <= Len(Eps)
      BY <2>4, FewFds
    <3> QED BY <1>k, <1>n, <2>0, <2>2, <2>4, <3>1 DEF TypeOK
  <2>7. Handle'
    BY <1>k, <1>f, <2>0, <2>2, <2>4 DEF Handle, NoFd
  <2>8. (\A t \in Ts : ThreadsOf(t)') /\ (\A t \in Ts : Live(t)' <=> Live(t))
    BY <1>k, <2>0, ThreadsKept
  <2>9. Session'
    BY <1>4, <1>k, <2>8 DEF init_error, Session, Opening
  <2> QED BY <2>5, <2>6, <2>7, <2>8, <2>9 DEF IInv, HandleInStep
<1>5. CASE register_usb_transport
  <2>0. UNCHANGED <<ffs, h, step, nextfd, fails, fds, dead, kicked, dataVars, stray>>
    BY <1>5 DEF register_usb_transport
  <2>1. /\ opener = "register" /\ last' = last + 1 /\ last' \in Ts /\ last \in Nat
        /\ own' = [own EXCEPT ![last'] = h] /\ opener' = "check"
        /\ outpc' = [outpc EXCEPT ![last'] = "read"] /\ inpc' = [inpc EXCEPT ![last'] = "next"]
    BY <1>5, <1>k, UsbAssumption DEF register_usb_transport, TypeOK, Ts
  <2>2. TypeOK' /\ NoLeak'
    BY <1>k, <2>0, <2>1, UsbAssumption DEF TypeOK, NoLeak, Ts
  <2>3. Handle'
    BY <1>k, <1>f, <2>0, <2>1 DEF Handle, NoFd
  <2>4. ASSUME NEW t \in Ts PROVE ThreadsOf(t)'
    <3>1. ThreadsOf(t)
      BY <1>k
    <3>2. CASE t = last'
      BY <2>0, <2>1, <3>1, <3>2, <1>k DEF ThreadsOf, TypeOK, Ending, Ts
    <3>3. CASE t # last'
      BY <2>0, <2>1, <3>1, <3>3, <1>k DEF ThreadsOf, TypeOK, Ts
    <3> QED BY <3>2, <3>3
  <2>5. Session'
    <3>1. \A t \in Ts : ~Live(t)
      BY <1>k, <2>1 DEF Session, Opening
    <3>2. ASSUME NEW t \in Ts, Live(t)' PROVE t = last'
      BY <2>0, <2>1, <3>1, <3>2, <1>k, LiveThreads DEF TypeOK, Ts
    <3>3. own'[last'] = h'
      BY <2>0, <2>1, <1>k DEF TypeOK
    <3> QED BY <1>k, <2>0, <2>1, <3>2, <3>3 DEF Session, Handle, Opening
  <2> QED BY <2>2, <2>3, <2>4, <2>5 DEF IInv, HandleInStep
<1> QED BY <1>1, <1>2, <1>3, <1>4, <1>5 DEF Opener

-----------------------------------------------------------------------------
(* The steps of the transports' threads.                                   *)

\* The read and write steps leave the handle, the open thread and kicked alone.
LEMMA TransferInv ==
  ASSUME IInv, NEW t \in Ts, Output(t) \/ Input(t)
  PROVE  IInv'
<1> USE DEF openVars, dataVars, threadVars
<1>u. UNCHANGED <<ffs, h, openVars, fds, dead, kicked, stray>>
  BY DEF Output, Input, usb_read, read_fails, in_next, usb_write, write_fails
<1>k. /\ Eps' = Eps /\ Names' = Names /\ First' = First
      /\ TypeOK /\ NoLeak /\ Handle /\ Session /\ \A u \in Ts : ThreadsOf(u)
  BY <1>u, SameKind DEF IInv, HandleInStep
<1>q. /\ queue[t] \in Seq({"PACKET", "SYNC0"})
      /\ \A m \in {"PACKET", "SYNC0"} : Append(queue[t], m) \in Seq({"PACKET", "SYNC0"})
      /\ queue[t] # <<>> => Tail(queue[t]) \in Seq({"PACKET", "SYNC0"})
  BY <1>k, AppendProperties, LenProperties, HeadTailProperties, EmptySeq DEF TypeOK
<1>1. TypeOK'
  <2>1. queue' \in [Ts -> Seq({"PACKET", "SYNC0"})]
    BY <1>k, <1>q DEF Output, Input, usb_read, read_fails, in_next, usb_write, write_fails, TypeOK
  <2>2. packets' \in 0..MaxPackets
    BY <1>k, UsbAssumption
    DEF Output, Input, usb_read, read_fails, in_next, usb_write, write_fails, TypeOK
  <2>3. /\ outpc' \in [Ts -> {"none", "read", "kick", "call", "done"}]
        /\ inpc' \in [Ts -> {"none", "next", "header", "data", "kick", "call", "done"}]
    BY <1>k DEF Output, Input, usb_read, read_fails, in_next, usb_write, write_fails,
                after_failed_write, TypeOK
  <2> QED BY <1>k, <1>u, <2>1, <2>2, <2>3 DEF TypeOK
<1>2. NoLeak' /\ Handle'
  BY <1>k, <1>u DEF NoLeak, Handle
<1>3. /\ \A u \in Ts : outpc[u] # outpc'[u] => outpc[u] = "read" /\ outpc'[u] = "kick"
      /\ \A u \in Ts : inpc[u] # inpc'[u] =>
           /\ inpc[u] \in {"next", "header", "data"}
           /\ inpc'[u] \in {"next", "header", "data", "kick"}
  BY <1>k DEF Output, Input, usb_read, read_fails, in_next, usb_write, write_fails,
              after_failed_write, TypeOK
<1>4. ASSUME NEW u \in Ts, \E i \in DOMAIN queue'[u] : queue'[u][i] = "SYNC0"
      PROVE  outpc'[u] \in Ending
  <2>0. ThreadsOf(u)
    BY <1>k
  <2>1. CASE queue'[u] = queue[u]
    BY <1>3, <1>4, <2>0, <2>1 DEF ThreadsOf, Ending
  <2>2. CASE u = t /\ read_fails(t)
    BY <1>k, <2>2 DEF read_fails, Ending, TypeOK
  <2>3. CASE u = t /\ queue' = [queue EXCEPT ![t] = Append(@, "PACKET")]
    <3>1. /\ Len(queue[t]) \in Nat /\ DOMAIN queue[t] = 1..Len(queue[t])
          /\ DOMAIN queue'[t] = 1..(Len(queue[t]) + 1)
          /\ \A i \in 1..Len(queue[t]) : queue'[t][i] = queue[t][i]
          /\ queue'[t][Len(queue[t]) + 1] = "PACKET"
      BY <1>k, <1>q, <2>3, AppendProperties, LenProperties, EmptySeq, ElementOfSeq DEF TypeOK
    <3>2. \E i \in DOMAIN queue[t] : queue[t][i] = "SYNC0"
      BY <1>4, <2>3, <3>1
    <3> QED BY <1>3, <2>0, <2>3, <3>2 DEF ThreadsOf, Ending
  <2>4. CASE u = t /\ queue[t] # <<>> /\ queue' = [queue EXCEPT ![t] = Tail(@)]
    <3>1. /\ Len(queue[t]) \in Nat \ {0} /\ DOMAIN queue[t] = 1..Len(queue[t])
          /\ DOMAIN queue'[t] = 1..(Len(queue[t]) - 1)
          /\ \A i \in 1..(Len(queue[t]) - 1) : queue'[t][i] = queue[t][i + 1]
      BY <1>k, <1>q, <2>4, HeadTailProperties, EmptySeq, LenProperties, ElementOfSeq DEF TypeOK
    <3>2. \E i \in DOMAIN queue[t] : queue[t][i] = "SYNC0"
      BY <1>4, <2>4, <3>1
    <3> QED BY <1>3, <2>0, <2>4, <3>2 DEF ThreadsOf, Ending
  <2> QED
    BY <1>k, <2>1, <2>2, <2>3, <2>4
    DEF Output, Input, usb_read, read_fails, in_next, usb_write, write_fails, TypeOK
<1>5. ASSUME NEW u \in Ts, inpc[u] # inpc'[u], inpc'[u] = "kick" PROVE outpc'[u] \in Ending
  <2>1. u = t /\ in_next(t) /\ Head(queue[t]) = "SYNC0"
    BY <1>5, <1>k DEF Output, Input, usb_read, read_fails, in_next, usb_write, write_fails,
                      after_failed_write, TypeOK
  <2>2. 1 \in DOMAIN queue[t] /\ queue[t][1] = "SYNC0"
    BY <1>q, <2>1, HeadTailProperties, EmptySeq, LenProperties, ElementOfSeq DEF in_next
  <2> QED BY <1>3, <1>k, <2>1, <2>2 DEF ThreadsOf, Ending
<1>6. ASSUME NEW u \in Ts PROVE ThreadsOf(u)'
  <2>0. ThreadsOf(u)
    BY <1>k
  <2> QED BY <1>u, <1>3, <1>4, <1>5, <2>0 DEF ThreadsOf, Ending
<1>7. \A u \in Ts : Live(u)' => Live(u)
  BY <1>u, <1>3, LiveThreads
<1>8. Session'
  BY <1>k, <1>u, <1>7 DEF Session
<1> QED BY <1>1, <1>2, <1>6, <1>8 DEF IInv, HandleInStep

\* kick_transport and usb_kick.
LEMMA KickInv ==
  ASSUME IInv, NEW t \in Ts, NEW th \in Threads, Kick(th, t)
  PROVE  IInv'
<1> USE DEF openVars, dataVars
<1>u. UNCHANGED <<ffs, step, nextfd, last, own, fails, dataVars>>
  BY DEF Kick, kick_transport, usb_kick
<1>k. /\ Eps' = Eps /\ Names' = Names /\ First' = First
      /\ TypeOK /\ NoLeak /\ Handle /\ Session /\ \A u \in Ts : ThreadsOf(u)
  BY <1>u, SameKind DEF IInv, HandleInStep
<1>g. /\ outpc' \in [Ts -> {"none", "read", "kick", "call", "done"}]
      /\ inpc' \in [Ts -> {"none", "next", "header", "data", "kick", "call", "done"}]
  BY <1>k DEF Kick, kick_transport, usb_kick, goto, TypeOK
<1>1. CASE kick_transport(th, t)
  <2>0. /\ UNCHANGED <<ffs, h, openVars, fds, dead, dataVars, stray>>
        /\ kicked' = [kicked EXCEPT ![t] = TRUE]
    BY <1>1 DEF kick_transport
  <2>1. TypeOK' /\ NoLeak' /\ Handle'
    BY <1>k, <1>g, <2>0 DEF TypeOK, NoLeak, Handle
  <2>2. /\ kicked'[t]
        /\ \A u \in Ts : u # t => kicked'[u] = kicked[u] /\ outpc'[u] = outpc[u] /\ inpc'[u] = inpc[u]
        /\ \/ /\ outpc[t] = "kick" /\ inpc'[t] = inpc[t]
              /\ outpc'[t] = IF kicked[t] THEN "done" ELSE "call"
           \/ /\ inpc[t] = "kick" /\ outpc'[t] = outpc[t]
              /\ inpc'[t] = IF kicked[t] THEN "done" ELSE "call"
    BY <1>1, <1>k, <2>0 DEF kick_transport, goto, pc, Threads, first_to_kick, TypeOK
  <2>3. ASSUME NEW u \in Ts PROVE ThreadsOf(u)' /\ (Live(u)' => Live(u))
    <3>0. ThreadsOf(u)
      BY <1>k
    <3>1. CASE u = t
      BY <2>0, <2>2, <3>0, <3>1, LiveThreads DEF ThreadsOf, Ending
    <3>2. CASE u # t
      BY <2>0, <2>2, <3>0, <3>2, LiveThreads DEF ThreadsOf, Ending
    <3> QED BY <3>1, <3>2
  <2>4. Session'
    BY <1>k, <2>0, <2>3 DEF Session
  <2> QED BY <2>1, <2>3, <2>4 DEF IInv, HandleInStep
<1>2. CASE usb_kick(th, t)
  <2>0. kicked' = kicked /\ h' = Shut /\ opener' = woken
    BY <1>2 DEF usb_kick
  <2>1. /\ \A u \in Ts : u # t => outpc'[u] = outpc[u] /\ inpc'[u] = inpc[u]
        /\ \/ outpc[t] = "call" /\ outpc'[t] = "done" /\ inpc'[t] = inpc[t]
           \/ inpc[t] = "call" /\ inpc'[t] = "done" /\ outpc'[t] = outpc[t]
    BY <1>2, <1>k DEF usb_kick, goto, pc, Threads, TypeOK
  <2>2. t <= last /\ kicked[t] /\ Live(t)
    BY <1>k, <2>1, LiveThreads DEF ThreadsOf, Ts, TypeOK
  <2>3. t = last /\ opener \notin Opening /\ \A e \in Names : h[e] > 0
    BY <1>k, <2>2 DEF Session
  <2>4. fds = {h[e] : e \in Names} /\ NoFd \notin fds
    BY <1>k, <2>3 DEF NoLeak, NoFd, TypeOK
  <2>5. fds' = {} /\ dead' = {} /\ stray' = stray
    BY <1>2, <1>k, <2>4 DEF usb_kick, TypeOK
  <2>6. opener' \in {"check", "blocked"}
    BY <1>k, <2>0, <2>3 DEF woken, Opening, TypeOK
  <2>7. TypeOK' /\ NoLeak'
    <3>1. Cardinality(fds') <= Len(Eps)
      BY <2>5, FewFds
    <3>2. h' \in [Names -> {NoFd} \cup 0..nextfd] /\ {h'[e] : e \in Names} \subseteq {NoFd}
      BY <2>0 DEF Shut
    <3> QED BY <1>k, <1>g, <1>u, <2>0, <2>5, <2>6, <3>1, <3>2 DEF TypeOK, NoLeak
  <2>8. Handle'
    <3>1. First \in Names
      BY Fields
    <3> QED BY <1>k, <1>u, <2>0, <2>6, <3>1 DEF Handle, Shut, NoFd
  <2>9. ASSUME NEW u \in Ts PROVE ThreadsOf(u)' /\ ~Live(u)'
    <3>0. ThreadsOf(u) /\ (Live(u) => u = last)
      BY <1>k DEF Session
    <3>1. CASE u = t
      BY <1>u, <2>0, <2>1, <2>2, <3>0, <3>1, LiveThreads DEF ThreadsOf, Ending
    <3>2. CASE u # t
      BY <1>u, <2>0, <2>1, <2>3, <3>0, <3>2, LiveThreads DEF ThreadsOf, Ending
    <3> QED BY <3>1, <3>2
  <2> QED BY <2>7, <2>8, <2>9 DEF IInv, HandleInStep, Session
<1> QED BY <1>1, <1>2 DEF Kick

-----------------------------------------------------------------------------
(* The theorems.                                                           *)

\* The invariant holds in every reachable state.
THEOREM Invariance == Spec => []IInv
<1>1. IInv /\ [Next]_vars => IInv'
  <2> SUFFICES ASSUME IInv, [Next]_vars PROVE IInv'
    OBVIOUS
  <2>1. CASE Opener \/ spurious_wakeup
    BY <2>1, OpenerInv
  <2>2. ASSUME NEW t \in Ts, Output(t) \/ Input(t) PROVE IInv'
    BY <2>2, TransferInv
  <2>3. ASSUME NEW t \in Ts, NEW th \in Threads, Kick(th, t) PROVE IInv'
    BY <2>3, KickInv
  <2>4. CASE unplug
    <3>1. /\ UNCHANGED <<ffs, h, openVars, fds, threadVars, dataVars, stray>>
          /\ dead' \subseteq fds'
      BY <2>4 DEF unplug, IInv, HandleInStep, TypeOK
    <3>2. /\ Eps' = Eps /\ Names' = Names /\ First' = First
          /\ TypeOK /\ NoLeak /\ Handle /\ Session /\ \A u \in Ts : ThreadsOf(u)
      BY <3>1, SameKind DEF IInv, HandleInStep
    <3>3. TypeOK' /\ NoLeak' /\ Handle'
      BY <3>1, <3>2 DEF TypeOK, NoLeak, Handle, openVars, threadVars, dataVars
    <3>4. (\A u \in Ts : ThreadsOf(u)') /\ (\A u \in Ts : Live(u)' <=> Live(u))
      BY <3>1, <3>2, ThreadsKept DEF openVars, threadVars, dataVars
    <3>5. Session'
      BY <3>1, <3>2, <3>4 DEF Session, openVars
    <3> QED BY <3>3, <3>4, <3>5 DEF IInv, HandleInStep
  <2>5. CASE UNCHANGED vars
    <3>1. UNCHANGED <<ffs, h, openVars, fds, dead, threadVars, dataVars, stray>>
      BY <2>5 DEF vars
    <3>2. /\ Eps' = Eps /\ Names' = Names /\ First' = First
          /\ TypeOK /\ NoLeak /\ Handle /\ Session /\ \A u \in Ts : ThreadsOf(u)
      BY <3>1, SameKind DEF IInv, HandleInStep
    <3>3. TypeOK' /\ NoLeak' /\ Handle'
      BY <3>1, <3>2 DEF TypeOK, NoLeak, Handle, openVars, threadVars, dataVars
    <3>4. (\A u \in Ts : ThreadsOf(u)') /\ (\A u \in Ts : Live(u)' <=> Live(u))
      BY <3>1, <3>2, ThreadsKept DEF openVars, threadVars, dataVars
    <3>5. Session'
      BY <3>1, <3>2, <3>4 DEF Session, openVars
    <3> QED BY <3>3, <3>4, <3>5 DEF IInv, HandleInStep
  <2> QED BY <2>1, <2>2, <2>3, <2>4, <2>5 DEF Next
<1> QED BY <1>1, InitInv, PTL DEF Spec

\* The open endpoint files are exactly those the handle knows, and nothing else
\* is ever closed, however the steps of init_functionfs fail and the two
\* threads of a transport kick.
THEOREM HandleIsInStep == Spec => []HandleInStep
<1>1. IInv => HandleInStep
  BY DEF IInv
<1> QED BY <1>1, Invariance, PTL

\* usb_ffs_open_thread registers a transport only when the last one was kicked.
THEOREM SessionsAreOne == Spec => []OneSession
<1>1. IInv => OneSession
  BY DEF IInv, Session, OneSession
<1> QED BY <1>1, Invariance, PTL

\* usb_read, usb_write and usb_kick find their own transport's endpoints in the
\* shared handle; only writes after the kick may find others.
THEOREM EndpointsAreOwn == Spec => []OwnEndpoints
<1>1. IInv => OwnEndpoints
  <2> SUFFICES ASSUME IInv, NEW t \in Ts
               PROVE  /\ outpc[t] = "read" => h = own[t]
                      /\ inpc[t] \in {"header", "data"} /\ ~kicked[t] => h = own[t]
                      /\ \A th \in Threads : pc(th)[t] = "call" => h = own[t]
    BY DEF OwnEndpoints
  <2>1. ThreadsOf(t) /\ (Live(t) => h = own[t]) /\ t \in Nat /\ last \in Nat
    BY UsbAssumption DEF IInv, Session, HandleInStep, TypeOK, Ts
  <2> QED BY <2>1, LiveThreads DEF ThreadsOf, Ending, Threads, pc
<1> QED BY <1>1, Invariance, PTL
=============================================================================
