--------------------------- MODULE ServicesProofs ---------------------------
(***************************************************************************)
(* Proofs about Services, for any number of streams and descriptor numbers *)
(* and any sizes.  The inductive invariant says that a stream which was    *)
(* not opened holds nothing, and that a waiter has written at most one     *)
(* number when it is done: so the messages are never more than the streams.*)
(***************************************************************************)
EXTENDS Services, TLAPS, FiniteSetTheorems, SequenceTheorems

-----------------------------------------------------------------------------
(* The inductive invariant.                                                *)

Rec ==
  [kind : {"none", "shell", "frame", "thread"}, fd : Nums \cup {NoFd},
   sock : {"none", "open", "gone"}, exits : BOOLEAN, force : BOOLEAN, watch : BOOLEAN,
   asked : BOOLEAN, unread : 0..Cap, out : 0..MaxOut, holders : SUBSET {"main", "bg"},
   child : {"none", "run", "zombie", "reaped"},
   waiter : {"none", "wait", "notify", "spin", "head", "copy", "done"},
   target : {"none", "own", "group", "any"},
   size : {0} \cup Sizes, made : Nat, got : Nat]

\* The waiters that are done.
Done == {i \in Streams : st[i].waiter = "done"}

Typed == st \in [Streams -> Rec] /\ notes \in Seq(Nums \cup {NoFd}) /\ alive \in BOOLEAN
Fresh == \A i \in Streams : st[i].kind = "none" => st[i].sock = "none" /\ st[i].waiter = "none"
Noted == Len(notes) <= Cardinality(Done)

IInv == Typed /\ Fresh /\ Noted

-----------------------------------------------------------------------------

LEMMA DoneFinite ==
  ASSUME NEW D, D \subseteq Streams
  PROVE  IsFiniteSet(D) /\ Cardinality(D) \in Nat /\ Cardinality(D) <= MaxStreams
<1>1. IsFiniteSet(Streams) /\ Cardinality(Streams) = MaxStreams
  <2>1. MaxStreams \in Nat
    BY ServicesAssumption
  <2>2. IsFiniteSet(1..MaxStreams) /\ Cardinality(1..MaxStreams) = MaxStreams
    BY <2>1, FS_Interval
  <2> QED BY <2>2 DEF Streams
<1>2. IsFiniteSet(D) /\ Cardinality(D) <= Cardinality(Streams)
  BY <1>1, FS_Subset
<1> QED BY <1>1, <1>2, FS_CardinalityType

\* The invariant gives the types.
LEMMA Types == IInv => TypeOK
<1> SUFFICES ASSUME IInv PROVE TypeOK
  OBVIOUS
<1>1. Len(notes) \in Nat
  BY LenProperties, EmptySeq, ElementOfSeq DEF IInv, Typed
<1>2. Cardinality(Done) \in Nat /\ Cardinality(Done) <= MaxStreams
  BY DoneFinite DEF Done
<1>3. Len(notes) <= MaxStreams
  BY <1>1, <1>2, ServicesAssumption DEF IInv, Noted
<1> QED BY <1>3 DEF IInv, Typed, TypeOK, Rec

\* A step that queues no message.
LEMMA Keeps ==
  ASSUME IInv, st' \in [Streams -> Rec], alive' \in BOOLEAN,
         notes' = notes \/ (notes # <<>> /\ notes' = Tail(notes)),
         \A i \in Streams :
           /\ st[i].waiter = "done" => st'[i].waiter = "done"
           /\ st'[i].kind = "none" => st'[i].sock = "none" /\ st'[i].waiter = "none"
  PROVE  IInv'
<1>0. notes \in Seq(Nums \cup {NoFd})
  BY DEF IInv, Typed
<1>1. notes' \in Seq(Nums \cup {NoFd}) /\ Len(notes') <= Len(notes)
      /\ Len(notes) \in Nat /\ Len(notes') \in Nat
  <2>1. CASE notes' = notes
    BY <1>0, <2>1, LenProperties, EmptySeq, ElementOfSeq
  <2>2. CASE notes # <<>> /\ notes' = Tail(notes)
    BY <1>0, <2>2, HeadTailProperties, EmptySeq, LenProperties, ElementOfSeq
  <2> QED BY <2>1, <2>2
<1>2. Done \subseteq Done'
  BY DEF Done
<1>3. IsFiniteSet(Done') /\ Cardinality(Done') \in Nat /\ Cardinality(Done) \in Nat
  BY DoneFinite DEF Done
<1>4. Cardinality(Done) <= Cardinality(Done')
  BY <1>2, <1>3, FS_Subset
<1>5. Noted'
  BY <1>1, <1>3, <1>4 DEF IInv, Noted
<1> QED BY <1>1, <1>5 DEF IInv, Typed, Fresh

\* Such a step of one stream.
LEMMA KeepsOne ==
  ASSUME IInv, NEW i \in Streams, NEW r \in Rec, Upd(i, r), alive' \in BOOLEAN,
         notes' = notes \/ (notes # <<>> /\ notes' = Tail(notes)),
         st[i].waiter = "done" => r.waiter = "done",
         r.kind = "none" => r.sock = "none" /\ r.waiter = "none"
  PROVE  IInv'
<1>1. st \in [Streams -> Rec] /\ st' = [st EXCEPT ![i] = r]
  BY DEF IInv, Typed, Upd
<1>2. st' \in [Streams -> Rec]
  BY <1>1
<1>3. ASSUME NEW j \in Streams
      PROVE  /\ st[j].waiter = "done" => st'[j].waiter = "done"
             /\ st'[j].kind = "none" => st'[j].sock = "none" /\ st'[j].waiter = "none"
  <2>1. st'[j] = IF j = i THEN r ELSE st[j]
    BY <1>1
  <2> QED BY <2>1 DEF IInv, Fresh
<1> QED BY <1>2, <1>3, Keeps

\* Some stream takes the exit status of another, or of its own process.
LEMMA KeepsReaped ==
  ASSUME IInv, NEW i \in Streams, NEW j \in Streams, NEW w \in {"wait", "notify", "done"},
         NEW H \in SUBSET {"main", "bg"}, Reaped(i, j, w, H), UNCHANGED <<notes, alive>>,
         st[i].waiter # "done", st[i].kind # "none"
  PROVE  IInv'
<1>1. st \in [Streams -> Rec]
  BY DEF IInv, Typed
<1>2. ASSUME NEW k \in Streams
      PROVE  /\ st'[k] \in Rec /\ st'[k].kind = st[k].kind /\ st'[k].sock = st[k].sock
             /\ st'[k].waiter = IF k = i THEN w ELSE st[k].waiter
  <2>1. PICK a : a = [st EXCEPT ![j] = [st[j] EXCEPT !.child = "reaped"]]
    OBVIOUS
  <2>2. [st[j] EXCEPT !.child = "reaped"] \in Rec
    BY <1>1 DEF Rec
  <2>3. a \in [Streams -> Rec]
    BY <1>1, <2>1, <2>2
  <2>4. \A x \in Streams : /\ a[x].kind = st[x].kind /\ a[x].sock = st[x].sock
                            /\ a[x].waiter = st[x].waiter
    BY <1>1, <2>1 DEF Rec
  <2>5. PICK r : r = [a[i] EXCEPT !.waiter = w, !.holders = H]
    OBVIOUS
  <2>6. r \in Rec /\ r.kind = a[i].kind /\ r.sock = a[i].sock /\ r.waiter = w
    <3>1. a[i] \in Rec
      BY <2>3
    <3>2. r.kind = a[i].kind /\ r.sock = a[i].sock /\ r.waiter = w
      BY <2>5, <3>1 DEF Rec
    <3>3. r \in Rec
      BY <2>5, <3>1 DEF Rec
    <3> QED BY <3>2, <3>3
  <2>7. st' = [a EXCEPT ![i] = r]
    BY <1>1, <2>1, <2>5 DEF Reaped
  <2>8. st'[k] = IF k = i THEN r ELSE a[k]
    BY <2>3, <2>7
  <2> QED BY <2>3, <2>4, <2>6, <2>8
<1>3. st' \in [Streams -> Rec]
  <2>1. st' = [k \in Streams |-> st'[k]]
    BY <1>1 DEF Reaped
  <2> QED BY <1>2, <2>1
<1>4. ASSUME NEW k \in Streams
      PROVE  /\ st[k].waiter = "done" => st'[k].waiter = "done"
             /\ st'[k].kind = "none" => st'[k].sock = "none" /\ st'[k].waiter = "none"
  BY <1>2 DEF IInv, Fresh
<1>5. alive' \in BOOLEAN
  BY DEF IInv, Typed
<1> QED BY <1>3, <1>4, <1>5, Keeps

-----------------------------------------------------------------------------
(* The records.                                                            *)

LEMMA UnusedType == Unused \in Rec
<1>1. Cap \in Nat /\ MaxOut \in Nat
  BY ServicesAssumption
<1>2. 0 \in 0..Cap /\ 0 \in 0..MaxOut
  BY <1>1
<1> QED BY <1>2 DEF Unused, Rec

LEMMA ConnectedType ==
  ASSUME NEW k \in {"shell", "frame", "thread"}, NEW n \in Nums
  PROVE  Connected(k, n) \in Rec /\ Connected(k, n).kind = k
<1>3. Unused \in Rec
  BY UnusedType
<1>4. Connected(k, n) = [Unused EXCEPT !.kind = k, !.fd = n, !.sock = "open", !.watch = TRUE,
                                       !.holders = {"main"}]
  BY DEF Connected
<1>5. Connected(k, n) \in Rec /\ Connected(k, n).kind = k
  <2>1. PICK u : u = Unused
    OBVIOUS
  <2>2. PICK c : c = [u EXCEPT !.kind = k, !.fd = n, !.sock = "open", !.watch = TRUE,
                               !.holders = {"main"}]
    OBVIOUS
  <2>3. u \in Rec
    BY <1>3, <2>1
  <2>4. c \in Rec /\ c.kind = k
    BY <2>2, <2>3 DEF Rec
  <2>5. c = Connected(k, n)
    BY <1>4, <2>1, <2>2
  <2> QED BY <2>4, <2>5
<1> QED BY <1>5

\* local_socket_event_func closes a stream only at its end.
LEMMA EventType ==
  ASSUME NEW r \in Rec
  PROVE  /\ Destroyed(r) \in Rec /\ Destroyed(r).kind = r.kind /\ Destroyed(r).waiter = r.waiter
         /\ Event(r) \in Rec /\ Event(r).kind = r.kind /\ Event(r).waiter = r.waiter
         /\ Event(r).sock = r.sock \/ (r.holders = {} /\ r.unread < Payload)
<1>0. Cap \in Nat /\ MaxOut \in Nat /\ Payload \in Nat /\ 0 \in 0..Cap /\ 0 \in 0..MaxOut
  BY ServicesAssumption
<1>1. ASSUME NEW x \in Rec
      PROVE  Destroyed(x) \in Rec /\ Destroyed(x).kind = x.kind /\ Destroyed(x).waiter = x.waiter
  <2>1. PICK d : d = [x EXCEPT !.sock = "gone", !.watch = FALSE, !.force = FALSE, !.unread = 0, !.out = 0]
    OBVIOUS
  <2>2. d.kind = x.kind /\ d.waiter = x.waiter
    BY <2>1 DEF Rec
  <2>3. d \in Rec
    BY <1>0, <2>1 DEF Rec
  <2> QED BY <2>1, <2>2, <2>3 DEF Destroyed
<1> DEFINE n == IF r.unread < Payload THEN r.unread ELSE Payload
           result == IF n > 0 THEN 1 ELSE IF saw_eof(r) /\ r.kind # "shell" THEN 0 ELSE -1
           read == [r EXCEPT !.unread = @ - n, !.watch = IF n > 0 THEN FALSE ELSE @]
<1>2. r.unread - n \in 0..Cap
  <2>1. r.unread \in 0..Cap
    BY DEF Rec
  <2> QED BY <1>0, <2>1
<1>3. result = 0 => saw_eof(r)
  OBVIOUS
<1> HIDE DEF n
<1>4. read \in Rec /\ read.kind = r.kind /\ read.waiter = r.waiter /\ read.sock = r.sock
  BY <1>2 DEF Rec
<1>5. Event(r) = IF closes(r.force, result, saw_eof(r)) THEN Destroyed(read) ELSE read
  BY DEF Event, n
<1> HIDE DEF result, read
<1>6. CASE closes(r.force, result, saw_eof(r))
  <2>1. saw_eof(r)
    BY <1>3, <1>6 DEF closes
  <2>2. r.holders = {} /\ r.unread < Payload
    BY <2>1 DEF saw_eof
  <2> QED BY <1>1, <1>4, <1>5, <1>6, <2>2
<1>7. CASE ~closes(r.force, result, saw_eof(r))
  BY <1>1, <1>4, <1>5, <1>7
<1> QED BY <1>6, <1>7

-----------------------------------------------------------------------------
(* The steps.                                                              *)

\* A stream is opened.
LEMMA OpenKeeps ==
  ASSUME IInv, NEW i \in Streams, service_to_fd(i)
  PROVE  IInv' /\ st[i].kind = "none" /\ \E r : Upd(i, r)
<1>1. /\ st[i].kind = "none" /\ UNCHANGED <<notes, alive>> /\ alive' \in BOOLEAN
      /\ st[i].waiter # "done"
  BY DEF service_to_fd, create_subproc_thread, create_subproc_thread_fails, create_service_thread,
         framebuffer_service, IInv, Typed, Fresh
<1>2. Unused \in Rec /\ NewFd \subseteq Nums
  BY UnusedType DEF NewFd, Free
<1>3. \A n \in NewFd, k \in {"shell", "frame", "thread"} : Connected(k, n) \in Rec /\ Connected(k, n).kind = k
  BY <1>2, ConnectedType
<1>5. \E r \in Rec : Upd(i, r) /\ r.kind # "none"
  <2>1. CASE create_subproc_thread(i)
    <3> DEFINE failed == [Unused EXCEPT !.kind = "shell", !.sock = "gone", !.waiter = "wait"]
    <3>1. failed \in Rec /\ failed.kind = "shell"
      BY <1>2 DEF Rec, Unused
    <3>2. ASSUME NEW n \in NewFd,
                 Upd(i, [Connected("shell", n) EXCEPT !.child = "run", !.waiter = "wait", !.target = waits_for(TRUE)])
          PROVE  \E r \in Rec : Upd(i, r) /\ r.kind # "none"
      <4>1. PICK c : c = Connected("shell", n)
        OBVIOUS
      <4>2. c \in Rec /\ c.kind = "shell"
        BY <1>3, <4>1
      <4>3. PICK r : r = [c EXCEPT !.child = "run", !.waiter = "wait", !.target = "own"]
        OBVIOUS
      <4>4. r \in Rec /\ r.kind = c.kind
        BY <4>2, <4>3 DEF Rec
      <4>5. Upd(i, r)
        BY <3>2, <4>1, <4>3 DEF waits_for
      <4> QED BY <4>2, <4>4, <4>5
    <3>3. ASSUME NEW tg \in {"group", "any"}, Upd(i, [failed EXCEPT !.target = tg])
          PROVE  \E r \in Rec : Upd(i, r) /\ r.kind # "none"
      <4>1. PICK c : c = failed
        OBVIOUS
      <4>2. c \in Rec /\ c.kind = "shell"
        BY <3>1, <4>1
      <4> HIDE DEF failed
      <4>3. PICK r : r = [c EXCEPT !.target = tg]
        OBVIOUS
      <4>4. r \in Rec /\ r.kind = c.kind
        BY <4>2, <4>3 DEF Rec
      <4>5. Upd(i, r)
        BY <3>3, <4>1, <4>3
      <4> QED BY <4>2, <4>4, <4>5
    <3> QED BY <2>1, <3>2, <3>3 DEF create_subproc_thread, waits_for
  <2>2. CASE create_subproc_thread_fails(i)
    <3>1. PICK r : r = [Unused EXCEPT !.kind = "shell", !.sock = "gone", !.child = "run", !.holders = {"main"}]
      OBVIOUS
    <3>2. r \in Rec /\ r.kind = "shell"
      BY <1>2, <3>1 DEF Rec, Unused
    <3> QED BY <2>2, <3>1, <3>2 DEF create_subproc_thread_fails
  <2>3. CASE create_service_thread(i)
    <3>1. ASSUME NEW n \in NewFd, NEW x \in BOOLEAN, Upd(i, [Connected("thread", n) EXCEPT !.exits = x])
          PROVE  \E r \in Rec : Upd(i, r) /\ r.kind # "none"
      <4>1. PICK c : c = Connected("thread", n)
        OBVIOUS
      <4>2. c \in Rec /\ c.kind = "thread"
        BY <1>3, <4>1
      <4>3. PICK r : r = [c EXCEPT !.exits = x]
        OBVIOUS
      <4>4. r \in Rec /\ r.kind = c.kind
        BY <4>2, <4>3 DEF Rec
      <4> QED BY <3>1, <4>1, <4>2, <4>3, <4>4
    <3>2. PICK r : r = [Unused EXCEPT !.kind = "thread", !.sock = "gone"]
      OBVIOUS
    <3>3. r \in Rec /\ r.kind = "thread"
      BY <1>2, <3>2 DEF Rec, Unused
    <3> QED BY <2>3, <3>1, <3>2, <3>3 DEF create_service_thread
  <2>4. CASE framebuffer_service(i)
    <3>1. PICK n \in NewFd :
            LET r == Connected("frame", n) IN
            \/ Upd(i, [r EXCEPT !.child = "run", !.waiter = "head"])
            \/ Upd(i, [r EXCEPT !.waiter = "wait", !.target = "any"])
      BY <2>4 DEF framebuffer_service
    <3>2. PICK c : c = Connected("frame", n)
      OBVIOUS
    <3>3. c \in Rec /\ c.kind = "frame"
      BY <1>3, <3>2
    <3>4. PICK r : /\ Upd(i, r)
                   /\ \/ r = [c EXCEPT !.child = "run", !.waiter = "head"]
                      \/ r = [c EXCEPT !.waiter = "wait", !.target = "any"]
      BY <3>1, <3>2, Zenon
    <3>5. ASSUME r = [c EXCEPT !.child = "run", !.waiter = "head"]
          PROVE  r \in Rec /\ r.kind # "none"
      BY <3>3, <3>5 DEF Rec
    <3>6. ASSUME r = [c EXCEPT !.waiter = "wait", !.target = "any"]
          PROVE  r \in Rec /\ r.kind # "none"
      BY <3>3, <3>6 DEF Rec
    <3> QED BY <3>4, <3>5, <3>6
  <2> QED BY <2>1, <2>2, <2>3, <2>4 DEF service_to_fd
<1> QED BY <1>1, <1>5, KeepsOne

\* The message of a waiter.
LEMMA NotifyKeeps ==
  ASSUME IInv, NEW i \in Streams, notify(i)
  PROVE  IInv' /\ st'[i].sock = st[i].sock /\ \E r : Upd(i, r)
<1>1. /\ st \in [Streams -> Rec] /\ notes \in Seq(Nums \cup {NoFd}) /\ st[i].waiter = "notify"
      /\ notes' = Append(notes, st[i].fd) /\ alive' = alive /\ alive \in BOOLEAN
  BY DEF IInv, Typed, notify
<1>2. PICK r : r = [st[i] EXCEPT !.waiter = "done"]
  OBVIOUS
<1>3. r \in Rec /\ r.kind = st[i].kind /\ r.sock = st[i].sock /\ r.waiter = "done" /\ st[i].fd \in Nums \cup {NoFd}
  <2>1. st[i] \in Rec
    BY <1>1
  <2>2. r.kind = st[i].kind /\ r.sock = st[i].sock /\ r.waiter = "done" /\ st[i].fd \in Nums \cup {NoFd}
    BY <1>2, <2>1 DEF Rec
  <2>3. r \in Rec
    BY <1>2, <2>1 DEF Rec
  <2> QED BY <2>2, <2>3
<1>4. st' = [st EXCEPT ![i] = r]
  BY <1>2 DEF notify, Upd, after_notify
<1>5. st' \in [Streams -> Rec] /\ \A k \in Streams : st'[k] = IF k = i THEN r ELSE st[k]
  BY <1>1, <1>3, <1>4
<1>6. /\ notes' \in Seq(Nums \cup {NoFd}) /\ Len(notes') = Len(notes) + 1 /\ Len(notes) \in Nat
  BY <1>1, <1>3, AppendProperties, LenProperties, EmptySeq, ElementOfSeq
<1>7. Done' = Done \cup {i} /\ i \notin Done
  BY <1>1, <1>3, <1>5 DEF Done
<1>8. IsFiniteSet(Done) /\ Cardinality(Done) \in Nat
  BY DoneFinite DEF Done
<1>9. Cardinality(Done \cup {i}) = Cardinality(Done) + 1
  BY <1>7, <1>8, FS_AddElement
<1>10. Noted'
  BY <1>6, <1>7, <1>8, <1>9 DEF IInv, Noted
<1>11. Fresh'
  BY <1>1, <1>3, <1>5 DEF IInv, Fresh
<1> QED BY <1>1, <1>3, <1>4, <1>5, <1>6, <1>10, <1>11 DEF IInv, Typed, Upd

\* A stream is closed at its end, or by the host.
Ends(i) == st'[i].asked \/ (st[i].holders = {} /\ st[i].unread < Payload)

\* Every step keeps the invariant, and closes only streams that have ended.
LEMMA Step ==
  ASSUME IInv, Next
  PROVE  IInv' /\ \A k \in Streams : st[k].sock = "open" /\ st'[k].sock = "gone" => Ends(k)
<1> DEFINE Good == \A k \in Streams : st[k].sock = "open" /\ st'[k].sock = "gone" => Ends(k)
<1>0. /\ st \in [Streams -> Rec] /\ alive \in BOOLEAN /\ notes \in Seq(Nums \cup {NoFd})
      /\ Cap \in Nat /\ MaxOut \in Nat
  BY ServicesAssumption DEF IInv, Typed
\* One stream's record becomes r, with its socket as it was.
<1>k. ASSUME NEW i \in Streams, NEW r \in Rec, Upd(i, r), UNCHANGED <<notes, alive>>,
             st[i].waiter = "done" => r.waiter = "done", r.kind = st[i].kind, r.sock = st[i].sock,
             st[i].kind = "none" => r.waiter = st[i].waiter
      PROVE  IInv' /\ Good
  <2>0. r.kind = "none" => r.sock = "none" /\ r.waiter = "none"
    BY <1>k DEF IInv, Fresh
  <2>1. IInv'
    BY <1>0, <1>k, <2>0, KeepsOne
  <2>2. \A k \in Streams : st'[k].sock = st[k].sock
    BY <1>0, <1>k DEF Upd
  <2> QED BY <2>1, <2>2
\* Its socket is closed.
<1>c. ASSUME NEW i \in Streams, NEW r \in Rec, Upd(i, r), alive' \in BOOLEAN,
             notes' = notes \/ (notes # <<>> /\ notes' = Tail(notes)),
             st[i].waiter = "done" => r.waiter = "done", r.kind # "none",
             r.sock = st[i].sock \/ r.asked \/ (st[i].holders = {} /\ st[i].unread < Payload)
      PROVE  IInv' /\ Good
  <2>1. IInv'
    BY <1>c, KeepsOne
  <2>2. \A k \in Streams : st'[k] = IF k = i THEN r ELSE st[k]
    BY <1>0, <1>c DEF Upd
  <2> QED BY <1>c, <2>1, <2>2 DEF Ends
<1>1. ASSUME NEW i \in Streams, service_to_fd(i) PROVE IInv' /\ Good
  <2>1. IInv' /\ st[i].kind = "none"
    BY <1>1, OpenKeeps
  <2>2. PICK r : Upd(i, r)
    BY <1>1, OpenKeeps
  <2>3. \A k \in Streams : k # i => st'[k] = st[k]
    BY <1>0, <2>2 DEF Upd
  <2>4. st[i].sock = "none"
    BY <2>1 DEF IInv, Fresh
  <2> QED BY <2>1, <2>3, <2>4
<1>2. ASSUME NEW i \in Streams, shell_output(i) \/ service_output(i) PROVE IInv' /\ Good
  <2>1. PICK r : r = [st[i] EXCEPT !.unread = @ + 1, !.out = @ + 1]
    OBVIOUS
  <2>2. /\ Upd(i, r) /\ UNCHANGED <<notes, alive>> /\ st[i] \in Rec
        /\ st[i].unread < Cap /\ st[i].out < MaxOut
    BY <1>0, <1>2, <2>1 DEF shell_output, service_output
  <2>3. st[i].unread + 1 \in 0..Cap /\ st[i].out + 1 \in 0..MaxOut
    <3>1. st[i].unread \in 0..Cap /\ st[i].out \in 0..MaxOut
      BY <2>2 DEF Rec
    <3> QED BY <1>0, <2>2, <3>1
  <2>4. r.waiter = st[i].waiter /\ r.kind = st[i].kind /\ r.sock = st[i].sock
    BY <2>1, <2>2 DEF Rec
  <2>5. r \in Rec
    BY <2>1, <2>2, <2>3 DEF Rec
  <2> QED BY <1>k, <2>2, <2>4, <2>5
<1>3. ASSUME NEW i \in Streams,
             \/ shell_exit(i) \/ background_exit(i) \/ service_exit(i) \/ host_okay(i)
             \/ screencap_exit(i)
      PROVE  IInv' /\ Good
  <2>1. UNCHANGED <<notes, alive>> /\ st[i] \in Rec
    BY <1>0, <1>3 DEF shell_exit, background_exit, service_exit, host_okay, screencap_exit
  <2>2. PICK r :
          /\ Upd(i, r)
          /\ \/ \E H \in {{}, {"bg"}} : r = [st[i] EXCEPT !.child = "zombie", !.holders = H]
             \/ r = [st[i] EXCEPT !.holders = {}]
             \/ r = [st[i] EXCEPT !.watch = TRUE]
             \/ r = [st[i] EXCEPT !.child = "zombie"]
    BY <1>3, Zenon DEF shell_exit, background_exit, service_exit, host_okay, screencap_exit
  <2>3. r.waiter = st[i].waiter /\ r.kind = st[i].kind /\ r.sock = st[i].sock
    BY <2>1, <2>2 DEF Rec
  <2>4. r \in Rec
    <3>1. ASSUME NEW H \in {{}, {"bg"}}, r = [st[i] EXCEPT !.child = "zombie", !.holders = H] PROVE r \in Rec
      BY <2>1, <3>1 DEF Rec
    <3>2. ASSUME r = [st[i] EXCEPT !.holders = {}] PROVE r \in Rec
      BY <2>1, <3>2 DEF Rec
    <3>3. ASSUME r = [st[i] EXCEPT !.watch = TRUE] PROVE r \in Rec
      BY <2>1, <3>3 DEF Rec
    <3>4. ASSUME r = [st[i] EXCEPT !.child = "zombie"] PROVE r \in Rec
      BY <2>1, <3>4 DEF Rec
    <3> QED BY <2>2, <3>1, <3>2, <3>3, <3>4, Zenon
  <2> QED BY <1>k, <2>1, <2>2, <2>3, <2>4
<1>4. ASSUME NEW i \in Streams,
             screencap_header(i) \/ screencap_output(i) \/ frame_header(i) \/ frame_copy(i)
      PROVE  IInv' /\ Good
  <2>1. UNCHANGED <<notes, alive>> /\ st[i] \in Rec /\ st[i].kind = "frame"
    BY <1>0, <1>4 DEF screencap_header, screencap_output, frame_header, frame_copy
  <2>2. PICK r :
          /\ Upd(i, r)
          /\ \/ \E z \in Sizes : r = [st[i] EXCEPT !.size = z]
             \/ r = [st[i] EXCEPT !.made = @ + 1]
             \/ st[i].waiter = "head" /\ r = [st[i] EXCEPT !.waiter = "copy"]
             \/ st[i].waiter \in {"head", "copy"} /\ r = [st[i] EXCEPT !.waiter = "wait", !.target = "own"]
             \/ st[i].unread < Cap /\ r = [st[i] EXCEPT !.got = @ + 1, !.unread = @ + 1]
    <3>1. CASE screencap_header(i) \/ screencap_output(i)
      BY <3>1, Zenon DEF screencap_header, screencap_output
    <3>2. CASE frame_header(i)
      BY <3>2, Zenon DEF frame_header
    <3>3. CASE frame_copy(i)
      BY <3>3, Zenon DEF frame_copy
    <3> QED BY <1>4, <3>1, <3>2, <3>3
  <2>3. /\ st[i].made + 1 \in Nat /\ st[i].got + 1 \in Nat
        /\ st[i].unread < Cap => st[i].unread + 1 \in 0..Cap
    <3>1. st[i].unread \in 0..Cap /\ st[i].made \in Nat /\ st[i].got \in Nat
      BY <2>1 DEF Rec
    <3> QED BY <1>0, <3>1
  <2>4. /\ r.kind = st[i].kind /\ r.sock = st[i].sock
        /\ st[i].waiter = "done" => r.waiter = "done"
    BY <2>1, <2>2 DEF Rec
  <2>5. r \in Rec
    <3>1. ASSUME r = [st[i] EXCEPT !.made = @ + 1] PROVE r \in Rec
      BY <2>1, <2>3, <3>1 DEF Rec
    <3>2. ASSUME r = [st[i] EXCEPT !.waiter = "wait", !.target = "own"] PROVE r \in Rec
      BY <2>1, <3>2 DEF Rec
    <3>3. ASSUME st[i].unread < Cap, r = [st[i] EXCEPT !.got = @ + 1, !.unread = @ + 1] PROVE r \in Rec
      BY <2>1, <2>3, <3>3 DEF Rec
    <3>4. ASSUME NEW z \in Sizes, r = [st[i] EXCEPT !.size = z] PROVE r \in Rec
      BY <2>1, <3>4 DEF Rec
    <3>5. ASSUME r = [st[i] EXCEPT !.waiter = "copy"] PROVE r \in Rec
      BY <2>1, <3>5 DEF Rec
    <3> QED BY <2>2, <3>1, <3>2, <3>3, <3>4, <3>5, Zenon
  <2> QED BY <1>k, <2>1, <2>2, <2>4, <2>5
<1>5. ASSUME NEW i \in Streams, subproc_waiter_service(i) \/ frame_wait(i) PROVE IInv' /\ Good
  <2>1. /\ UNCHANGED <<notes, alive>> /\ st[i] \in Rec /\ st[i].kind # "none"
        /\ st[i].waiter \in {"wait", "spin"}
    BY <1>0, <1>5 DEF subproc_waiter_service, frame_wait
  <2>2. CASE \E j \in Exited(i) : \/ Reaped(i, j, wait_again(i, j), st[i].holders)
                                  \/ Reaped(i, j, "done", {})
    <3>1. PICK j \in Exited(i) : \/ Reaped(i, j, wait_again(i, j), st[i].holders)
                                 \/ Reaped(i, j, "done", {})
      BY <2>2
    <3>2. j \in Streams
      BY <3>1 DEF Exited, Awaited
    <3>3. st[i].holders \in SUBSET {"main", "bg"} /\ wait_again(i, j) \in {"notify", "wait"}
      BY <2>1 DEF Rec, wait_again
    <3>4. IInv'
      BY <2>1, <3>1, <3>2, <3>3, KeepsReaped
    <3>5. ASSUME NEW k \in Streams PROVE st'[k].sock = st[k].sock
      <4>1. PICK w, H : Reaped(i, j, w, H)
        BY <3>1
      <4>2. PICK a : a = [st EXCEPT ![j] = [st[j] EXCEPT !.child = "reaped"]]
        OBVIOUS
      <4>3. a \in [Streams -> Rec] /\ \A x \in Streams : a[x].sock = st[x].sock
        <5>1. [st[j] EXCEPT !.child = "reaped"] \in Rec /\ [st[j] EXCEPT !.child = "reaped"].sock = st[j].sock
          <6>1. st[j] \in Rec
            BY <1>0, <3>2
          <6> QED BY <6>1 DEF Rec
        <5> QED BY <1>0, <3>2, <4>2, <5>1
      <4>4. PICK r : r = [a[i] EXCEPT !.waiter = w, !.holders = H]
        OBVIOUS
      <4>5. r.sock = a[i].sock
        BY <4>3, <4>4 DEF Rec
      <4>6. st' = [a EXCEPT ![i] = r]
        BY <1>0, <3>2, <4>1, <4>2, <4>4 DEF Reaped
      <4> QED BY <4>3, <4>5, <4>6
    <3> QED BY <3>4, <3>5
  <2>3. CASE ~ \E j \in Exited(i) : \/ Reaped(i, j, wait_again(i, j), st[i].holders)
                                    \/ Reaped(i, j, "done", {})
    <3>1. PICK r :
            /\ Upd(i, r)
            /\ \/ r = [st[i] EXCEPT !.waiter = no_children(i)]
               \/ r = [st[i] EXCEPT !.waiter = "done", !.holders = {}]
      BY <1>5, <2>3, Zenon DEF subproc_waiter_service, frame_wait
    <3>2. no_children(i) \in {"notify", "spin"}
      BY DEF no_children
    <3>3. r.kind = st[i].kind /\ r.sock = st[i].sock
      BY <2>1, <3>1 DEF Rec
    <3>4. r \in Rec
      <4>1. ASSUME r = [st[i] EXCEPT !.waiter = no_children(i)] PROVE r \in Rec
        BY <2>1, <3>2, <4>1 DEF Rec
      <4>2. ASSUME r = [st[i] EXCEPT !.waiter = "done", !.holders = {}] PROVE r \in Rec
        BY <2>1, <4>2 DEF Rec
      <4> QED BY <3>1, <4>1, <4>2
    <3> QED BY <1>k, <2>1, <3>1, <3>3, <3>4
  <2> QED BY <2>2, <2>3
<1>6. ASSUME NEW i \in Streams, notify(i) PROVE IInv' /\ Good
  <2>1. IInv' /\ st'[i].sock = st[i].sock
    BY <1>6, NotifyKeeps
  <2>2. \A k \in Streams : k # i => st'[k] = st[k]
    BY <1>0, <1>6 DEF notify, Upd
  <2> QED BY <2>1, <2>2
\* A socket that is open is of a stream that was opened.
<1>o. \A i \in Streams : st[i].sock = "open" => st[i].kind # "none"
  BY DEF IInv, Fresh
<1>7. ASSUME NEW i \in Streams, event_func(i) PROVE IInv' /\ Good
  <2>1. /\ Upd(i, Event(st[i])) /\ notes' = notes /\ st[i] \in Rec /\ st[i].sock = "open"
        /\ alive' \in BOOLEAN
    BY <1>0, <1>7 DEF event_func, Survives
  <2>2. PICK r : r = Event(st[i])
    OBVIOUS
  <2>3. /\ r \in Rec /\ r.kind = st[i].kind /\ r.waiter = st[i].waiter
        /\ r.sock = st[i].sock \/ (st[i].holders = {} /\ st[i].unread < Payload)
    BY <2>1, <2>2, EventType
  <2> QED BY <1>c, <1>o, <2>1, <2>2, <2>3
<1>8. ASSUME NEW i \in Streams, host_close(i) PROVE IInv' /\ Good
  <2>1. PICK d : d = Destroyed(st[i])
    OBVIOUS
  <2>2. PICK r : r = [d EXCEPT !.asked = TRUE]
    OBVIOUS
  <2>3. /\ Upd(i, r) /\ notes' = notes /\ st[i] \in Rec /\ st[i].sock = "open" /\ alive' \in BOOLEAN
    BY <1>0, <1>8, <2>1, <2>2 DEF host_close, Survives
  <2>4. d \in Rec /\ d.kind = st[i].kind /\ d.waiter = st[i].waiter
    BY <2>1, <2>3, EventType
  <2>5. r.kind = d.kind /\ r.waiter = d.waiter /\ r.asked
    BY <2>2, <2>4 DEF Rec
  <2>6. r \in Rec
    BY <2>2, <2>4 DEF Rec
  <2> QED BY <1>c, <1>o, <2>3, <2>4, <2>5, <2>6
<1>9. ASSUME fdevent_subproc_event_func PROVE IInv' /\ Good
  <2>1. notes # <<>> /\ notes' = Tail(notes)
    BY <1>9 DEF fdevent_subproc_event_func
  <2>2. CASE UNCHANGED <<st, alive>>
    <3>1. IInv'
      BY <1>0, <2>1, <2>2, Keeps DEF IInv, Fresh
    <3> QED BY <2>2, <3>1
  <2>3. CASE ~UNCHANGED <<st, alive>>
    <3>1. PICK i \in Open :
            LET r == [st[i] EXCEPT !.force = TRUE]
                e == IF r.unread = 0 THEN Event(r) ELSE r
            IN  Upd(i, e) /\ Survives(i, e)
      BY <1>9, <2>3, Zenon DEF fdevent_subproc_event_func
    <3>2. PICK r : r = [st[i] EXCEPT !.force = TRUE]
      OBVIOUS
    <3>3. PICK e : e = IF r.unread = 0 THEN Event(r) ELSE r
      OBVIOUS
    <3>4. Upd(i, e) /\ alive' \in BOOLEAN /\ i \in Streams /\ st[i].sock = "open" /\ st[i] \in Rec
      BY <1>0, <3>1, <3>2, <3>3 DEF Survives, Open
    <3>5. /\ r.kind = st[i].kind /\ r.waiter = st[i].waiter /\ r.sock = st[i].sock
          /\ r.holders = st[i].holders /\ r.unread = st[i].unread
      BY <3>2, <3>4 DEF Rec
    <3>6. r \in Rec
      BY <3>2, <3>4 DEF Rec
    <3>7. /\ e \in Rec /\ e.kind = r.kind /\ e.waiter = r.waiter
          /\ e.sock = r.sock \/ (r.holders = {} /\ r.unread < Payload)
      BY <3>3, <3>6, EventType
    <3> QED BY <1>c, <1>o, <2>1, <3>4, <3>5, <3>7
  <2> QED BY <2>2, <2>3
<1> HIDE DEF Good
<1>10. IInv' /\ Good
  BY <1>1, <1>2, <1>3, <1>4, <1>5, <1>6, <1>7, <1>8, <1>9 DEF Next, Shell, Waiter, Frame
<1> QED BY <1>10 DEF Good

-----------------------------------------------------------------------------

LEMMA InitInv == Init => IInv
<1> SUFFICES ASSUME Init PROVE IInv
  OBVIOUS
<1>1. Typed
  BY UnusedType, EmptySeq DEF Init, Typed
<1>2. Fresh
  BY DEF Init, Fresh, Unused
<1>3. Noted
  <2>1. Len(notes) = 0
    BY DEF Init
  <2>2. Cardinality(Done) \in Nat
    BY DoneFinite DEF Done
  <2> QED BY <2>1, <2>2 DEF Noted
<1> QED BY <1>1, <1>2, <1>3 DEF IInv

\* The invariant holds in every reachable state.
THEOREM Invariance == Spec => []IInv
<1>1. IInv /\ UNCHANGED vars => IInv'
  BY DEF IInv, Typed, Fresh, Noted, Done, vars
<1>2. IInv /\ [Next]_vars => IInv'
  BY <1>1, Step
<1> QED BY <1>2, InitInv, PTL DEF Spec

\* The streams' records keep their types, and SHELL_EXIT_NOTIFY_FD never holds
\* more numbers than there are streams: each waiter writes one and ends.
THEOREM TypeCorrect == Spec => []TypeOK
BY Invariance, Types, PTL

\* Whatever stale number fdevent_subproc_event_func reads, and whoever has it
\* now, a stream is closed only by the host or at its own end.
THEOREM OnlyEnded == Spec => ClosesOnlyEnded
<1>1. IInv /\ [Next]_vars =>
        [\A i \in Streams :
           st[i].sock = "open" /\ st'[i].sock = "gone" =>
             st'[i].asked \/ (st[i].holders = {} /\ st[i].unread < Payload)]_vars
  BY Step DEF Ends
<1> QED BY <1>1, Invariance, PTL DEF Spec, ClosesOnlyEnded
=============================================================================
