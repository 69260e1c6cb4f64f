--------------------------- MODULE FileSyncProofs ---------------------------
(***************************************************************************)
(* Proofs about FileSync, for any numbers of streams, paths, pushes and    *)
(* chunks.  The invariant says, of every thread, what it has answered,     *)
(* opened and read at each point of a request; of every push, what is      *)
(* known of its file and its path as long as it is alone there; and of the *)
(* directory, whose files it can name.                                     *)
(***************************************************************************)
EXTENDS FileSync, TLAPS, FiniteSetTheorems, SequenceTheorems, WellFoundedInduction

-----------------------------------------------------------------------------
(* Least elements.                                                         *)

\* A set of natural numbers that is not empty has a least element.  Proofs by
\* induction take the least number for which a claim fails.
LEMMA LeastElement ==
  ASSUME NEW T, T \subseteq Nat, T # {}
  PROVE  \E x \in T : \A y \in T : x <= y
<1> DEFINE F == {1..n : n \in T}
           Less == StrictSubsetOrdering(Nat)
<1>1. IsWellFoundedOn(Less, FiniteSubsetsOf(Nat))
  BY FS_StrictSubsetOrderingWellFounded
<1>2. F \subseteq FiniteSubsetsOf(Nat)
  <2>1. ASSUME NEW n \in T PROVE 1..n \in FiniteSubsetsOf(Nat)
    <3>1. IsFiniteSet(1..n)
      BY FS_Interval
    <3> QED BY <3>1 DEF FiniteSubsetsOf
  <2> QED BY <2>1
<1>3. F # {}
  OBVIOUS
<1> HIDE DEF Less, F
<1>4. PICK X \in F : \A Y \in F : ~(<<Y, X>> \in Less)
  BY <1>1, <1>2, <1>3, WFMin
<1>5. PICK x \in T : X = 1..x
  BY <1>4 DEF F
<1>6. ASSUME NEW y \in T, y < x PROVE FALSE
  <2>1. 1..y \in F /\ 1..y \subseteq 1..x /\ 1..y # 1..x /\ 1..x \subseteq Nat
    BY <1>6 DEF F
  <2> QED BY <2>1, <1>4, <1>5 DEF Less, StrictSubsetOrdering
<1> QED BY <1>6

-----------------------------------------------------------------------------
(* The inductive invariant.                                                *)

\* The threads' records and the pushes.
Answers == {<<>>, <<"OK">>, <<"FAIL">>}
Session ==
  [pc : States, path : Paths \cup {None}, u : {0} \cup Pushes,
   to : Paths \cup {None}, ans : Answers,
   phase : {"idle", "data"}, fd : Inodes \cup {None},
   got : Seq(Inodes), todo : SUBSET Paths, sent : SUBSET Paths,
   stay : SUBSET Paths, gone : BOOLEAN]
Push ==
  [path : Paths \cup {None}, sent : 0..MaxChunks, file : Inodes \cup {None},
   state : {"none", "active", "okay", "failed", "left"}, rival : BOOLEAN]
Names == Files \cup Links \cup {None}

Opening == {"open", "mkdirs", "open2", "exists"}
Linking == {"linkdata", "symlink", "linkmkdirs", "symlink2", "linkdone"}
Sending == Opening \cup Linking \cup {"data"}

\* What a thread has read and answered, by where it is: between requests
\* nothing is open and one answer was given; none is given before the request
\* is worked off, except that a push that failed to open or to write has its
\* answer while its data is read.
Local(r) ==
  /\ r.pc \in {"request", "done"} => r.u = 0 /\ r.phase = "idle" /\ r.ans # <<>>
  /\ r.pc = "request" => r.got = <<>> /\ r.fd = None
  /\ r.pc \in {"recv", "list"} => r.u = 0 /\ r.phase = "idle" /\ r.ans = <<>>
  /\ r.pc \in Sending => r.u # 0 /\ r.path # None /\ r.phase = "data"
  /\ r.pc \in Opening \cup Linking => r.ans = <<>> /\ r.fd = None
  /\ r.pc = "data" => (r.ans = <<>> <=> r.fd # None)
  /\ r.pc = "recv" => r.fd # None
  /\ r.pc \in {"symlink", "linkmkdirs", "symlink2"} => r.to # None

\* The push of a thread is under way or has failed, with its file if it is open.
Pushing(s) ==
  LET r == ses[s]  q == push[r.u]
  IN  r.pc \in Sending =>
        /\ q.path = r.path /\ r.u <= pushes
        /\ r.pc \in Opening \cup Linking => q.state = "active" /\ q.file = None /\ q.sent = 0
        /\ r.pc = "data" /\ r.fd = None => q.state = "failed"
        /\ r.pc = "data" /\ r.fd # None => q.state = "active" /\ q.file = r.fd

\* Without rivals the path of a push is free until its file is there.
Cleared(s) ==
  LET r == ses[s]
  IN  r.pc \in Opening /\ ~push[r.u].rival /\ r.path \notin Pinned => dir[r.path] = None

\* A listing has sent, or has still to look at, every name that stayed.
Listing(s) ==
  LET r == ses[s]
  IN  r.pc = "list" => r.stay \subseteq r.sent \cup r.todo /\ \A p \in r.stay : dir[p] # None

\* One push at most has written to the file, the one that created it.
Sole(i) == writers[i] \subseteq {i}

\* A pull has a prefix of such a file.
Pulling(s) ==
  LET r == ses[s]
  IN  r.pc = "recv" =>
        /\ Len(r.got) <= Len(data[r.fd])
        /\ Sole(r.fd) => \A k \in 1..Len(r.got) : r.got[k] = data[r.fd][k]

ThreadOf(s) == Local(ses[s]) /\ Pushing(s) /\ Cleared(s) /\ Listing(s) /\ Pulling(s)

\* No two threads have the same push.
OnePush == \A s, x \in Sessions : ses[s].u # 0 /\ ses[s].u = ses[x].u => s = x

\* A pinned path keeps its file, and a pushed file has the path of its push.
Named ==
  /\ \A p \in Pinned : dir[p] = File(p)
  /\ \A p \in Paths, u \in Pushes :
       dir[p] = File(u) => push[u].path = p /\ push[u].file = u

\* Whoever pushes to the path of a push without rivals is that push.
Alone(u) ==
  ~push[u].rival =>
    \A x \in Sessions : ses[x].u # 0 /\ ses[x].path = push[u].path => ses[x].u = u

\* A push that is to come has left no trace, and one that has failed no file;
\* what a push has opened it may have written, and what it has not created was
\* written by nobody.
Traces(u) ==
  LET q == push[u]
  IN  /\ u > pushes => q.state = "none" /\ q.file = None /\ q.path = None /\ ~q.rival
      /\ u <= pushes => q.path # None
      /\ q.state = "failed" => \A p \in Paths : dir[p] # File(u)
      /\ q.state = "okay" => q.file # None
      /\ q.file # None => u \in writers[q.file]
      /\ q.file # u => writers[u] = {} /\ data[u] = <<>>

\* The only writer of a file has written what it was sent.
Chunks(u) ==
  LET q == push[u]  i == q.file
  IN  q.state \in {"active", "okay"} /\ i # None /\ writers[i] = {u} =>
        /\ Len(data[i]) >= q.sent /\ \A k \in 1..q.sent : data[i][k] = u
        /\ i = u => Len(data[i]) = q.sent

\* Without rivals the file has the path, and in the end the time.
Placed(u) ==
  LET q == push[u]  i == q.file
  IN  /\ q.state \in {"active", "okay"} /\ i # None /\ ~q.rival =>
           dir[q.path] = File(i) /\ (q.path \notin Pinned => i = u)
      /\ q.state = "okay" /\ ~q.rival /\ writers[i] = {u} => TimeSent(u, i)

PushOf(u) == Alone(u) /\ Traces(u) /\ Chunks(u) /\ Placed(u)

IInv ==
  /\ TypeOK
  /\ \A s \in Sessions : ThreadOf(s)
  /\ OnePush /\ Named
  /\ \A u \in Pushes : PushOf(u)

-----------------------------------------------------------------------------
(* Constants, and the file that a path leads to.                           *)

\* Files, links, pushes and paths are told apart.
LEMMA Distinct ==
  /\ Pushes \subseteq Nat \ {0} /\ Pushes \subseteq Inodes /\ Paths \subseteq Inodes
  /\ \A u \in Pushes : u \notin Paths /\ u # None
  /\ \A p \in Paths : p # None
  /\ None \notin Inodes /\ None \notin Files /\ None \notin Links
  /\ \A i \in Inodes : File(i) \in Files /\ File(i) # None /\ File(i) \notin Links /\ File(i).file = i
  /\ \A p \in Paths : Link(p) \in Links /\ Link(p) # None /\ Link(p) \notin Files /\ Link(p).to = p
  /\ \A p \in Pinned : p \in Paths
<1>1. Pushes \subseteq Nat \ {0} /\ Pushes \subseteq Inodes /\ Paths \subseteq Inodes
  BY FileSyncAssumption DEF Pushes, Inodes
<1>2. /\ \A u \in Pushes : u \notin Paths /\ u # None
      /\ \A p \in Paths : p # None
      /\ None \notin Inodes /\ None \notin Files /\ None \notin Links
      /\ \A p \in Pinned : p \in Paths
  BY <1>1, FileSyncAssumption
<1>3. \A i, p : File(i) # Link(p)
  BY DEF File, Link
<1>4. \A i \in Inodes : File(i) \in Files /\ File(i).file = i /\ File(i) \notin Links
  BY <1>3 DEF Files, Links, File
<1>5. \A p \in Paths : Link(p) \in Links /\ Link(p).to = p /\ Link(p) \notin Files
  BY <1>3 DEF Files, Links, Link
<1> QED BY <1>1, <1>2, <1>4, <1>5

\* A link leads to what its target names.
Step(e) == IF e \in Links THEN dir[e.to] ELSE e

\* Following n links from a path.
Follows(p, n, f) ==
  f \in [0..n -> Names] /\ f[0] = dir[p] /\ \A k \in 1..n : f[k] = Step(f[k - 1])

LEMMA StepType ==
  ASSUME dir \in [Paths -> Names], NEW e \in Names
  PROVE  Step(e) \in Names
BY Distinct DEF Step, Links, Link

\* Links can be followed any number of times.
LEMMA FollowExists ==
  ASSUME dir \in [Paths -> Names], NEW p \in Paths, NEW n \in Nat
  PROVE  \E f : Follows(p, n, f)
<1> DEFINE T == {m \in Nat : ~\E f : Follows(p, m, f)}
<1> SUFFICES ASSUME T # {} PROVE FALSE
  OBVIOUS
<1>1. PICK m \in T : \A y \in T : m <= y
  <2> HIDE DEF T
  <2>1. T \subseteq Nat
    BY DEF T
  <2> QED BY <2>1, LeastElement
<1>2. m # 0
  <2>1. Follows(p, 0, [k \in 0..0 |-> dir[p]])
    BY DEF Follows
  <2> QED BY <2>1, <1>1
<1>3. m \in Nat /\ m - 1 \in Nat /\ m - 1 \notin T
  BY <1>1, <1>2
<1>4. PICK f : Follows(p, m - 1, f)
  BY <1>3
<1> DEFINE e == Step(f[m - 1])
           g == [k \in 0..m |-> IF k = m THEN e ELSE f[k]]
<1>5. f \in [0..(m - 1) -> Names] /\ f[0] = dir[p] /\ \A k \in 1..(m - 1) : f[k] = Step(f[k - 1])
  BY <1>4 DEF Follows
<1>6. e \in Names
  <2>1. f[m - 1] \in Names
    BY <1>3, <1>5
  <2> QED BY <2>1, StepType
<1> HIDE DEF e
<1>7. g \in [0..m -> Names] /\ g[0] = dir[p]
  BY <1>2, <1>3, <1>5, <1>6
<1>8. ASSUME NEW k \in 1..m PROVE g[k] = Step(g[k - 1])
  <2>1. CASE k = m
    <3>1. g[k] = e /\ g[k - 1] = f[m - 1]
      BY <1>3, <2>1
    <3> QED BY <3>1 DEF e
  <2>2. CASE k # m
    <3>1. g[k] = f[k] /\ g[k - 1] = f[k - 1] /\ k \in 1..(m - 1)
      BY <1>3, <2>2
    <3> QED BY <1>5, <3>1
  <2> QED BY <2>1, <2>2
<1>9. Follows(p, m, g)
  BY <1>7, <1>8 DEF Follows
<1> QED BY <1>1, <1>9

\* Opening a path finds the file at the end of its links.
LEMMA Resolved ==
  ASSUME dir \in [Paths -> Names], NEW p \in Paths
  PROVE  \E f : /\ Follows(p, Cardinality(Paths), f)
                /\ LET e == f[Cardinality(Paths)]
                   IN  Resolve(p) = IF e \in Files THEN e.file ELSE None
<1> DEFINE n == Cardinality(Paths)
           F(f) == [k \in 0..n |-> LET e == IF k = 0 THEN Link(p) ELSE f[k - 1]
                                   IN  IF e \in Links THEN dir[e.to] ELSE e]
           f == CHOOSE f : f = F(f)
<1>0. n \in Nat
  BY FileSyncAssumption, FS_CardinalityType
<1>1. PICK g : Follows(p, n, g)
  BY <1>0, FollowExists
<1>2. g = F(g)
  <2>1. g \in [0..n -> Names] /\ g[0] = dir[p] /\ \A k \in 1..n : g[k] = Step(g[k - 1])
    BY <1>1 DEF Follows
  <2>2. ASSUME NEW k \in 0..n PROVE g[k] = F(g)[k]
    <3>1. CASE k = 0
      BY <2>1, <3>1, Distinct
    <3>2. CASE k # 0
      <4>1. k \in 1..n
        BY <1>0, <3>2
      <4>2. F(g)[k] = Step(g[k - 1])
        BY <3>2 DEF Step
      <4> QED BY <2>1, <4>1, <4>2
    <3> QED BY <3>1, <3>2
  <2> HIDE DEF n
  <2> QED BY <2>1, <2>2
<1>3. f = F(f)
  BY <1>2
<1>4. Resolve(p) = IF f[n] \in Files THEN f[n].file ELSE None
  BY DEF Resolve
<1> HIDE DEF n
<1>5. f[0] = dir[p] /\ \A k \in 1..n : f[k] = Step(f[k - 1])
  <2> HIDE DEF f
  <2>1. 0 \in 0..n
    BY <1>0
  <2>2. F(f)[0] = dir[p]
    BY <2>1, Distinct
  <2>3. ASSUME NEW k \in 1..n PROVE F(f)[k] = Step(f[k - 1])
    <3>1. k \in 0..n /\ k # 0
      BY <1>0
    <3> QED BY <3>1 DEF Step
  <2> HIDE DEF F
  <2> QED BY <1>3, <2>2, <2>3
<1>6. DOMAIN f = 0..n
  BY <1>3
<1>f. f = [k \in 0..n |-> f[k]]
  BY <1>3
<1> HIDE DEF f, F
<1>7. \A k \in 0..n : f[k] \in Names
  <2> DEFINE T == {k \in 0..n : f[k] \notin Names}
  <2> SUFFICES ASSUME T # {} PROVE FALSE
    OBVIOUS
  <2>1. PICK m \in T : \A y \in T : m <= y
    <3>1. T \subseteq Nat
      BY <1>0
    <3> HIDE DEF T
    <3> QED BY <3>1, LeastElement
  <2>2. m # 0
    BY <1>5, <2>1
  <2>3. m \in 1..n /\ m - 1 \in 0..n /\ m - 1 \notin T
    BY <1>0, <2>1, <2>2
  <2>4. f[m - 1] \in Names
    BY <2>3
  <2>5. f[m] \in Names
    BY <1>5, <2>3, <2>4, StepType
  <2> QED BY <2>1, <2>5
<1>8. f \in [0..n -> Names]
  BY <1>f, <1>7
<1>9. Follows(p, n, f)
  BY <1>5, <1>8 DEF Follows
<1> QED BY <1>4, <1>9 DEF n

\* What opening a path finds is a file that some path names; it is the path's
\* own file if that is what the path names, and nothing if it names nothing.
LEMMA ResolvedFile ==
  ASSUME dir \in [Paths -> Names], NEW p \in Paths
  PROVE  /\ Resolve(p) \in Inodes \cup {None}
         /\ Resolve(p) # None => \E q \in Paths : dir[q] = File(Resolve(p))
         /\ \A i \in Inodes : dir[p] = File(i) => Resolve(p) = i
         /\ dir[p] = None => Resolve(p) = None
<1> DEFINE n == Cardinality(Paths)
<1>1. PICK f : /\ Follows(p, n, f)
               /\ Resolve(p) = IF f[n] \in Files THEN f[n].file ELSE None
  BY Resolved
<1>n. n \in Nat
  BY FileSyncAssumption, FS_CardinalityType
<1> HIDE DEF n
<1>2. f \in [0..n -> Names] /\ f[0] = dir[p] /\ \A k \in 1..n : f[k] = Step(f[k - 1])
  BY <1>1 DEF Follows
<1> DEFINE Below == {k \in 0..n : ~\E q \in Paths : f[k] = dir[q]}
           Off == {k \in 0..n : f[k] # dir[p]}
<1>3. \A k \in 0..n : \E q \in Paths : f[k] = dir[q]
  <2> SUFFICES ASSUME Below # {} PROVE FALSE
    OBVIOUS
  <2>1. PICK m \in Below : \A y \in Below : m <= y
    <3>1. Below \subseteq Nat
      BY <1>n
    <3> HIDE DEF Below
    <3> QED BY <3>1, LeastElement
  <2>2. m # 0
    BY <1>2, <2>1
  <2>3. m \in 1..n /\ m - 1 \in 0..n /\ m - 1 \notin Below
    BY <1>n, <2>1, <2>2
  <2>4. PICK q \in Paths : f[m - 1] = dir[q]
    BY <2>3
  <2>5. \E r \in Paths : f[m] = dir[r]
    <3>1. f[m] = Step(f[m - 1])
      BY <1>2, <2>3
    <3>2. CASE f[m - 1] \in Links
      <4>1. f[m] = dir[f[m - 1].to] /\ f[m - 1].to \in Paths
        BY <3>1, <3>2, Distinct DEF Step, Links
      <4> QED BY <4>1
    <3>3. CASE f[m - 1] \notin Links
      BY <2>4, <3>1, <3>3 DEF Step
    <3> QED BY <3>2, <3>3
  <2> QED BY <2>1, <2>5
<1>4. ASSUME dir[p] \notin Links PROVE f[n] = dir[p]
  <2> SUFFICES ASSUME Off # {} PROVE FALSE
    BY <1>n
  <2>1. PICK m \in Off : \A y \in Off : m <= y
    <3>1. Off \subseteq Nat
      BY <1>n
    <3> HIDE DEF Off
    <3> QED BY <3>1, LeastElement
  <2>2. m # 0
    BY <1>2, <2>1
  <2>3. m \in 1..n /\ m - 1 \in 0..n /\ m - 1 \notin Off
    BY <1>n, <2>1, <2>2
  <2>4. f[m - 1] = dir[p]
    BY <2>3
  <2>5. f[m] = dir[p]
    BY <1>2, <1>4, <2>3, <2>4 DEF Step
  <2> QED BY <2>1, <2>5
<1>5. f[n] \in Files => \E i \in Inodes : f[n] = File(i)
  BY DEF Files
<1>6. ASSUME f[n] \in Files
      PROVE  Resolve(p) \in Inodes /\ f[n] = File(Resolve(p))
  BY <1>1, <1>5, <1>6, Distinct
<1>7. \E q \in Paths : f[n] = dir[q]
  BY <1>3, <1>n
<1>8. ASSUME NEW i \in Inodes, dir[p] = File(i) PROVE Resolve(p) = i
  <2>1. f[n] = File(i) /\ File(i) \in Files /\ File(i).file = i
    BY <1>4, <1>8, Distinct
  <2> QED BY <1>1, <2>1
<1>9. Resolve(p) # None => f[n] \in Files
  BY <1>1
<1>10. dir[p] = None => Resolve(p) = None
  BY <1>1, <1>4, Distinct
<1> QED BY <1>1, <1>6, <1>7, <1>8, <1>9, <1>10

-----------------------------------------------------------------------------
(* Steps of one thread.                                                    *)

\* The parts of TypeOK.
Typed ==
  /\ ses \in [Sessions -> Session]
  /\ dir \in [Paths -> Names]
  /\ parent \subseteq Paths
  /\ data \in [Inodes -> Seq(Inodes)]
  /\ time \in [Inodes -> {0} \cup Pushes]
  /\ push \in [Pushes -> Push]
  /\ pushes \in 0..MaxPush
  /\ writers \in [Inodes -> SUBSET Pushes]

LEMMA TypedParts == (TypeOK <=> Typed) /\ (TypeOK' <=> Typed')
BY DEF TypeOK, Typed, Session, Answers, Push, Names

\* The threads that do not move, but for the names that are gone.
Others(s) ==
  \A x \in Sessions \ {s} :
    /\ ses'[x].pc = ses[x].pc /\ ses'[x].path = ses[x].path /\ ses'[x].u = ses[x].u
    /\ ses'[x].to = ses[x].to /\ ses'[x].ans = ses[x].ans /\ ses'[x].phase = ses[x].phase
    /\ ses'[x].fd = ses[x].fd /\ ses'[x].got = ses[x].got /\ ses'[x].todo = ses[x].todo
    /\ ses'[x].sent = ses[x].sent /\ ses'[x].gone = ses[x].gone
    /\ ses[x].pc = "list" => ses'[x].stay = {p \in ses[x].stay : dir'[p] # None}

LEMMA SetFields ==
  ASSUME ses \in [Sessions -> Session], NEW s \in Sessions, NEW r \in Session, Set(s, r)
  PROVE  ses' \in [Sessions -> Session] /\ ses'[s] = r /\ Others(s)
<1>1. ses' = [x \in Sessions |-> IF x = s THEN r
                ELSE [ses[x] EXCEPT !.stay = {p \in ses[x].stay : dir'[p] # None}]]
  BY DEF Set
<1>2. ASSUME NEW x \in Sessions
      PROVE  [ses[x] EXCEPT !.stay = {p \in ses[x].stay : dir'[p] # None}] \in Session
  <2>1. ses[x] \in Session
    OBVIOUS
  <2> QED BY <2>1 DEF Session
<1>3. ses' \in [Sessions -> Session]
  BY <1>1, <1>2
<1>4. ses'[s] = r
  BY <1>1
<1>5. ASSUME NEW x \in Sessions, x # s
      PROVE  /\ ses'[x].pc = ses[x].pc /\ ses'[x].path = ses[x].path /\ ses'[x].u = ses[x].u
             /\ ses'[x].to = ses[x].to /\ ses'[x].ans = ses[x].ans /\ ses'[x].phase = ses[x].phase
             /\ ses'[x].fd = ses[x].fd /\ ses'[x].got = ses[x].got /\ ses'[x].todo = ses[x].todo
             /\ ses'[x].sent = ses[x].sent /\ ses'[x].gone = ses[x].gone
             /\ ses'[x].stay = {p \in ses[x].stay : dir'[p] # None}
  <2>1. ses[x] \in Session
    OBVIOUS
  <2>2. ses'[x] = [ses[x] EXCEPT !.stay = {p \in ses[x].stay : dir'[p] # None}]
    BY <1>1, <1>5
  <2> QED BY <2>1, <2>2 DEF Session
<1> QED BY <1>3, <1>4, <1>5 DEF Others

\* A file has only grown, unless another than its creator writes to it.
Grown(i) ==
  /\ Len(data[i]) <= Len(data'[i])
  /\ writers'[i] \subseteq {i} =>
       writers[i] \subseteq {i} /\ \A k \in 1..Len(data[i]) : data'[i][k] = data[i][k]

\* A step of another thread leaves what is known of this one.
LEMMA OtherKept ==
  ASSUME Typed, Typed', NEW s \in Sessions, NEW x \in Sessions, x # s, Others(s), ThreadOf(x),
         pushes <= pushes',
         LET r == ses[x]
         IN  /\ r.pc \in Sending =>
                  /\ push'[r.u].path = push[r.u].path /\ push'[r.u].state = push[r.u].state
                  /\ push'[r.u].file = push[r.u].file /\ push'[r.u].sent = push[r.u].sent
                  /\ push[r.u].rival => push'[r.u].rival
             /\ r.pc \in Opening /\ ~push'[r.u].rival => dir'[r.path] \in {dir[r.path], None}
             /\ r.pc = "recv" => Grown(r.fd)
  PROVE  ThreadOf(x)'
<1> DEFINE r == ses[x]
           q == ses'[x]
<1>0. r \in Session /\ q \in Session
  BY DEF Typed
<1>1. /\ q.pc = r.pc /\ q.path = r.path /\ q.u = r.u /\ q.to = r.to /\ q.ans = r.ans
      /\ q.phase = r.phase /\ q.fd = r.fd /\ q.got = r.got /\ q.todo = r.todo /\ q.sent = r.sent
      /\ r.pc = "list" => q.stay = {p \in r.stay : dir'[p] # None}
  BY DEF Others
<1>2. Local(ses[x])'
  <2>1. Local(r)
    BY DEF ThreadOf
  <2> HIDE DEF q, r
  <2>2. Local(q)
    BY <1>1, <2>1 DEF Local
  <2> QED BY <2>2 DEF q, Local
<1>3. Pushing(x)'
  <2>0. r.pc \in Sending => r.u # 0
    BY DEF ThreadOf, Local
  <2>1. r.pc \in Sending =>
          /\ push[r.u].path = r.path /\ r.u <= pushes
          /\ r.pc \in Opening \cup Linking =>
               push[r.u].state = "active" /\ push[r.u].file = None /\ push[r.u].sent = 0
          /\ r.pc = "data" /\ r.fd = None => push[r.u].state = "failed"
          /\ r.pc = "data" /\ r.fd # None => push[r.u].state = "active" /\ push[r.u].file = r.fd
    BY DEF ThreadOf, Pushing
  <2>2. r.pc \in Sending => r.u <= pushes'
    <3>1. r.u \in Int /\ pushes \in Int /\ pushes' \in Int
      <4>1. r.u \in {0} \cup Pushes
        BY <1>0 DEF Session
      <4>2. Pushes \subseteq Nat
        BY Distinct
      <4>3. pushes \in 0..MaxPush /\ pushes' \in 0..MaxPush
        BY DEF Typed
      <4>4. MaxPush \in Nat
        BY FileSyncAssumption
      <4>5. pushes \in Int /\ pushes' \in Int
        BY <4>3, <4>4
      <4>6. \A k \in {0} \cup Pushes : k \in Int
        BY <4>2
      <4> QED BY <4>1, <4>5, <4>6, Zenon
    <3> QED BY <2>1, <3>1
  <2>3. r.pc \in Sending =>
          /\ push'[r.u].path = push[r.u].path /\ push'[r.u].state = push[r.u].state
          /\ push'[r.u].file = push[r.u].file /\ push'[r.u].sent = push[r.u].sent
    OBVIOUS
  <2> QED BY <1>1, <2>1, <2>2, <2>3 DEF Pushing
<1>4. Cleared(x)'
  <2>1. r.pc \in Opening => r.pc \in Sending
    BY DEF Sending
  <2>2. r.pc \in Opening /\ ~push[r.u].rival /\ r.path \notin Pinned => dir[r.path] = None
    BY DEF ThreadOf, Cleared
  <2>3. r.pc \in Opening /\ ~push'[r.u].rival => ~push[r.u].rival /\ dir'[r.path] \in {dir[r.path], None}
    BY <2>1
  <2> QED BY <1>1, <2>2, <2>3 DEF Cleared
<1>5. Listing(x)'
  <2>1. r.pc = "list" => r.stay \subseteq r.sent \cup r.todo
    BY DEF ThreadOf, Listing
  <2>2. r.pc = "list" => q.stay \subseteq q.sent \cup q.todo /\ \A p \in q.stay : dir'[p] # None
    <3> HIDE DEF q, r
    <3> QED BY <1>1, <2>1
  <2> QED BY <1>1, <2>2 DEF Listing
<1>6. Pulling(x)'
  <2> SUFFICES ASSUME r.pc = "recv"
               PROVE  /\ Len(q.got) <= Len(data'[q.fd])
                      /\ writers'[q.fd] \subseteq {q.fd} =>
                           \A k \in 1..Len(q.got) : q.got[k] = data'[q.fd][k]
    BY <1>1 DEF Pulling, Sole
  <2>1. /\ Len(r.got) <= Len(data[r.fd])
        /\ writers[r.fd] \subseteq {r.fd} => \A k \in 1..Len(r.got) : r.got[k] = data[r.fd][k]
    BY DEF ThreadOf, Pulling, Sole
  <2>2. /\ Len(data[r.fd]) <= Len(data'[r.fd])
        /\ writers'[r.fd] \subseteq {r.fd} =>
             writers[r.fd] \subseteq {r.fd} /\ \A k \in 1..Len(data[r.fd]) : data'[r.fd][k] = data[r.fd][k]
    BY DEF Grown
  <2>3. Len(r.got) \in Nat /\ Len(data[r.fd]) \in Nat /\ Len(data'[r.fd]) \in Nat
    <3>1. r.got \in Seq(Inodes) /\ r.fd \in Inodes \cup {None} /\ r.fd # None
      BY <1>0 DEF Session, ThreadOf, Local
    <3>2. data[r.fd] \in Seq(Inodes) /\ data'[r.fd] \in Seq(Inodes)
      BY <3>1 DEF Typed
    <3> QED BY <3>1, <3>2, LenProperties
  <2>5. q.fd = r.fd /\ q.got = r.got
    BY <1>1
  <2>6. Len(r.got) <= Len(data'[r.fd])
    BY <2>1, <2>2, <2>3
  <2>7. ASSUME writers'[r.fd] \subseteq {r.fd}, NEW k \in 1..Len(r.got) PROVE r.got[k] = data'[r.fd][k]
    <3>1. k \in 1..Len(data[r.fd])
      BY <2>1, <2>3
    <3> QED BY <2>1, <2>2, <2>7, <3>1
  <2> HIDE DEF q, r
  <2> QED BY <2>5, <2>6, <2>7
<1> QED BY <1>2, <1>3, <1>4, <1>5, <1>6 DEF ThreadOf

\* The thread s goes on with its push, or has none afterwards.
Goes(s) ==
  ses'[s].u # 0 => ses'[s].u = ses[s].u /\ ses'[s].path = ses[s].path

LEMMA OnePushKept ==
  ASSUME OnePush, NEW s \in Sessions, Others(s), Goes(s)
  PROVE  OnePush'
BY DEF OnePush, Others, Goes

LEMMA AloneKept ==
  ASSUME NEW u \in Pushes, Alone(u), NEW s \in Sessions, Others(s), Goes(s),
         push'[u].path = push[u].path, push[u].rival => push'[u].rival
  PROVE  Alone(u)'
BY DEF Alone, Others, Goes

\* The time of a file is set by nobody, or as TimeSent says.
LEMMA TimeKept ==
  ASSUME NEW u \in Pushes, NEW i, TimeSent(u, i), time'[i] = time[i],
         \A v \in Pushes : push'[v].path = push[v].path /\ (push[v].rival => push'[v].rival)
  PROVE  /\ \/ time'[i] = u
            \/ time'[i] \in Pushes /\ push'[time'[i]].rival /\ push'[time'[i]].path # push'[u].path
BY DEF TimeSent

\* A thread between requests.
LEMMA IdleThread ==
  ASSUME NEW s \in Sessions, ses'[s].pc \in {"request", "done"}, Local(ses'[s])
  PROVE  ThreadOf(s)' /\ Goes(s)
<1>1. Local(ses[s])'
  BY DEF Local
<1>2. ses'[s].pc \notin Sending /\ ses'[s].pc \notin Opening
  BY DEF Sending, Opening, Linking
<1>3. Pushing(s)' /\ Cleared(s)' /\ Listing(s)' /\ Pulling(s)'
  BY <1>2 DEF Pushing, Cleared, Listing, Pulling
<1>4. Goes(s)
  BY DEF Local, Goes
<1> QED BY <1>1, <1>3, <1>4 DEF ThreadOf

\* A step that leaves the files and the pushes alone.
LEMMA QuietStep ==
  ASSUME IInv, NEW s \in Sessions, NEW r \in Session, Set(s, r),
         UNCHANGED <<dir, data, time, push, pushes, writers>>, parent' \subseteq Paths,
         ThreadOf(s)', Goes(s)
  PROVE  IInv'
<1>0. Typed /\ \A x \in Sessions : ThreadOf(x)
  BY TypedParts DEF IInv
<1>1. ses' \in [Sessions -> Session] /\ Others(s)
  BY <1>0, SetFields DEF Typed
<1>2. Typed'
  BY <1>0, <1>1 DEF Typed
<1>3. ASSUME NEW x \in Sessions, x # s PROVE ThreadOf(x)'
  <2>1. pushes <= pushes'
    BY <1>0 DEF Typed
  <2>2. Grown(ses[x].fd) <=> Len(data[ses[x].fd]) <= Len(data[ses[x].fd])
    BY DEF Grown
  <2>3. ses[x].pc = "recv" => Grown(ses[x].fd)
    <3>1. ASSUME ses[x].pc = "recv" PROVE Len(data[ses[x].fd]) \in Nat
      <4>1. ses[x].fd \in Inodes
        BY <1>0, <3>1 DEF Typed, Session, ThreadOf, Local
      <4>2. data[ses[x].fd] \in Seq(Inodes)
        BY <1>0, <4>1 DEF Typed
      <4> QED BY <4>2, LenProperties
    <3> QED BY <2>2, <3>1
  <2> QED BY <1>0, <1>1, <1>2, <1>3, <2>1, <2>3, OtherKept
<1>4. OnePush' /\ Named'
  BY <1>1, OnePushKept DEF IInv, Named
<1>5. ASSUME NEW u \in Pushes PROVE PushOf(u)'
  <2>1. PushOf(u)
    BY DEF IInv
  <2>2. Alone(u)'
    BY <1>1, <2>1, AloneKept DEF PushOf
  <2>3. Traces(u)' /\ Chunks(u)' /\ Placed(u)'
    BY <2>1 DEF PushOf, Traces, Chunks, Placed, TimeSent
  <2> QED BY <2>2, <2>3 DEF PushOf
<1>6. TypeOK'
  BY <1>2, TypedParts
<1> QED BY <1>3, <1>4, <1>5, <1>6 DEF IInv

-----------------------------------------------------------------------------
(* What becomes of a thread's record.                                      *)

LEMMA FreshOver ==
  /\ Fresh \in Session /\ Fresh.pc = "request" /\ Local(Fresh)
  /\ Over \in Session /\ Over.pc = "done" /\ Local(Over)
<1>1. <<"OK">> # <<>>
  OBVIOUS
<1>2. <<"OK">> \in Answers /\ "request" \in States /\ "done" \in States /\ <<>> \in Seq(Inodes)
  BY DEF Answers, States
<1>3. Fresh \in Session
  BY <1>2 DEF Fresh, Session
<1>4. Over \in Session
  BY <1>2, <1>3 DEF Over, Session
<1>5. /\ Fresh.pc = "request" /\ Fresh.u = 0 /\ Fresh.phase = "idle" /\ Fresh.ans = <<"OK">>
      /\ Fresh.got = <<>> /\ Fresh.fd = None
  BY DEF Fresh
<1>6. Over.pc = "done" /\ Over.u = 0 /\ Over.phase = "idle" /\ Over.ans = <<"OK">>
  BY DEF Fresh, Over
<1>7. Local(Fresh)
  BY <1>1, <1>5 DEF Local, Sending, Opening, Linking
<1>8. Local(Over)
  BY <1>1, <1>6 DEF Local, Sending, Opening, Linking
<1> QED BY <1>3, <1>4, <1>5, <1>6, <1>7, <1>8

\* An answer is given.
LEMMA Answered ==
  ASSUME NEW r \in Session, r.ans = <<>>, NEW a \in {"OK", "FAIL"}
  PROVE  /\ Answer(r, a) \in Session
         /\ r.gone => Answer(r, a) = Over
         /\ ~r.gone => /\ Answer(r, a).pc = r.pc /\ Answer(r, a).path = r.path
                       /\ Answer(r, a).u = r.u /\ Answer(r, a).ans = <<a>>
                       /\ Answer(r, a).phase = r.phase /\ Answer(r, a).fd = r.fd
                       /\ Answer(r, a).gone = r.gone
<1> DEFINE z == [r EXCEPT !.ans = <<a>>]
<1>1. Append(<<>>, a) = <<a>>
  OBVIOUS
<1>2. <<a>> \in Answers
  BY DEF Answers
<1>3. Answer(r, a) = IF r.gone THEN Over ELSE z
  BY <1>1 DEF Answer
<1>4. z \in Session
  BY <1>2 DEF Session
<1>5. /\ z.pc = r.pc /\ z.path = r.path /\ z.u = r.u /\ z.ans = <<a>> /\ z.phase = r.phase
      /\ z.fd = r.fd /\ z.gone = r.gone
  BY DEF Session
<1> HIDE DEF z
<1> QED BY <1>3, <1>4, <1>5, FreshOver

\* The thread returns to its loop.
LEMMA Returning ==
  ASSUME NEW r \in Session, r.pc = "done" => Local(r),
         r.pc # "done" => r.phase = "idle" /\ r.ans # <<>>
  PROVE  /\ Return(r) \in Session /\ Local(Return(r))
         /\ r.pc = "done" => Return(r).pc = "done"
         /\ r.pc # "done" => Return(r).pc = "request" /\ Return(r).ans = r.ans
<1>1. CASE r.pc = "done"
  BY <1>1 DEF Return
<1>2. CASE r.pc # "done"
  <2> DEFINE z == [Fresh EXCEPT !.ans = r.ans, !.phase = r.phase, !.gone = r.gone]
  <2>1. Return(r) = z
    BY <1>2 DEF Return
  <2>2. r.ans \in Answers /\ r.phase \in {"idle", "data"} /\ r.gone \in BOOLEAN
    BY DEF Session
  <2>3. Fresh \in Session
    BY FreshOver
  <2>4. z \in Session
    BY <2>2, <2>3 DEF Session
  <2>5. /\ z.pc = "request" /\ z.u = 0 /\ z.phase = r.phase /\ z.ans = r.ans /\ z.got = <<>>
        /\ z.fd = None
    BY DEF Fresh
  <2> HIDE DEF z
  <2>6. Local(z)
    BY <1>2, <2>5 DEF Local, Sending, Opening, Linking
  <2> QED BY <1>2, <2>1, <2>4, <2>5, <2>6
<1> QED BY <1>1, <1>2

\* The thread answers and returns to its loop.
LEMMA Returned ==
  ASSUME NEW r \in Session, r.ans = <<>>, r.phase = "idle", r.pc # "done", NEW a \in {"OK", "FAIL"}
  PROVE  LET z == Return(Answer(r, a))
         IN  /\ z \in Session /\ Local(z)
             /\ z.pc \in {"request", "done"}
             /\ z.pc = "request" => z.ans = <<a>> /\ ~r.gone
<1> DEFINE y == Answer(r, a)
<1>0. <<a>> # <<>>
  OBVIOUS
<1>1. CASE r.gone
  <2>1. y = Over
    BY <1>1, Answered
  <2> HIDE DEF y
  <2>2. Return(y) \in Session /\ Local(Return(y)) /\ Return(y).pc = "done"
    BY <2>1, FreshOver, Returning
  <2> QED BY <2>2 DEF y
<1>2. CASE ~r.gone
  <2>1. y \in Session /\ y.pc = r.pc /\ y.ans = <<a>> /\ y.phase = r.phase
    BY <1>2, Answered
  <2> HIDE DEF y
  <2>2. Return(y) \in Session /\ Local(Return(y)) /\ Return(y).pc = "request" /\ Return(y).ans = <<a>>
    BY <1>0, <2>1, Returning
  <2> QED BY <1>2, <2>2 DEF y
<1> QED BY <1>1, <1>2

\* A thread that only goes on from one call to the next.
LEMMA Moved ==
  ASSUME NEW s \in Sessions, ThreadOf(s), UNCHANGED <<push, pushes, dir>>,
         ses'[s].u = ses[s].u, ses'[s].path = ses[s].path, ses'[s].phase = ses[s].phase,
         ses'[s].ans = ses[s].ans, ses'[s].fd = ses[s].fd,
         \/ ses[s].pc \in Opening /\ ses'[s].pc \in Opening
         \/ ses[s].pc \in Linking /\ ses'[s].pc \in Linking,
         ses'[s].pc \in {"symlink", "linkmkdirs", "symlink2"} => ses'[s].to # None
  PROVE  ThreadOf(s)' /\ Goes(s)
<1> DEFINE r == ses[s]
           q == ses'[s]
<1>0. /\ r.pc \in Opening => r.pc \notin Linking
      /\ q.pc \in Opening => q.pc \notin Linking
      /\ q.pc \in Opening \cup Linking => q.pc \notin {"request", "done", "recv", "list", "data"}
      /\ \A l \in Opening \cup Linking : l \in Sending
  BY DEF Opening, Linking, Sending
<1>1. Local(r) /\ Pushing(s) /\ Cleared(s)
  BY DEF ThreadOf
<1>2. Local(ses[s])'
  <2>1. r.pc \in Sending /\ r.pc \in Opening \cup Linking
    BY <1>0
  <2>2. r.u # 0 /\ r.path # None /\ r.phase = "data" /\ r.ans = <<>> /\ r.fd = None
    BY <1>1, <2>1 DEF Local
  <2> QED BY <1>0, <2>2 DEF Local
<1>3. Pushing(s)'
  BY <1>0, <1>1 DEF Pushing
<1>4. Cleared(s)'
  BY <1>0, <1>1 DEF Cleared
<1>5. Listing(s)' /\ Pulling(s)'
  BY <1>0 DEF Listing, Pulling
<1> QED BY <1>2, <1>3, <1>4, <1>5 DEF ThreadOf, Goes

-----------------------------------------------------------------------------
(* The steps that leave the files and the pushes alone.                    *)

\* The invariant and the thread that moves.
LEMMA Thread0 ==
  ASSUME IInv, NEW s \in Sessions
  PROVE  /\ Typed /\ ses[s] \in Session /\ ThreadOf(s) /\ Local(ses[s])
         /\ ses[s].pc = "request" => ses[s].phase = "idle" /\ ses[s].u = 0
         /\ ses[s].pc \in {"recv", "list"} =>
              ses[s].phase = "idle" /\ ses[s].u = 0 /\ ses[s].ans = <<>>
<1>1. Typed /\ ThreadOf(s) /\ Local(ses[s])
  BY TypedParts DEF IInv, ThreadOf
<1>2. ses[s] \in Session
  BY <1>1 DEF Typed
<1> QED BY <1>1, <1>2 DEF Local

\* The thread ends a request, or itself.
LEMMA IdleStep ==
  ASSUME IInv, NEW s \in Sessions, NEW r \in Session, Set(s, r),
         UNCHANGED <<fsVars, histVars>>, r.pc \in {"request", "done"}, Local(r)
  PROVE  IInv'
<1>1. UNCHANGED <<dir, data, time, push, pushes, writers, parent>>
  BY DEF fsVars, histVars
<1>2. Typed
  BY Thread0
<1>3. parent' \subseteq Paths
  BY <1>1, <1>2 DEF Typed
<1>4. ses'[s] = r
  BY <1>2, SetFields DEF Typed
<1>5. ThreadOf(s)' /\ Goes(s)
  BY <1>4, IdleThread
<1> QED BY <1>1, <1>3, <1>5, QuietStep

LEMMA AnswerStep ==
  ASSUME IInv, NEW s \in Sessions, NEW r \in Session, NEW a \in {"OK", "FAIL"},
         UNCHANGED <<fsVars, histVars>>, r.ans = <<>>, r.phase = "idle", r.pc # "done",
         Set(s, Return(Answer(r, a)))
  PROVE  IInv'
<1> DEFINE z == Return(Answer(r, a))
<1>1. z \in Session /\ Local(z) /\ z.pc \in {"request", "done"}
  BY Returned
<1> HIDE DEF z
<1>2. Set(s, z)
  BY DEF z
<1> QED BY <1>1, <1>2, IdleStep

LEMMA ServiceInv ==
  ASSUME IInv, NEW s \in Sessions, file_sync_service(s) \/ end_session(s)
  PROVE  IInv'
<1>1. CASE file_sync_service(s)
  BY <1>1, FreshOver, IdleStep DEF file_sync_service
<1>2. CASE end_session(s)
  BY <1>2, FreshOver, IdleStep DEF end_session
<1> QED BY <1>1, <1>2

LEMMA ClosedInv ==
  ASSUME IInv, NEW s \in Sessions, stream_closed(s)
  PROVE  IInv'
<1> DEFINE r == [ses[s] EXCEPT !.gone = TRUE]
<1>1. /\ UNCHANGED <<dir, data, time, push, pushes, writers, parent>> /\ Set(s, r)
  BY DEF stream_closed, fsVars, histVars
<1>2. Typed /\ ses[s] \in Session /\ ThreadOf(s)
  BY Thread0
<1>3. r \in Session
  BY <1>2 DEF Session
<1>4. /\ r.pc = ses[s].pc /\ r.path = ses[s].path /\ r.u = ses[s].u /\ r.to = ses[s].to
      /\ r.ans = ses[s].ans /\ r.phase = ses[s].phase /\ r.fd = ses[s].fd /\ r.got = ses[s].got
      /\ r.todo = ses[s].todo /\ r.sent = ses[s].sent /\ r.stay = ses[s].stay
  BY <1>2 DEF Session
<1> HIDE DEF r
<1>5. ses'[s] = r
  BY <1>1, <1>2, <1>3, SetFields DEF Typed
<1>6. Local(ses[s])'
  BY <1>2, <1>4, <1>5 DEF ThreadOf, Local
<1>7. Pushing(s)' /\ Cleared(s)' /\ Listing(s)' /\ Pulling(s)'
  BY <1>1, <1>2, <1>4, <1>5 DEF ThreadOf, Pushing, Cleared, Listing, Pulling, Sole
<1>8. Goes(s)
  BY <1>4, <1>5 DEF Goes
<1>9. parent' \subseteq Paths
  BY <1>1, <1>2 DEF Typed
<1> QED BY <1>1, <1>3, <1>6, <1>7, <1>8, <1>9, QuietStep DEF ThreadOf

LEMMA StatInv ==
  ASSUME IInv, NEW s \in Sessions, do_stat(s)
  PROVE  IInv'
<1> DEFINE r == [ses[s] EXCEPT !.ans = <<>>]
<1>1. UNCHANGED <<fsVars, histVars>> /\ Set(s, Return(Answer(r, "OK")))
  BY DEF do_stat
<1>2. ses[s] \in Session /\ ses[s].pc = "request" /\ ses[s].phase = "idle"
  BY Thread0 DEF do_stat, Requested
<1>3. <<>> \in Answers
  BY DEF Answers
<1>4. r \in Session
  BY <1>2, <1>3 DEF Session
<1>5. r.ans = <<>> /\ r.phase = "idle" /\ r.pc = "request"
  BY <1>2 DEF Session
<1> HIDE DEF r
<1> QED BY <1>1, <1>4, <1>5, AnswerStep

LEMMA ListInv ==
  ASSUME IInv, NEW s \in Sessions, do_list(s)
  PROVE  IInv'
<1> DEFINE names == {p \in Paths : dir[p] # None}
           r == [ses[s] EXCEPT !.ans = <<>>, !.pc = "list", !.todo = names, !.stay = names]
<1>1. UNCHANGED <<fsVars, histVars>> /\ (Set(s, r) \/ Set(s, Return(Answer(r, "OK"))))
  BY DEF do_list
<1>u. UNCHANGED <<dir, data, time, push, pushes, writers, parent>>
  BY <1>1 DEF fsVars, histVars
<1>2. Typed /\ ses[s] \in Session /\ ses[s].pc = "request" /\ ses[s].phase = "idle" /\ ses[s].u = 0
  BY Thread0 DEF do_list, Requested
<1>3. <<>> \in Answers /\ "list" \in States
  BY DEF Answers, States
<1>n. names \subseteq Paths /\ \A p \in names : dir[p] # None
  OBVIOUS
<1> HIDE DEF names
<1>4. r \in Session
  BY <1>2, <1>3, <1>n DEF Session
<1>5. /\ r.ans = <<>> /\ r.phase = "idle" /\ r.pc = "list" /\ r.u = 0
      /\ r.todo = names /\ r.stay = names
  BY <1>2 DEF Session
<1> HIDE DEF r
<1>6. CASE Set(s, r)
  <2>1. ses'[s] = r
    BY <1>2, <1>4, <1>6, SetFields DEF Typed
  <2>2. r.pc \notin Sending /\ r.pc \notin Opening /\ r.pc \notin Linking
    BY <1>5 DEF Sending, Opening, Linking
  <2>3. Local(ses[s])'
    BY <1>5, <2>1, <2>2 DEF Local
  <2>4. Pushing(s)' /\ Cleared(s)' /\ Pulling(s)' /\ Goes(s)
    BY <1>5, <2>1, <2>2 DEF Pushing, Cleared, Pulling, Goes
  <2>5. Listing(s)'
    BY <1>5, <1>n, <1>u, <2>1 DEF Listing
  <2>6. parent' \subseteq Paths
    BY <1>u, <1>2 DEF Typed
  <2> QED BY <1>u, <1>4, <1>6, <2>3, <2>4, <2>5, <2>6, QuietStep DEF ThreadOf
<1>7. CASE Set(s, Return(Answer(r, "OK")))
  BY <1>1, <1>4, <1>5, <1>7, AnswerStep
<1> QED BY <1>1, <1>6, <1>7

LEMMA EntryInv ==
  ASSUME IInv, NEW s \in Sessions, list_entry(s)
  PROVE  IInv'
<1>u. UNCHANGED <<fsVars, histVars>> /\ UNCHANGED <<dir, data, time, push, pushes, writers, parent>>
  BY DEF list_entry, fsVars, histVars
<1>0. /\ Typed /\ ses[s] \in Session /\ ThreadOf(s) /\ ses[s].pc = "list"
      /\ ses[s].phase = "idle" /\ ses[s].u = 0 /\ ses[s].ans = <<>>
  BY Thread0 DEF list_entry
<1>1. PICK p \in ses[s].todo :
        Set(s, IF ses[s].gone /\ dir[p] # None THEN Over
               ELSE [ses[s] EXCEPT !.todo = left_to_list(@, p),
                                   !.sent = IF dir[p] # None THEN @ \cup {p} ELSE @])
  BY DEF list_entry
<1> DEFINE more == IF dir[p] # None THEN ses[s].sent \cup {p} ELSE ses[s].sent
           r == [ses[s] EXCEPT !.todo = ses[s].todo \ {p}, !.sent = more]
<1>2. p \in Paths
  BY <1>0 DEF Session
<1>3. CASE ses[s].gone /\ dir[p] # None
  BY <1>1, <1>3, <1>u, FreshOver, IdleStep
<1>4. CASE ~(ses[s].gone /\ dir[p] # None)
  <2>1. Set(s, r)
    BY <1>1, <1>4 DEF left_to_list
  <2>2. more \subseteq Paths /\ ses[s].sent \subseteq more /\ (dir[p] # None => p \in more)
    BY <1>0, <1>2 DEF Session
  <2> HIDE DEF more
  <2>3. r \in Session
    BY <1>0, <2>2 DEF Session
  <2>4. /\ r.ans = <<>> /\ r.phase = "idle" /\ r.pc = "list" /\ r.u = 0
        /\ r.todo = ses[s].todo \ {p} /\ r.stay = ses[s].stay /\ r.sent = more
    BY <1>0 DEF Session
  <2> HIDE DEF r
  <2>5. ses'[s] = r
    BY <1>0, <2>1, <2>3, SetFields DEF Typed
  <2>6. r.pc \notin Sending /\ r.pc \notin Opening /\ r.pc \notin Linking
    BY <2>4 DEF Sending, Opening, Linking
  <2>7. Local(ses[s])'
    BY <2>4, <2>5, <2>6 DEF Local
  <2>8. Pushing(s)' /\ Cleared(s)' /\ Pulling(s)' /\ Goes(s)
    BY <2>4, <2>5, <2>6 DEF Pushing, Cleared, Pulling, Goes
  <2>9. Listing(s)'
    <3>1. ses[s].stay \subseteq ses[s].sent \cup ses[s].todo /\ \A q \in ses[s].stay : dir[q] # None
      BY <1>0 DEF ThreadOf, Listing
    <3>2. r.stay \subseteq r.sent \cup r.todo
      BY <2>2, <2>4, <3>1
    <3> QED BY <1>u, <2>4, <2>5, <3>1, <3>2 DEF Listing
  <2>10. parent' \subseteq Paths
    BY <1>u, <1>0 DEF Typed
  <2> QED BY <1>u, <2>1, <2>3, <2>7, <2>8, <2>9, <2>10, QuietStep DEF ThreadOf
<1> QED BY <1>3, <1>4

LEMMA AnsweredInv ==
  ASSUME IInv, NEW s \in Sessions, list_done(s) \/ recv_done(s) \/ recv_failed(s)
  PROVE  IInv'
<1>0. /\ ses[s] \in Session /\ ses[s].pc \in {"list", "recv"}
      /\ ses[s].phase = "idle" /\ ses[s].ans = <<>>
  BY Thread0 DEF list_done, recv_done, recv_failed
<1>1. PICK a \in {"OK", "FAIL"} : UNCHANGED <<fsVars, histVars>> /\ Set(s, Return(Answer(ses[s], a)))
  BY DEF list_done, recv_done, recv_failed, read_error_answer
<1> DEFINE r == ses[s]
<1>2. r \in Session /\ r.pc # "done" /\ r.phase = "idle" /\ r.ans = <<>> /\ Set(s, Return(Answer(r, a)))
  BY <1>0, <1>1
<1> HIDE DEF r
<1> QED BY <1>1, <1>2, AnswerStep

LEMMA RecvInv ==
  ASSUME IInv, NEW s \in Sessions, do_recv(s)
  PROVE  IInv'
<1>u. UNCHANGED <<fsVars, histVars>> /\ UNCHANGED <<dir, data, time, push, pushes, writers, parent>>
  BY DEF do_recv, fsVars, histVars
<1>0. /\ Typed /\ ses[s] \in Session /\ ses[s].pc = "request" /\ ses[s].phase = "idle"
      /\ ses[s].u = 0 /\ ses[s].got = <<>>
  BY Thread0 DEF do_recv, Requested, Local
<1>a. <<>> \in Answers /\ "recv" \in States
  BY DEF Answers, States
<1>1. PICK p \in Paths :
        LET r == [ses[s] EXCEPT !.ans = <<>>, !.path = p]
        IN  \/ Resolve(p) # None /\ Set(s, [r EXCEPT !.pc = "recv", !.fd = Resolve(p)])
            \/ Set(s, Return(Answer(r, "FAIL")))
  BY DEF do_recv
<1> DEFINE i == Resolve(p)
           q == [ses[s] EXCEPT !.ans = <<>>, !.path = p]
           r == [q EXCEPT !.pc = "recv", !.fd = i]
<1>2. i \in Inodes \cup {None}
  BY <1>0, ResolvedFile DEF Typed
<1>3. (i # None /\ Set(s, r)) \/ Set(s, Return(Answer(q, "FAIL")))
  BY <1>1
<1> HIDE DEF i
<1>4. q \in Session
  BY <1>0, <1>a DEF Session
<1>5. /\ q.ans = <<>> /\ q.phase = "idle" /\ q.pc = "request" /\ q.u = 0 /\ q.got = <<>>
  BY <1>0 DEF Session
<1>6. r \in Session
  BY <1>2, <1>4, <1>a DEF Session
<1>7. r.ans = <<>> /\ r.phase = "idle" /\ r.pc = "recv" /\ r.u = 0 /\ r.got = <<>> /\ r.fd = i
  BY <1>0 DEF Session
<1> HIDE DEF q, r
<1>8. CASE Set(s, Return(Answer(q, "FAIL")))
  BY <1>u, <1>4, <1>5, <1>8, AnswerStep
<1>9. CASE i # None /\ Set(s, r)
  <2>1. ses'[s] = r
    BY <1>0, <1>6, <1>9, SetFields DEF Typed
  <2>2. r.pc \notin Sending /\ r.pc \notin Opening /\ r.pc \notin Linking
    BY <1>7 DEF Sending, Opening, Linking
  <2>3. Local(ses[s])'
    BY <1>7, <1>9, <2>1, <2>2 DEF Local
  <2>4. Pushing(s)' /\ Cleared(s)' /\ Listing(s)' /\ Goes(s)
    BY <1>7, <2>1, <2>2 DEF Pushing, Cleared, Listing, Goes
  <2>5. Pulling(s)'
    <3>1. Len(data'[i]) \in Nat
      <4>1. data'[i] \in Seq(Inodes)
        BY <1>u, <1>0, <1>2, <1>9 DEF Typed
      <4> QED BY <4>1, LenProperties
    <3>2. Len(<<>>) = 0
      OBVIOUS
    <3> QED BY <1>7, <2>1, <3>1, <3>2 DEF Pulling
  <2>6. parent' \subseteq Paths
    BY <1>u, <1>0 DEF Typed
  <2> QED BY <1>u, <1>6, <1>9, <2>3, <2>4, <2>5, <2>6, QuietStep DEF ThreadOf
<1> QED BY <1>3, <1>8, <1>9

LEMMA RecvDataInv ==
  ASSUME IInv, NEW s \in Sessions, recv_data(s)
  PROVE  IInv'
<1>u. UNCHANGED <<fsVars, histVars>> /\ UNCHANGED <<dir, data, time, push, pushes, writers, parent>>
  BY DEF recv_data, fsVars, histVars
<1>0. /\ Typed /\ ses[s] \in Session /\ ThreadOf(s) /\ ses[s].pc = "recv" /\ ses[s].phase = "idle"
      /\ ses[s].u = 0 /\ ses[s].ans = <<>> /\ ses[s].fd # None
  BY Thread0 DEF recv_data, Local
<1> DEFINE i == ses[s].fd
           g == ses[s].got
           d == data[i]
           e == d[Len(g) + 1]
           r == [ses[s] EXCEPT !.got = Append(g, e)]
<1>1. Len(g) < Len(d) /\ Set(s, IF ses[s].gone THEN Over ELSE r)
  BY DEF recv_data
<1>2. i \in Inodes /\ g \in Seq(Inodes)
  BY <1>0 DEF Session
<1>3. d \in Seq(Inodes)
  BY <1>0, <1>2 DEF Typed
<1>4. Len(g) \in Nat /\ Len(d) \in Nat
  BY <1>2, <1>3, LenProperties
<1>5. e \in Inodes
  BY <1>1, <1>3, <1>4, ElementOfSeq
<1> DEFINE G == Append(g, e)
<1>6. /\ G \in Seq(Inodes) /\ Len(G) = Len(g) + 1 /\ G[Len(g) + 1] = e
      /\ \A k \in 1..Len(g) : G[k] = g[k]
  <2> HIDE DEF g, e
  <2> QED BY <1>2, <1>5, AppendProperties, LenProperties
<1>7. CASE ses[s].gone
  BY <1>1, <1>7, <1>u, FreshOver, IdleStep
<1>8. CASE ~ses[s].gone
  <2>p. /\ Len(g) <= Len(d)
        /\ writers[i] \subseteq {i} => \A k \in 1..Len(g) : g[k] = d[k]
    BY <1>0 DEF ThreadOf, Pulling, Sole
  <2>1. r = [ses[s] EXCEPT !.got = G]
    OBVIOUS
  <2>e. e = d[Len(g) + 1]
    OBVIOUS
  <2> HIDE DEF G, e
  <2>2. [ses[s] EXCEPT !.got = G] \in Session
    BY <1>0, <1>6 DEF Session
  <2>3. r.ans = <<>> /\ r.phase = "idle" /\ r.pc = "recv" /\ r.u = 0 /\ r.got = G /\ r.fd = i
    BY <1>0, <2>1 DEF Session
  <2>4. r \in Session /\ Set(s, r)
    BY <1>1, <1>8, <2>1, <2>2
  <2> HIDE DEF r
  <2>5. ses'[s] = r
    BY <1>0, <2>4, SetFields DEF Typed
  <2>6. r.pc \notin Sending /\ r.pc \notin Opening /\ r.pc \notin Linking
    BY <2>3 DEF Sending, Opening, Linking
  <2>7. Local(ses[s])'
    BY <1>0, <2>3, <2>5, <2>6 DEF Local
  <2>8. Pushing(s)' /\ Cleared(s)' /\ Listing(s)' /\ Goes(s)
    BY <2>3, <2>5, <2>6 DEF Pushing, Cleared, Listing, Goes
  <2>9. Pulling(s)'
    <3>1. data'[i] = d /\ writers'[i] = writers[i]
      BY <1>u
    <3> HIDE DEF d, g, i
    <3>2. Len(G) <= Len(d)
      BY <1>1, <1>4, <1>6
    <3>3. ASSUME writers[i] \subseteq {i}, NEW k \in 1..Len(G) PROVE G[k] = d[k]
      <4>1. CASE k = Len(g) + 1
        <5>1. G[Len(g) + 1] = d[Len(g) + 1]
          BY <1>6, <2>e
        <5> QED BY <4>1, <5>1
      <4>2. CASE k # Len(g) + 1
        BY <1>4, <1>6, <2>p, <3>3, <4>2
      <4> QED BY <4>1, <4>2
    <3> QED BY <2>3, <2>5, <3>1, <3>2, <3>3 DEF Pulling, Sole
  <2>10. parent' \subseteq Paths
    BY <1>u, <1>0 DEF Typed
  <2> QED BY <1>u, <2>4, <2>7, <2>8, <2>9, <2>10, QuietStep DEF ThreadOf
<1> QED BY <1>7, <1>8

\* mkdirs, the target of a link, and an open or symlink that is tried again.
LEMMA MoveStep ==
  ASSUME IInv, NEW s \in Sessions, NEW l \in States, NEW t \in Paths \cup {None},
         UNCHANGED <<dir, data, time, push, pushes, writers>>, parent' \subseteq Paths,
         \/ ses[s].pc \in Opening /\ l \in Opening
         \/ ses[s].pc \in Linking /\ l \in Linking,
         l \in {"symlink", "linkmkdirs", "symlink2"} => t # None,
         Set(s, [ses[s] EXCEPT !.to = t, !.pc = l])
  PROVE  IInv'
<1> DEFINE r == [ses[s] EXCEPT !.to = t, !.pc = l]
<1>1. Typed /\ ses[s] \in Session /\ ThreadOf(s)
  BY Thread0
<1>2. r \in Session
  BY <1>1 DEF Session
<1>3. /\ r.pc = l /\ r.to = t /\ r.u = ses[s].u /\ r.path = ses[s].path /\ r.phase = ses[s].phase
      /\ r.ans = ses[s].ans /\ r.fd = ses[s].fd
  BY <1>1 DEF Session
<1>4. Set(s, r)
  OBVIOUS
<1> HIDE DEF r
<1>5. ses'[s] = r
  BY <1>1, <1>2, <1>4, SetFields DEF Typed
<1>6. ThreadOf(s)' /\ Goes(s)
  BY <1>1, <1>3, <1>5, Moved
<1> QED BY <1>2, <1>4, <1>6, QuietStep

LEMMA SameTarget ==
  ASSUME IInv, NEW s \in Sessions, NEW l
  PROVE  /\ [ses[s] EXCEPT !.pc = l] = [ses[s] EXCEPT !.to = ses[s].to, !.pc = l]
         /\ ses[s].to \in Paths \cup {None}
         /\ ses[s].pc \in {"symlink", "linkmkdirs", "symlink2"} => ses[s].to # None
<1>1. ses[s] \in Session /\ Local(ses[s])
  BY Thread0
<1> DEFINE r == ses[s]
<1>2. r \in Session
  BY <1>1
<1> HIDE DEF r
<1>3. [r EXCEPT !.pc = l] = [r EXCEPT !.to = r.to, !.pc = l]
  BY <1>2 DEF Session
<1> QED BY <1>1, <1>3 DEF r, Session, Local

LEMMA MkdirsInv ==
  ASSUME IInv, NEW s \in Sessions, mkdirs(s)
  PROVE  IInv'
<1> DEFINE l == IF ses[s].pc = "mkdirs" THEN "open2" ELSE "symlink2"
<1>1. Typed /\ ses[s] \in Session /\ Local(ses[s])
  BY Thread0
<1>2. /\ UNCHANGED <<dir, data, time, push, pushes, writers>>
      /\ Set(s, [ses[s] EXCEPT !.pc = l])
      /\ ses[s].pc \in {"mkdirs", "linkmkdirs"}
      /\ parent' \in {parent, parent \cup {ses[s].path}}
  BY DEF mkdirs, histVars
<1>3. parent' \subseteq Paths
  <2>1. ses[s].pc \in Sending
    BY <1>2 DEF Sending, Opening, Linking
  <2>2. ses[s].path \in Paths
    BY <1>1, <2>1 DEF Local, Session
  <2> QED BY <1>1, <1>2, <2>2 DEF Typed
<1>4. /\ l \in States
      /\ \/ ses[s].pc \in Opening /\ l \in Opening
         \/ ses[s].pc \in Linking /\ l \in Linking
      /\ l \in {"symlink", "linkmkdirs", "symlink2"} => ses[s].pc = "linkmkdirs"
  BY <1>2 DEF Opening, Linking, States
<1> HIDE DEF l
<1>5. /\ Set(s, [ses[s] EXCEPT !.to = ses[s].to, !.pc = l])
      /\ ses[s].to \in Paths \cup {None}
      /\ l \in {"symlink", "linkmkdirs", "symlink2"} => ses[s].to # None
  BY <1>2, <1>4, SameTarget
<1> DEFINE t == ses[s].to
<1>6. /\ Set(s, [ses[s] EXCEPT !.to = t, !.pc = l])
      /\ t \in Paths \cup {None}
      /\ l \in {"symlink", "linkmkdirs", "symlink2"} => t # None
  BY <1>5
<1> HIDE DEF t
<1> QED BY <1>2, <1>3, <1>4, <1>6, MoveStep

LEMMA LinkDataInv ==
  ASSUME IInv, NEW s \in Sessions, link_data(s)
  PROVE  IInv'
<1>1. /\ UNCHANGED <<dir, data, time, push, pushes, writers, parent>>
      /\ ses[s].pc = "linkdata"
  BY DEF link_data, fsVars, histVars
<1>2. PICK p \in Paths : Set(s, [ses[s] EXCEPT !.to = p, !.pc = "symlink"])
  BY DEF link_data
<1>3. parent' \subseteq Paths
  BY <1>1, Thread0 DEF Typed
<1>4. p \in Paths \cup {None} /\ p # None
  BY Distinct
<1>5. "symlink" \in States /\ "symlink" \in Linking /\ ses[s].pc \in Linking
  BY <1>1 DEF States, Linking
<1> QED BY <1>1, <1>2, <1>3, <1>4, <1>5, MoveStep

\* A call that is followed by another, which is all that has changed.
LEMMA AgainStep ==
  ASSUME IInv, NEW s \in Sessions, NEW l \in States, UNCHANGED <<fsVars, histVars>>,
         \/ ses[s].pc \in Opening /\ l \in Opening
         \/ ses[s].pc \in Linking /\ l \in Linking,
         l \in {"symlink", "linkmkdirs", "symlink2"} =>
           ses[s].pc \in {"symlink", "linkmkdirs", "symlink2"},
         Set(s, [ses[s] EXCEPT !.pc = l])
  PROVE  IInv'
<1>1. UNCHANGED <<dir, data, time, push, pushes, writers, parent>>
  BY DEF fsVars, histVars
<1>2. parent' \subseteq Paths
  BY <1>1, Thread0 DEF Typed
<1> DEFINE t == ses[s].to
<1>3. /\ Set(s, [ses[s] EXCEPT !.to = t, !.pc = l])
      /\ t \in Paths \cup {None}
      /\ l \in {"symlink", "linkmkdirs", "symlink2"} => t # None
  BY SameTarget
<1> HIDE DEF t
<1> QED BY <1>1, <1>2, <1>3, MoveStep

-----------------------------------------------------------------------------
(* The steps of a push.                                                    *)

\* What the thread of a push may do to the others: it changes its own push, what
\* its own path names and what it has opened; and the time of another file only
\* if it has rivals.
Acts(s) ==
  LET u == ses[s].u
      p == ses[s].path
  IN  /\ ses[s].pc \in Sending /\ pushes' = pushes
      /\ \A v \in Pushes \ {u} : push'[v] = push[v]
      /\ push'[u].path = push[u].path /\ push'[u].rival = push[u].rival
      /\ push[u].file # None => push'[u].file = push[u].file
      /\ \A q \in Paths \ {p} : dir'[q] = dir[q]
      /\ p \in Pinned => dir'[p] = dir[p]
      /\ \A v \in Pushes : dir'[p] = File(v) => dir[p] = File(v) \/ (v = u /\ push'[u].file = u)
      /\ \A i \in Inodes : writers[i] \subseteq writers'[i] /\ writers'[i] \subseteq writers[i] \cup {u}
      /\ \A v \in Pushes \ {u} : push[v].file # v => u \notin writers'[v]
      /\ \A i \in Inodes : u \notin writers'[i] => data'[i] = data[i]
      /\ \A i \in Inodes : Grown(i)
      /\ \A i \in Inodes : \/ time'[i] = time[i] \/ u \in writers'[i]
                           \/ time'[i] = u /\ push[u].rival

\* The push of a thread.
LEMMA ItsPush ==
  ASSUME IInv, NEW s \in Sessions, ses[s].pc \in Sending
  PROVE  /\ ses[s].u \in Pushes /\ ses[s].path \in Paths /\ push[ses[s].u].path = ses[s].path
         /\ ses[s].u <= pushes /\ push[ses[s].u] \in Push /\ PushOf(ses[s].u) /\ Pushing(s)
<1>1. Typed /\ ses[s] \in Session /\ Local(ses[s]) /\ Pushing(s)
  BY Thread0 DEF ThreadOf
<1>2. ses[s].u \in Pushes /\ ses[s].path \in Paths
  BY <1>1 DEF Local, Session
<1>3. push[ses[s].u].path = ses[s].path /\ ses[s].u <= pushes
  BY <1>1 DEF Pushing
<1> QED BY <1>1, <1>2, <1>3 DEF Typed, IInv

LEMMA ActsOthers ==
  ASSUME IInv, Typed', NEW s \in Sessions, Others(s), Goes(s), Acts(s)
  PROVE  /\ \A x \in Sessions \ {s} : ThreadOf(x)'
         /\ OnePush' /\ Named'
         /\ \A v \in Pushes : Alone(v)'
         /\ \A v \in Pushes \ {ses[s].u} : PushOf(v)'
<1> DEFINE u == ses[s].u
           p == ses[s].path
<1>0. Typed /\ \A x \in Sessions : ThreadOf(x)
  BY TypedParts DEF IInv
<1>i. u \in Pushes /\ p \in Paths /\ push[u].path = p /\ u <= pushes
  BY ItsPush DEF Acts
<1>d. Pushes \subseteq Inodes /\ (\A v \in Pushes : v # None) /\ (\A q \in Paths : q # None)
  BY Distinct
<1>1. ASSUME NEW x \in Sessions, x # s PROVE ThreadOf(x)'
  <2> DEFINE r == ses[x]
  <2>1. r.pc \in Sending => r.u \in Pushes /\ r.u # u
    <3>1. ASSUME r.pc \in Sending PROVE r.u \in Pushes /\ r.u # 0
      BY <3>1, ItsPush, Distinct
    <3> QED BY <1>1, <3>1 DEF IInv, OnePush
  <2>2. r.pc \in Sending =>
          /\ push'[r.u].path = push[r.u].path /\ push'[r.u].state = push[r.u].state
          /\ push'[r.u].file = push[r.u].file /\ push'[r.u].sent = push[r.u].sent
          /\ push'[r.u].rival = push[r.u].rival
    BY <2>1 DEF Acts
  <2>3. ASSUME r.pc \in Opening, ~push'[r.u].rival PROVE dir'[r.path] = dir[r.path]
    <3>1. r.pc \in Sending
      BY <2>3 DEF Sending
    <3>2. Alone(r.u) /\ r.path = push[r.u].path /\ r.path \in Paths
      BY <3>1, ItsPush DEF PushOf
    <3>3. r.path # p
      <4>1. u # 0
        BY <1>i, Distinct
      <4> QED BY <2>1, <2>2, <2>3, <3>1, <3>2, <4>1 DEF Alone
    <3> QED BY <3>2, <3>3 DEF Acts
  <2>4. r.pc = "recv" => Grown(r.fd)
    <3>1. r.pc = "recv" => r.fd \in Inodes
      BY <1>0 DEF Typed, Session, ThreadOf, Local
    <3> QED BY <3>1 DEF Acts
  <2>5. pushes <= pushes'
    BY <1>0 DEF Acts, Typed
  <2> QED BY <1>0, <1>1, <2>2, <2>3, <2>4, <2>5, OtherKept
<1>2. OnePush'
  BY OnePushKept DEF IInv
<1>3. Named'
  <2>1. Named
    BY DEF IInv
  <2>2. ASSUME NEW q \in Pinned PROVE dir'[q] = File(q)
    <3>1. q \in Paths /\ dir[q] = File(q)
      BY <2>1, Distinct DEF Named
    <3> QED BY <3>1 DEF Acts
  <2>3. ASSUME NEW q \in Paths, NEW v \in Pushes, dir'[q] = File(v)
        PROVE  push'[v].path = q /\ push'[v].file = v
    <3>1. CASE dir[q] = File(v)
      <4>1. push[v].path = q /\ push[v].file = v /\ v # None
        BY <1>d, <2>1, <3>1 DEF Named
      <4> QED BY <4>1 DEF Acts
    <3>2. CASE dir[q] # File(v)
      <4>1. q = p /\ v = u /\ push'[u].file = u
        BY <2>3, <3>2 DEF Acts
      <4> QED BY <1>i, <4>1 DEF Acts
    <3> QED BY <3>1, <3>2
  <2> QED BY <2>2, <2>3 DEF Named
<1>4. ASSUME NEW v \in Pushes PROVE Alone(v)'
  <2>1. Alone(v) /\ push'[v].path = push[v].path /\ push'[v].rival = push[v].rival
    BY DEF IInv, PushOf, Acts
  <2> QED BY <2>1, AloneKept
<1>5. ASSUME NEW v \in Pushes, v # u PROVE PushOf(v)'
  <2>0. PushOf(v) /\ push'[v] = push[v] /\ v \in Inodes
    BY <1>5, <1>d DEF IInv, Acts
  <2> DEFINE q == push[v]
             i == q.file
  <2>t. q \in Push
    BY <1>0 DEF Typed
  <2>i. i \in Inodes \cup {None} /\ q.path \in Paths \cup {None}
    BY <2>t DEF Push
  <2>1. Traces(v)'
    <3>1. /\ v > pushes => q.state = "none" /\ q.file = None /\ q.path = None /\ ~q.rival
          /\ v <= pushes => q.path # None
          /\ q.state = "failed" => \A x \in Paths : dir[x] # File(v)
          /\ q.state = "okay" => i # None
          /\ i # None => v \in writers[i]
          /\ i # v => writers[v] = {} /\ data[v] = <<>>
      BY <2>0 DEF PushOf, Traces
    <3>2. ASSUME NEW x \in Paths, dir'[x] = File(v) PROVE dir[x] = File(v)
      BY <1>5, <3>2 DEF Acts
    <3>3. i # None => v \in writers'[i]
      BY <3>1, <2>i DEF Acts
    <3>4. i # v => writers'[v] = {} /\ data'[v] = <<>>
      <4>1. ASSUME i # v PROVE u \notin writers'[v]
        BY <1>5, <4>1 DEF Acts
      <4> QED BY <2>0, <3>1, <4>1 DEF Acts
    <3>5. pushes' = pushes
      BY DEF Acts
    <3> HIDE DEF i, q
    <3> QED BY <2>0, <3>1, <3>2, <3>3, <3>4, <3>5 DEF Traces, i, q
  <2>2. ASSUME i # None, writers'[i] = {v}
        PROVE  i \in Inodes /\ writers[i] = {v} /\ data'[i] = data[i] /\ u \notin writers'[i]
    <3>1. i \in Inodes /\ v \in writers[i]
      BY <2>0, <2>2, <2>i DEF PushOf, Traces
    <3>2. u \notin writers'[i]
      BY <1>5, <2>2
    <3> QED BY <2>2, <3>1, <3>2 DEF Acts
  <2>3. Chunks(v)'
    <3>1. Chunks(v)
      BY <2>0 DEF PushOf
    <3> QED BY <2>0, <2>2, <3>1 DEF Chunks
  <2>4. Placed(v)'
    <3>0. Placed(v)
      BY <2>0 DEF PushOf
    <3>1. ASSUME q.state \in {"active", "okay"}, ~q.rival
          PROVE  q.path \in Paths /\ q.path # p
      <4>1. v <= pushes
        <5>1. ~(v > pushes)
          BY <2>0, <3>1 DEF PushOf, Traces
        <5>2. v \in Int /\ pushes \in Int
          <6>1. v \in Nat
            BY Distinct
          <6>2. pushes \in 0..MaxPush /\ MaxPush \in Nat
            BY <1>0, FileSyncAssumption DEF Typed
          <6> QED BY <6>1, <6>2
        <5> QED BY <5>1, <5>2
      <4>2. q.path # None
        BY <2>0, <4>1 DEF PushOf, Traces
      <4>3. u # 0
        BY <1>i, Distinct
      <4> QED BY <1>5, <2>0, <2>i, <3>1, <4>2, <4>3 DEF PushOf, Alone
    <3>2. ASSUME q.state \in {"active", "okay"}, i # None, ~q.rival
          PROVE  dir'[q.path] = File(i) /\ (q.path \notin Pinned => i = v)
      <4>1. dir[q.path] = File(i) /\ (q.path \notin Pinned => i = v)
        BY <3>0, <3>2 DEF Placed
      <4> QED BY <3>1, <3>2, <4>1 DEF Acts
    <3>3. ASSUME q.state = "okay", ~q.rival, writers'[i] = {v}
          PROVE  \/ time'[i] = v
                 \/ /\ time'[i] \in Pushes
                    /\ push'[time'[i]].rival /\ push'[time'[i]].path # push'[v].path
      <4>1. i # None
        BY <2>0, <3>3 DEF PushOf, Traces
      <4>2. i \in Inodes /\ writers[i] = {v} /\ u \notin writers'[i]
        BY <2>2, <3>3, <4>1
      <4>3. TimeSent(v, i)
        BY <3>0, <3>3, <4>2 DEF Placed
      <4>4. \A w \in Pushes : push'[w].path = push[w].path /\ push'[w].rival = push[w].rival
        BY DEF Acts
      <4>5. CASE time'[i] = time[i]
        BY <4>3, <4>4, <4>5, TimeKept
      <4>6. CASE time'[i] = u /\ push[u].rival
        BY <1>i, <3>1, <3>3, <4>4, <4>6
      <4> QED BY <4>2, <4>5, <4>6 DEF Acts
    <3> QED BY <2>0, <3>2, <3>3 DEF Placed, TimeSent
  <2> QED BY <1>4, <2>1, <2>3, <2>4 DEF PushOf
<1> QED BY <1>1, <1>2, <1>3, <1>4, <1>5

\* So it is left to show what becomes of the thread and its push.
LEMMA ActStep ==
  ASSUME IInv, Typed', NEW s \in Sessions, Others(s), Goes(s), Acts(s),
         ThreadOf(s)', NEW u, u = ses[s].u, Traces(u)', Chunks(u)', Placed(u)'
  PROVE  IInv'
<1>1. /\ \A x \in Sessions : ThreadOf(x)'
      /\ OnePush' /\ Named'
      /\ \A v \in Pushes : Alone(v)'
      /\ \A v \in Pushes \ {u} : PushOf(v)'
  BY ActsOthers
<1>2. u \in Pushes
  BY ItsPush DEF Acts
<1>3. \A v \in Pushes : PushOf(v)'
  BY <1>1, <1>2 DEF PushOf
<1>4. TypeOK'
  BY TypedParts
<1> QED BY <1>1, <1>3, <1>4 DEF IInv

LEMMA GrownSame ==
  ASSUME Typed, NEW i \in Inodes, data'[i] = data[i], writers[i] \subseteq writers'[i]
  PROVE  Grown(i)
<1>1. data[i] \in Seq(Inodes)
  BY DEF Typed
<1>2. Len(data[i]) \in Nat
  BY <1>1, LenProperties
<1> QED BY <1>2 DEF Grown

\* A push that has no file yet ends.
LEMMA EndStep ==
  ASSUME IInv, NEW s \in Sessions, ses[s].pc \in Opening \cup Linking,
         UNCHANGED <<fsVars, pushes, writers>>, NEW r \in Session, Set(s, r),
         NEW st \in {"failed", "left"}, PushIs(ses[s].u, st), ThreadOf(s)', Goes(s)
  PROVE  IInv'
<1>0. Typed /\ ses[s].pc \in Sending
  BY Thread0 DEF Sending
<1>1. PICK u \in Pushes : u = ses[s].u
  BY <1>0, ItsPush
<1>2. /\ push[u] \in Push /\ PushOf(u) /\ push[u].file = None
      /\ push[u].path = ses[s].path /\ u <= pushes /\ push[u].path # None
  BY <1>0, <1>1, ItsPush, Distinct DEF Pushing
<1>3. UNCHANGED <<dir, data, time, pushes, writers, parent>> /\ push' = [push EXCEPT ![u].state = st]
  BY <1>1 DEF fsVars, PushIs
<1>4. ses' \in [Sessions -> Session] /\ Others(s)
  BY <1>0, SetFields DEF Typed
<1>5. /\ push' \in [Pushes -> Push]
      /\ \A v \in Pushes \ {u} : push'[v] = push[v]
      /\ push'[u].path = push[u].path /\ push'[u].rival = push[u].rival
      /\ push'[u].file = None /\ push'[u].state = st
  BY <1>0, <1>2, <1>3 DEF Typed, Push
<1>6. Typed'
  BY <1>0, <1>3, <1>4, <1>5 DEF Typed
<1>7. \A i \in Inodes : Grown(i)
  BY <1>0, <1>3, GrownSame
<1>8. Acts(s)
  <2>1. \A v \in Pushes \ {u} : push[v].file # v => u \notin writers'[v]
    BY <1>3, Distinct DEF IInv, PushOf, Traces
  <2> QED BY <1>0, <1>1, <1>2, <1>3, <1>5, <1>7, <2>1 DEF Acts
<1>9. Traces(u)'
  <2>1. \A q \in Paths : dir'[q] # File(u)
    BY <1>2, <1>3, Distinct DEF IInv, Named
  <2>2. writers[u] = {} /\ data[u] = <<>> /\ ~(u > pushes)
    <3>1. u \in Nat /\ pushes \in 0..MaxPush /\ MaxPush \in Nat /\ u # None
      BY <1>0, Distinct, FileSyncAssumption DEF Typed
    <3> QED BY <1>2, <3>1 DEF PushOf, Traces
  <2> QED BY <1>2, <1>3, <1>5, <2>1, <2>2 DEF Traces
<1>10. Chunks(u)' /\ Placed(u)'
  BY <1>5 DEF Chunks, Placed
<1> QED BY <1>1, <1>4, <1>6, <1>8, <1>9, <1>10, ActStep

\* The thread of a link ends its request or itself.
LEMMA LinkEndInv ==
  ASSUME IInv, NEW s \in Sessions, link_aborted(s) \/ link_done(s)
  PROVE  IInv'
<1>0. Typed /\ ses[s] \in Session
  BY Thread0
<1>1. /\ ses[s].pc \in Linking /\ UNCHANGED <<fsVars, pushes, writers>> /\ PushIs(ses[s].u, "left")
  BY DEF link_aborted, link_done, Linking
<1>2. CASE link_aborted(s)
  <2>1. Set(s, Over)
    BY <1>2 DEF link_aborted
  <2>2. ses'[s] = Over
    BY <1>0, <2>1, FreshOver, SetFields DEF Typed
  <2>3. ThreadOf(s)' /\ Goes(s)
    BY <2>2, FreshOver, IdleThread
  <2> QED BY <1>1, <2>1, <2>3, FreshOver, EndStep
<1>3. CASE link_done(s)
  <2> DEFINE r == [ses[s] EXCEPT !.phase = "idle"]
             z == Return(Answer(r, "OK"))
  <2>1. Set(s, z) /\ ses[s].pc = "linkdone"
    BY <1>3 DEF link_done
  <2>2. r \in Session
    BY <1>0 DEF Session
  <2>3. r.ans = <<>> /\ r.phase = "idle" /\ r.pc = "linkdone"
    <3>1. ses[s].ans = <<>>
      BY <1>1, Thread0 DEF Local
    <3> QED BY <1>0, <2>1, <3>1 DEF Session
  <2> HIDE DEF r
  <2>4. z \in Session /\ Local(z) /\ z.pc \in {"request", "done"}
    BY <2>2, <2>3, Returned
  <2> HIDE DEF z
  <2>5. ses'[s] = z
    BY <1>0, <2>1, <2>4, SetFields DEF Typed
  <2>6. ThreadOf(s)' /\ Goes(s)
    BY <2>4, <2>5, IdleThread
  <2> QED BY <1>1, <2>1, <2>4, <2>6, EndStep
<1> QED BY <1>2, <1>3

\* fail_errno: the data of the push is still read.
LEMMA OpenFailedInv ==
  ASSUME IInv, NEW s \in Sessions, ses[s].pc \in Opening, open_failed(s)
  PROVE  IInv'
<1> DEFINE y == Answer(ses[s], "FAIL")
           z == Goto(y, "data")
<1>0. Typed /\ ses[s] \in Session /\ Local(ses[s]) /\ ses[s].pc \in Sending
  BY Thread0 DEF Sending
<1>1. /\ ses[s].pc \in Opening \cup Linking /\ UNCHANGED <<fsVars, pushes, writers>> /\ Set(s, z)
      /\ PushIs(ses[s].u, "failed")
  BY DEF open_failed, after_open_failure
<1>2. ses[s].ans = <<>> /\ ses[s].fd = None /\ ses[s].pc # "done"
  BY <1>0 DEF Local, Opening
<1>3. CASE ses[s].gone
  <2>1. y = Over
    BY <1>0, <1>2, <1>3, Answered
  <2>2. z = Over
    BY <2>1, FreshOver DEF Goto
  <2>3. Set(s, Over)
    BY <1>1, <2>2
  <2>4. ses'[s] = Over
    BY <1>0, <2>3, FreshOver, SetFields DEF Typed
  <2>5. ThreadOf(s)' /\ Goes(s)
    BY <2>4, FreshOver, IdleThread
  <2> QED BY <1>1, <2>3, <2>5, FreshOver, EndStep
<1>4. CASE ~ses[s].gone
  <2>1. /\ y \in Session /\ y.pc = ses[s].pc /\ y.path = ses[s].path /\ y.u = ses[s].u
        /\ y.ans = <<"FAIL">> /\ y.phase = ses[s].phase /\ y.fd = ses[s].fd
    BY <1>0, <1>2, <1>4, Answered
  <2> HIDE DEF y
  <2>2. z = [y EXCEPT !.pc = "data"]
    BY <1>2, <2>1 DEF Goto
  <2>3. "data" \in States
    BY DEF States
  <2>4. z \in Session
    BY <2>1, <2>2, <2>3 DEF Session
  <2>5. /\ z.pc = "data" /\ z.path = ses[s].path /\ z.u = ses[s].u /\ z.ans = <<"FAIL">>
        /\ z.phase = ses[s].phase /\ z.fd = None
    BY <1>2, <2>1, <2>2 DEF Session
  <2> HIDE DEF z
  <2>6. ses'[s] = z
    BY <1>0, <1>1, <2>4, SetFields DEF Typed
  <2>7. /\ push'[z.u].path = push[z.u].path /\ push'[z.u].state = "failed" /\ pushes' = pushes
        /\ push[z.u].path = z.path /\ z.u <= pushes
    <3>1. z.u \in Pushes /\ push[z.u] \in Push /\ push[z.u].path = z.path /\ z.u <= pushes
      BY <1>0, <2>5, ItsPush
    <3>2. push' = [push EXCEPT ![z.u].state = "failed"] /\ pushes' = pushes
      BY <1>1, <2>5 DEF PushIs
    <3> QED BY <1>0, <3>1, <3>2 DEF Typed, Push
  <2>8. <<"FAIL">> # <<>>
    OBVIOUS
  <2>9. Local(ses[s])'
    <3>1. ses[s].u # 0 /\ ses[s].path # None /\ ses[s].phase = "data"
      BY <1>0 DEF Local
    <3> QED BY <2>5, <2>6, <2>8, <3>1 DEF Local, Opening, Linking
  <2>10. Pushing(s)'
    BY <2>5, <2>6, <2>7 DEF Pushing, Opening, Linking
  <2>11. Cleared(s)' /\ Listing(s)' /\ Pulling(s)' /\ Goes(s)
    BY <2>5, <2>6 DEF Cleared, Listing, Pulling, Goes, Opening
  <2> QED BY <1>1, <2>4, <2>9, <2>10, <2>11, EndStep DEF ThreadOf
<1> QED BY <1>3, <1>4

\* The file is open, whether it is new or was there.
LEMMA OpenedStep ==
  ASSUME IInv, NEW s \in Sessions, ses[s].pc \in Opening, NEW i \in Inodes, opened(s, i),
         UNCHANGED <<parent, data, time>>, dir' \in [Paths -> Names],
         NEW u \in Pushes, u = ses[s].u, NEW p \in Paths, p = ses[s].path,
         \A q \in Paths \ {p} : dir'[q] = dir[q],
         p \in Pinned => dir'[p] = dir[p],
         \A v \in Pushes : dir'[p] = File(v) => dir[p] = File(v) \/ (v = u /\ i = u),
         \A v \in Pushes \ {u} : i = v => push[v].file = v,
         ~push[u].rival => dir'[p] = File(i) /\ (p \notin Pinned => i = u)
  PROVE  IInv'
<1> DEFINE r == [ses[s] EXCEPT !.fd = i, !.pc = "data"]
<1>0. Typed /\ ses[s] \in Session /\ Local(ses[s]) /\ ses[s].pc \in Sending
  BY Thread0 DEF Sending
<1>1. /\ Set(s, r) /\ writers' = [writers EXCEPT ![i] = @ \cup {u}]
      /\ push' = [push EXCEPT ![u].file = i] /\ pushes' = pushes
  BY DEF opened
<1>2. /\ push[u] \in Push /\ PushOf(u) /\ push[u].path = p /\ u <= pushes
      /\ push[u].state = "active" /\ push[u].file = None /\ push[u].sent = 0
  BY <1>0, ItsPush DEF Pushing
<1>d. /\ i # None /\ u # None /\ p # None /\ u \in Inodes
      /\ \A v \in Pushes : v \in Inodes /\ v # None
  BY Distinct
<1>3. "data" \in States
  BY DEF States
<1>4. r \in Session
  BY <1>0, <1>3 DEF Session
<1>5. /\ r.pc = "data" /\ r.path = p /\ r.u = u /\ r.ans = <<>> /\ r.phase = "data" /\ r.fd = i
  <2>1. ses[s].ans = <<>> /\ ses[s].phase = "data"
    BY <1>0 DEF Local
  <2> QED BY <1>0, <2>1 DEF Session
<1> HIDE DEF r
<1>6. ses' \in [Sessions -> Session] /\ ses'[s] = r /\ Others(s)
  BY <1>0, <1>1, <1>4, SetFields DEF Typed
<1>7. /\ push' \in [Pushes -> Push]
      /\ \A v \in Pushes \ {u} : push'[v] = push[v]
      /\ push'[u].path = p /\ push'[u].rival = push[u].rival /\ push'[u].sent = 0
      /\ push'[u].file = i /\ push'[u].state = "active"
  BY <1>0, <1>1, <1>2 DEF Typed, Push
<1>8. /\ writers' \in [Inodes -> SUBSET Pushes]
      /\ \A j \in Inodes : writers[j] \subseteq writers'[j] /\ writers'[j] \subseteq writers[j] \cup {u}
      /\ \A j \in Inodes \ {i} : writers'[j] = writers[j]
      /\ u \in writers'[i]
  BY <1>0, <1>1 DEF Typed
<1>9. Typed'
  BY <1>0, <1>1, <1>6, <1>7, <1>8 DEF Typed
<1>10. \A j \in Inodes : Grown(j)
  BY <1>0, <1>8, GrownSame
<1>11. Acts(s)
  <2>1. ASSUME NEW v \in Pushes, v # u, push[v].file # v PROVE u \notin writers'[v]
    <3>1. writers[v] = {} /\ v # i /\ v \in Inodes
      BY <1>d, <2>1 DEF IInv, PushOf, Traces
    <3> QED BY <1>8, <3>1
  <2>2. \A j \in Inodes : data'[j] = data[j] /\ time'[j] = time[j]
    OBVIOUS
  <2> QED BY <1>0, <1>1, <1>2, <1>7, <1>8, <1>10, <2>1, <2>2 DEF Acts
<1>12. ThreadOf(s)' /\ Goes(s)
  <2>1. u # 0
    BY Distinct
  <2>2. Local(ses[s])'
    BY <1>d, <1>5, <1>6, <2>1 DEF Local, Opening, Linking
  <2>3. Pushing(s)'
    BY <1>1, <1>2, <1>5, <1>6, <1>7, <1>d DEF Pushing, Opening, Linking
  <2>4. Cleared(s)' /\ Listing(s)' /\ Pulling(s)' /\ Goes(s)
    BY <1>5, <1>6 DEF Cleared, Listing, Pulling, Goes, Opening
  <2> QED BY <2>2, <2>3, <2>4 DEF ThreadOf
<1>13. writers[u] = {} /\ data[u] = <<>>
  BY <1>2, <1>d DEF PushOf, Traces
<1>14. Traces(u)'
  <2>1. ~(u > pushes)
    <3>1. u \in Nat /\ pushes \in 0..MaxPush /\ MaxPush \in Nat
      BY <1>0, Distinct, FileSyncAssumption DEF Typed
    <3> QED BY <1>2, <3>1
  <2> QED BY <1>1, <1>7, <1>8, <1>13, <1>d, <2>1 DEF Traces
<1>15. Chunks(u)'
  <2>1. Len(data'[i]) \in Nat
    <3>1. data'[i] \in Seq(Inodes)
      BY <1>9 DEF Typed
    <3> QED BY <3>1, LenProperties
  <2>2. i = u => Len(data'[i]) = 0
    BY <1>13
  <2> QED BY <1>7, <2>1, <2>2 DEF Chunks
<1>16. Placed(u)'
  BY <1>7 DEF Placed
<1> QED BY <1>6, <1>9, <1>11, <1>12, <1>14, <1>15, <1>16, ActStep

\* The first open, the second, and what follows them.
LEMMA SendFileInv ==
  ASSUME IInv, NEW s \in Sessions, handle_send_file(s)
  PROVE  IInv'
<1>0. Typed /\ ses[s].pc \in {"open", "open2"}
  BY Thread0 DEF handle_send_file
<1>1. ses[s].pc \in Opening /\ ses[s].pc \in Sending
  BY <1>0 DEF Opening, Sending
<1>2. PICK u \in Pushes : u = ses[s].u
  BY <1>1, ItsPush
<1>3. PICK p \in Paths : p = ses[s].path
  BY <1>1, ItsPush
<1>4. ASSUME UNCHANGED <<fsVars, histVars>>, Set(s, [ses[s] EXCEPT !.pc = "mkdirs"])
      PROVE  IInv'
  <2>1. "mkdirs" \in States /\ "mkdirs" \in Opening
    BY DEF States, Opening
  <2> QED BY <1>1, <1>4, <2>1, AgainStep
<1>5. ASSUME UNCHANGED <<fsVars, histVars>>, Set(s, [ses[s] EXCEPT !.pc = "exists"])
      PROVE  IInv'
  <2>1. "exists" \in States /\ "exists" \in Opening
    BY DEF States, Opening
  <2> QED BY <1>1, <1>5, <2>1, AgainStep
<1>6. ASSUME dir[p] = None, dir' = [dir EXCEPT ![p] = File(u)], UNCHANGED <<parent, data, time>>,
             opened(s, u)
      PROVE  IInv'
  <2>1. u \in Inodes /\ File(u) \in Names
    BY Distinct DEF Names
  <2>2. /\ dir' \in [Paths -> Names] /\ dir'[p] = File(u)
        /\ \A q \in Paths \ {p} : dir'[q] = dir[q]
    BY <1>0, <1>6, <2>1 DEF Typed
  <2>3. p \notin Pinned
    BY <1>6, Distinct DEF IInv, Named
  <2>4. \A v \in Pushes : File(v) = File(u) => v = u
    BY Distinct
  <2> QED BY <1>1, <1>2, <1>3, <1>6, <2>1, <2>2, <2>3, <2>4, OpenedStep
<1>7. CASE open_failed(s)
  BY <1>1, <1>7, OpenFailedInv
<1> QED BY <1>2, <1>3, <1>4, <1>5, <1>6, <1>7 DEF handle_send_file

\* Without rivals there is nothing to find, unless the path is pinned.
LEMMA ExistingInv ==
  ASSUME IInv, NEW s \in Sessions, open_existing(s)
  PROVE  IInv'
<1>0. Typed /\ ses[s].pc = "exists" /\ ThreadOf(s)
  BY Thread0 DEF open_existing
<1>1. ses[s].pc \in Opening /\ ses[s].pc \in Sending
  BY <1>0 DEF Opening, Sending
<1>2. PICK u \in Pushes : u = ses[s].u
  BY <1>1, ItsPush
<1>3. PICK p \in Paths : p = ses[s].path
  BY <1>1, ItsPush
<1>4. PICK i : i = Resolve(p)
  OBVIOUS
<1>5. ASSUME i # None, UNCHANGED fsVars, opened(s, i) PROVE IInv'
  <2>1. i \in Inodes /\ UNCHANGED <<dir, parent, data, time>>
    BY <1>0, <1>4, <1>5, ResolvedFile DEF Typed, fsVars
  <2>2. PICK q \in Paths : dir[q] = File(i)
    BY <1>0, <1>4, <1>5, ResolvedFile DEF Typed
  <2>3. \A v \in Pushes : i = v => push[v].file = v
    BY <2>2 DEF IInv, Named
  <2>4. ASSUME ~push[u].rival PROVE p \in Pinned /\ dir[p] = File(i)
    <3>1. p \in Pinned
      <4>1. p \notin Pinned => dir[p] = None
        BY <1>0, <1>1, <1>2, <1>3, <2>4 DEF ThreadOf, Cleared
      <4> QED BY <1>0, <1>4, <1>5, <4>1, ResolvedFile DEF Typed
    <3>2. dir[p] = File(p) /\ p \in Inodes
      BY <3>1, Distinct DEF IInv, Named
    <3>3. i = p
      BY <1>0, <1>4, <3>2, ResolvedFile DEF Typed
    <3> QED BY <3>1, <3>2, <3>3
  <2>5. dir' \in [Paths -> Names] /\ \A q1 \in Paths : dir'[q1] = dir[q1]
    BY <1>0, <2>1 DEF Typed
  <2> QED BY <1>1, <1>2, <1>3, <1>5, <2>1, <2>3, <2>4, <2>5, OpenedStep
<1>6. CASE open_failed(s)
  BY <1>1, <1>6, OpenFailedInv
<1> QED BY <1>3, <1>4, <1>5, <1>6 DEF open_existing

\* Writing a chunk at position k + 1.
LEMMA WrittenChunk ==
  ASSUME NEW d \in Seq(Inodes), NEW k \in Nat, NEW u \in Pushes
  PROVE  /\ Written(d, k, u) \in Seq(Inodes)
         /\ Len(d) \in Nat /\ Len(Written(d, k, u)) \in Nat
         /\ Len(Written(d, k, u)) = IF k < Len(d) THEN Len(d) ELSE Len(d) + 1
         /\ \A j \in 1..Len(d) : j # k + 1 => Written(d, k, u)[j] = d[j]
         /\ k <= Len(d) => Written(d, k, u)[k + 1] = u
<1>1. u \in Inodes /\ Len(d) \in Nat
  BY Distinct, LenProperties
<1>2. CASE k < Len(d)
  <2> DEFINE w == [d EXCEPT ![k + 1] = u]
  <2>1. w \in Seq(Inodes) /\ Len(w) = Len(d)
    BY <1>1, <1>2, ExceptSeq
  <2>2. w[k + 1] = u /\ \A j \in 1..Len(d) : j # k + 1 => w[j] = d[j]
    BY <1>1, <1>2, LenProperties
  <2>3. Written(d, k, u) = w
    BY <1>2 DEF Written
  <2> HIDE DEF w
  <2> QED BY <1>1, <1>2, <2>1, <2>2, <2>3
<1>3. CASE ~(k < Len(d))
  <2> DEFINE w == Append(d, u)
  <2>1. /\ w \in Seq(Inodes) /\ Len(w) = Len(d) + 1
        /\ \A j \in 1..Len(d) : w[j] = d[j]
        /\ w[Len(d) + 1] = u
    BY <1>1, AppendProperties, LenProperties
  <2>2. Written(d, k, u) = w
    BY <1>3 DEF Written
  <2> HIDE DEF w
  <2>3. k <= Len(d) => k + 1 = Len(d) + 1
    BY <1>1, <1>3
  <2> QED BY <1>1, <1>3, <2>1, <2>2, <2>3
<1> QED BY <1>2, <1>3

\* A chunk is read, and written if the file is open.
LEMMA SendDataInv ==
  ASSUME IInv, NEW s \in Sessions, send_data(s)
  PROVE  IInv'
<1>0. /\ Typed /\ ses[s] \in Session /\ ThreadOf(s) /\ Local(ses[s])
      /\ ses[s].pc = "data" /\ ses[s].pc \in Sending
  BY Thread0 DEF send_data, Sending
<1>1. PICK u \in Pushes : u = ses[s].u
  BY <1>0, ItsPush
<1>2. /\ push[u] \in Push /\ PushOf(u) /\ push[u].path = ses[s].path /\ u <= pushes
      /\ ses[s].fd = None => push[u].state = "failed"
      /\ ses[s].fd # None => push[u].state = "active" /\ push[u].file = ses[s].fd
  BY <1>0, <1>1, ItsPush DEF Pushing
<1>3. PICK k \in Nat : k = push[u].sent
  BY <1>2, FileSyncAssumption DEF Push
<1>4. PICK i \in Inodes \cup {None} : i = ses[s].fd
  BY <1>0 DEF Session
<1>5. /\ k < MaxChunks /\ push' = [push EXCEPT ![u].sent = k + 1]
      /\ i = None => UNCHANGED <<data, time>>
      /\ i # None => /\ data' = [data EXCEPT ![i] = Written(@, k, u)]
                     /\ time' = [time EXCEPT ![i] = 0]
      /\ UNCHANGED <<ses, dir, parent, pushes, writers>>
  BY <1>1, <1>3, <1>4 DEF send_data
<1>6. k + 1 \in 0..MaxChunks
  BY <1>5, FileSyncAssumption
<1>7. /\ push' \in [Pushes -> Push]
      /\ \A v \in Pushes \ {u} : push'[v] = push[v]
      /\ push'[u].path = push[u].path /\ push'[u].rival = push[u].rival
      /\ push'[u].sent = k + 1 /\ push'[u].file = push[u].file /\ push'[u].state = push[u].state
  BY <1>0, <1>2, <1>5, <1>6 DEF Typed, Push
<1>8. ASSUME i # None
      PROVE  /\ i \in Inodes /\ data[i] \in Seq(Inodes) /\ data'[i] = Written(data[i], k, u)
             /\ data' \in [Inodes -> Seq(Inodes)] /\ time' \in [Inodes -> {0} \cup Pushes]
             /\ \A j \in Inodes \ {i} : data'[j] = data[j] /\ time'[j] = time[j]
             /\ u \in writers[i]
  <2>1. i \in Inodes /\ data[i] \in Seq(Inodes)
    BY <1>0, <1>8 DEF Typed
  <2>2. Written(data[i], k, u) \in Seq(Inodes)
    BY <2>1, WrittenChunk
  <2>3. u \in writers[i]
    BY <1>2, <1>4, <1>8 DEF PushOf, Traces
  <2> QED BY <1>0, <1>5, <1>8, <2>1, <2>2, <2>3 DEF Typed
<1>9. Typed'
  <2>1. data' \in [Inodes -> Seq(Inodes)] /\ time' \in [Inodes -> {0} \cup Pushes]
    BY <1>0, <1>5, <1>8 DEF Typed
  <2> QED BY <1>0, <1>5, <1>7, <2>1 DEF Typed
<1>10. Others(s) /\ Goes(s)
  <2>1. ASSUME NEW x \in Sessions, ses[x].pc = "list"
        PROVE  ses[x].stay = {p \in ses[x].stay : dir[p] # None}
    BY <2>1 DEF IInv, ThreadOf, Listing
  <2> QED BY <1>5, <2>1 DEF Others, Goes
<1>c. ASSUME i # None, writers[i] \subseteq {u}
      PROVE  /\ k <= Len(data[i]) /\ \A j \in 1..k : data[i][j] = u
             /\ i = u => Len(data[i]) = k
  <2>1. writers[i] = {u}
    BY <1>8, <1>c
  <2>2. Chunks(u) /\ push[u].state = "active" /\ push[u].file = i
    BY <1>2, <1>4, <1>c DEF PushOf
  <2>3. Len(data[i]) >= k /\ (\A j \in 1..k : data[i][j] = u) /\ (i = u => Len(data[i]) = k)
    BY <1>3, <1>c, <2>1, <2>2 DEF Chunks
  <2>4. Len(data[i]) \in Nat
    BY <1>8, <1>c, LenProperties
  <2> QED BY <2>3, <2>4
<1>w. i # None => writers'[i] = writers[i]
  BY <1>5
<1>11. ASSUME NEW j \in Inodes PROVE Grown(j)
  <2>1. CASE i # None /\ j = i
    <3> DEFINE d == data[i]
               e == data'[i]
    <3>1. d \in Seq(Inodes) /\ e = Written(d, k, u)
      BY <1>8, <2>1
    <3> HIDE DEF d, e
    <3>2. /\ Len(d) \in Nat /\ Len(e) \in Nat
          /\ Len(e) = IF k < Len(d) THEN Len(d) ELSE Len(d) + 1
          /\ \A n \in 1..Len(d) : n # k + 1 => e[n] = d[n]
      BY <3>1, WrittenChunk
    <3>3. Len(d) <= Len(e)
      BY <3>2
    <3>4. ASSUME writers'[i] \subseteq {i}
          PROVE  writers[i] \subseteq {i} /\ \A n \in 1..Len(d) : e[n] = d[n]
      <4>1. i = u
        BY <1>8, <1>w, <2>1, <3>4
      <4>2. Len(d) = k
        BY <1>c, <1>w, <2>1, <3>4, <4>1 DEF d
      <4>3. \A n \in 1..Len(d) : n # k + 1
        BY <3>2, <4>2
      <4> QED BY <1>w, <2>1, <3>2, <3>4, <4>3
    <3> QED BY <2>1, <3>3, <3>4 DEF Grown, d, e
  <2>2. CASE ~(i # None /\ j = i)
    <3>1. data'[j] = data[j] /\ writers[j] \subseteq writers'[j]
      BY <1>5, <1>8, <2>2
    <3> QED BY <1>0, <3>1, GrownSame
  <2> QED BY <2>1, <2>2
<1>12. Acts(s)
  <2>1. \A v \in Pushes \ {u} : push[v].file # v => u \notin writers'[v]
    BY <1>5, Distinct DEF IInv, PushOf, Traces
  <2>2. \A j \in Inodes : u \notin writers'[j] => data'[j] = data[j] /\ time'[j] = time[j]
    BY <1>5, <1>8
  <2> QED BY <1>0, <1>1, <1>2, <1>5, <1>7, <1>11, <2>1, <2>2 DEF Acts
<1>13. ThreadOf(s)'
  <2>1. Local(ses[s])'
    BY <1>0, <1>5 DEF Local
  <2>2. Pushing(s)'
    BY <1>0, <1>1, <1>2, <1>5, <1>7 DEF Pushing, Opening, Linking
  <2>3. Cleared(s)' /\ Listing(s)' /\ Pulling(s)'
    BY <1>0, <1>5 DEF Cleared, Listing, Pulling, Opening
  <2> QED BY <2>1, <2>2, <2>3 DEF ThreadOf
<1>14. Traces(u)'
  <2>1. push[u].file # u => i # u
    BY <1>2, <1>4, Distinct
  <2>2. u \in Inodes
    BY Distinct
  <2>3. push[u].file # u => data'[u] = data[u]
    BY <1>5, <1>8, <2>1, <2>2
  <2>4. Traces(u)
    BY <1>2 DEF PushOf
  <2> QED BY <1>5, <1>7, <2>3, <2>4 DEF Traces
<1>15. Chunks(u)'
  <2> SUFFICES ASSUME i # None, writers'[i] = {u}
               PROVE  /\ Len(data'[i]) >= k + 1 /\ \A j \in 1..(k + 1) : data'[i][j] = u
                      /\ i = u => Len(data'[i]) = k + 1
    BY <1>2, <1>4, <1>7 DEF Chunks
  <2> DEFINE d == data[i]
             e == data'[i]
  <2>1. d \in Seq(Inodes) /\ e = Written(d, k, u)
    BY <1>8
  <2>2. k <= Len(d) /\ (\A j \in 1..k : d[j] = u) /\ (i = u => Len(d) = k)
    BY <1>c, <1>w
  <2> HIDE DEF d, e
  <2>3. /\ Len(d) \in Nat /\ Len(e) \in Nat
        /\ Len(e) = IF k < Len(d) THEN Len(d) ELSE Len(d) + 1
        /\ \A n \in 1..Len(d) : n # k + 1 => e[n] = d[n]
        /\ e[k + 1] = u
    BY <2>1, <2>2, WrittenChunk
  <2>4. Len(e) >= k + 1 /\ (i = u => Len(e) = k + 1)
    BY <2>2, <2>3
  <2>5. ASSUME NEW j \in 1..(k + 1) PROVE e[j] = u
    <3>1. CASE j = k + 1
      BY <2>3, <3>1
    <3>2. CASE j # k + 1
      <4>1. j \in 1..k /\ j \in 1..Len(d)
        BY <2>2, <2>3, <3>2
      <4> QED BY <2>2, <2>3, <3>2, <4>1
    <3> QED BY <3>1, <3>2
  <2> QED BY <2>4, <2>5 DEF d, e
<1>16. Placed(u)'
  <2>1. Placed(u) /\ push[u].state # "okay"
    BY <1>2 DEF PushOf
  <2> QED BY <1>5, <1>7, <2>1 DEF Placed
<1> QED BY <1>1, <1>9, <1>10, <1>12, <1>13, <1>14, <1>15, <1>16, ActStep

\* The push has failed: what the path named is gone.
LEMMA UnlinkStep ==
  ASSUME IInv, NEW s \in Sessions, ses[s].pc = "data", NEW r \in Session, Set(s, r),
         dir' = Unlinked(ses[s].path), UNCHANGED <<parent, data, time, pushes, writers>>,
         NEW u \in Pushes, u = ses[s].u, push' \in [Pushes -> Push],
         \A v \in Pushes \ {u} : push'[v] = push[v],
         push'[u].path = push[u].path, push'[u].rival = push[u].rival,
         push'[u].file = push[u].file, push'[u].state = "failed",
         ThreadOf(s)', Goes(s)
  PROVE  IInv'
<1>0. Typed /\ ses[s].pc \in Sending
  BY Thread0 DEF Sending
<1>1. PICK p \in Paths : p = ses[s].path
  BY <1>0, ItsPush
<1>2. push[u] \in Push /\ PushOf(u) /\ push[u].path = p /\ u <= pushes
  BY <1>0, <1>1, ItsPush
<1>3. /\ dir' \in [Paths -> Names]
      /\ \A q \in Paths \ {p} : dir'[q] = dir[q]
      /\ p \in Pinned => dir'[p] = dir[p]
      /\ p \notin Pinned => dir'[p] = None
  BY <1>0, <1>1 DEF Typed, Unlinked, Names
<1>4. \A v \in Pushes : File(v) # None
  BY Distinct
<1>5. ses' \in [Sessions -> Session] /\ Others(s)
  BY <1>0, SetFields DEF Typed
<1>6. Typed'
  BY <1>0, <1>3, <1>5 DEF Typed
<1>7. \A j \in Inodes : Grown(j)
  BY <1>0, GrownSame
<1>8. Acts(s)
  <2>1. \A v \in Pushes \ {u} : push[v].file # v => u \notin writers'[v]
    BY Distinct DEF IInv, PushOf, Traces
  <2> QED BY <1>0, <1>1, <1>3, <1>4, <1>7, <2>1 DEF Acts
<1>9. Traces(u)'
  <2>1. ASSUME NEW q \in Paths, dir'[q] = File(u) PROVE FALSE
    <3>1. dir[q] = File(u)
      BY <1>3, <1>4, <2>1
    <3>2. q = p
      BY <1>2, <3>1 DEF IInv, Named
    <3>3. p \in Pinned
      BY <1>3, <1>4, <2>1, <3>2
    <3>4. File(p) = File(u)
      BY <3>1, <3>2, <3>3 DEF IInv, Named
    <3> QED BY <3>4, Distinct
  <2>2. Traces(u)
    BY <1>2 DEF PushOf
  <2>3. ~(u > pushes)
    <3>1. u \in Nat /\ pushes \in 0..MaxPush /\ MaxPush \in Nat
      BY <1>0, Distinct, FileSyncAssumption DEF Typed
    <3> QED BY <1>2, <3>1
  <2> QED BY <2>1, <2>2, <2>3 DEF Traces
<1>10. Chunks(u)' /\ Placed(u)'
  BY DEF Chunks, Placed
<1> QED BY <1>5, <1>6, <1>8, <1>9, <1>10, ActStep

LEMMA AbortedInv ==
  ASSUME IInv, NEW s \in Sessions, send_aborted(s)
  PROVE  IInv'
<1>0. Typed /\ ses[s].pc = "data" /\ ses[s].pc \in Sending
  BY Thread0 DEF send_aborted, Sending
<1>1. PICK u \in Pushes : u = ses[s].u
  BY <1>0, ItsPush
<1>2. /\ dir' = Unlinked(ses[s].path) /\ Set(s, Over)
      /\ push' = [push EXCEPT ![u].state = "failed"]
      /\ UNCHANGED <<parent, data, time, pushes, writers>>
  BY <1>1 DEF send_aborted, PushIs
<1>3. push[u] \in Push
  BY <1>0 DEF Typed
<1>4. /\ push' \in [Pushes -> Push]
      /\ \A v \in Pushes \ {u} : push'[v] = push[v]
      /\ push'[u].path = push[u].path /\ push'[u].rival = push[u].rival
      /\ push'[u].file = push[u].file /\ push'[u].state = "failed"
  BY <1>0, <1>2, <1>3 DEF Typed, Push
<1>5. ses'[s] = Over
  BY <1>0, <1>2, FreshOver, SetFields DEF Typed
<1>6. ThreadOf(s)' /\ Goes(s)
  BY <1>5, FreshOver, IdleThread
<1> QED BY <1>0, <1>1, <1>2, <1>4, <1>6, FreshOver, UnlinkStep

LEMMA WriteFailedInv ==
  ASSUME IInv, NEW s \in Sessions, write_failed(s)
  PROVE  IInv'
<1>0. /\ Typed /\ ses[s] \in Session /\ Local(ses[s]) /\ ses[s].pc = "data" /\ ses[s].fd # None
      /\ ses[s].pc \in Sending
  BY Thread0 DEF write_failed, Sending
<1>1. PICK u \in Pushes : u = ses[s].u
  BY <1>0, ItsPush
<1> DEFINE y == [ses[s] EXCEPT !.fd = None]
           z == Answer(y, "FAIL")
<1>2. /\ dir' = Unlinked(ses[s].path) /\ Set(s, z) /\ push[u].sent < MaxChunks
      /\ push' = [push EXCEPT ![u].sent = @ + 1, ![u].state = "failed"]
      /\ UNCHANGED <<parent, data, time, pushes, writers>>
  BY <1>1 DEF write_failed, removed_on_error, fd_after_error
<1>3. push[u] \in Push /\ push[u].path = ses[s].path /\ u <= pushes
  BY <1>0, <1>1, ItsPush
<1>4. push[u].sent + 1 \in 0..MaxChunks
  <2>1. push[u].sent \in 0..MaxChunks /\ MaxChunks \in Nat
    BY <1>3, FileSyncAssumption DEF Push
  <2> QED BY <1>2, <2>1
<1>5. /\ push' \in [Pushes -> Push]
      /\ \A v \in Pushes \ {u} : push'[v] = push[v]
      /\ push'[u].path = push[u].path /\ push'[u].rival = push[u].rival
      /\ push'[u].file = push[u].file /\ push'[u].state = "failed"
  BY <1>0, <1>2, <1>3, <1>4 DEF Typed, Push
<1>6. y \in Session
  BY <1>0 DEF Session
<1>7. /\ y.pc = "data" /\ y.path = ses[s].path /\ y.u = u /\ y.ans = <<>> /\ y.phase = "data"
      /\ y.fd = None /\ y.path # None /\ u # 0
  <2>1. ses[s].ans = <<>> /\ ses[s].phase = "data" /\ ses[s].u # 0 /\ ses[s].path # None
    BY <1>0 DEF Local
  <2> QED BY <1>0, <1>1, <2>1 DEF Session
<1> HIDE DEF y
<1>8. /\ z \in Session
      /\ y.gone => z = Over
      /\ ~y.gone => /\ z.pc = "data" /\ z.path = y.path /\ z.u = u /\ z.ans = <<"FAIL">>
                    /\ z.phase = "data" /\ z.fd = None
  BY <1>6, <1>7, Answered
<1> HIDE DEF z
<1>9. ses'[s] = z
  BY <1>0, <1>2, <1>8, SetFields DEF Typed
<1>h. /\ ses[s].pc = "data" /\ dir' = Unlinked(ses[s].path) /\ Set(s, z)
      /\ UNCHANGED <<parent, data, time, pushes, writers>>
  BY <1>0, <1>2
<1>10. CASE y.gone
  <2>1. ThreadOf(s)' /\ Goes(s)
    BY <1>8, <1>9, <1>10, FreshOver, IdleThread
  <2> QED BY <1>1, <1>h, <1>5, <1>8, <2>1, UnlinkStep
<1>11. CASE ~y.gone
  <2>1. <<"FAIL">> # <<>>
    OBVIOUS
  <2>2. Local(ses[s])'
    BY <1>7, <1>8, <1>9, <1>11, <2>1 DEF Local, Opening, Linking
  <2>3. Pushing(s)'
    BY <1>2, <1>3, <1>5, <1>7, <1>8, <1>9, <1>11 DEF Pushing, Opening, Linking
  <2>4. Cleared(s)' /\ Listing(s)' /\ Pulling(s)' /\ Goes(s)
    BY <1>1, <1>7, <1>8, <1>9, <1>11 DEF Cleared, Listing, Pulling, Goes, Opening
  <2>5. ThreadOf(s)'
    BY <2>2, <2>3, <2>4 DEF ThreadOf
  <2> QED BY <1>1, <1>h, <1>5, <1>8, <2>4, <2>5, UnlinkStep
<1> QED BY <1>10, <1>11

\* DONE, with the file open.
LEMMA SendDoneInv ==
  ASSUME IInv, NEW s \in Sessions, send_done(s)
  PROVE  IInv'
<1> DEFINE r == [ses[s] EXCEPT !.phase = "idle"]
<1>0. /\ Typed /\ ses[s] \in Session /\ Local(ses[s]) /\ ses[s].pc = "data" /\ ses[s].pc \in Sending
      /\ UNCHANGED <<dir, parent, data, pushes, writers>>
  BY Thread0 DEF send_done, Sending
<1>1. PICK u \in Pushes : u = ses[s].u
  BY <1>0, ItsPush
<1>2. r \in Session
  BY <1>0 DEF Session
<1>3. r.pc = "data" /\ r.phase = "idle" /\ r.ans = ses[s].ans /\ r.gone = ses[s].gone
  BY <1>0 DEF Session
<1>4. CASE ses[s].fd = None
  <2>1. Set(s, Return(r)) /\ UNCHANGED <<fsVars, histVars>>
    BY <1>4 DEF send_done, fsVars, histVars
  <2>2. r.ans # <<>>
    BY <1>0, <1>3, <1>4 DEF Local
  <2> HIDE DEF r
  <2> DEFINE z == Return(r)
  <2>3. z \in Session /\ Local(z) /\ z.pc \in {"request", "done"} /\ Set(s, z)
    BY <1>2, <1>3, <2>1, <2>2, Returning
  <2> HIDE DEF z
  <2> QED BY <2>1, <2>3, IdleStep
<1>5. CASE ses[s].fd # None
  <2>1. PICK i : i = Resolve(ses[s].path)
    OBVIOUS
  <2>2. PICK st \in {"left", "okay"} : PushIs(u, st)
    BY <1>1, <1>5 DEF send_done
  <2>3. /\ time' = IF i = None THEN time ELSE [time EXCEPT ![i] = u]
        /\ Set(s, Return(Answer(r, "OK")))
        /\ push' = [push EXCEPT ![u].state = st]
    BY <1>1, <1>5, <2>1, <2>2 DEF send_done, PushIs
  <2>4. PICK p \in Paths : p = ses[s].path
    BY <1>0, ItsPush
  <2>5. /\ push[u] \in Push /\ PushOf(u) /\ push[u].path = p /\ u <= pushes
        /\ push[u].state = "active" /\ push[u].file # None /\ p # None
    BY <1>0, <1>1, <1>5, <2>4, ItsPush, Distinct DEF Pushing
  <2>6. PICK f \in Inodes : f = push[u].file
    BY <2>5 DEF Push
  <2>7. i \in Inodes \cup {None} /\ (~push[u].rival => i = f /\ dir[p] = File(f))
    <3>1. ~push[u].rival => dir[p] = File(f)
      BY <2>5, <2>6 DEF PushOf, Placed
    <3> QED BY <1>0, <2>1, <2>4, <3>1, ResolvedFile DEF Typed
  <2>8. u \in writers[f]
    BY <2>5, <2>6 DEF PushOf, Traces
  <2>9. r.ans = <<>>
    BY <1>0, <1>3, <1>5 DEF Local
  <2> HIDE DEF r
  <2> DEFINE z == Return(Answer(r, "OK"))
  <2>10. z \in Session /\ Local(z) /\ z.pc \in {"request", "done"} /\ Set(s, z)
    BY <1>2, <1>3, <2>3, <2>9, Returned
  <2> HIDE DEF z
  <2>11. ses' \in [Sessions -> Session] /\ ses'[s] = z /\ Others(s)
    BY <1>0, <2>10, SetFields DEF Typed
  <2>12. ThreadOf(s)' /\ Goes(s)
    BY <2>10, <2>11, IdleThread
  <2>13. /\ push' \in [Pushes -> Push]
         /\ \A v \in Pushes \ {u} : push'[v] = push[v]
         /\ push'[u].path = p /\ push'[u].rival = push[u].rival /\ push'[u].sent = push[u].sent
         /\ push'[u].file = f /\ push'[u].state = st
    BY <1>0, <2>3, <2>5, <2>6 DEF Typed, Push
  <2>14. /\ time' \in [Inodes -> {0} \cup Pushes]
         /\ \A j \in Inodes : j # i => time'[j] = time[j]
         /\ i # None => time'[i] = u
    BY <1>0, <2>3, <2>7 DEF Typed
  <2>n. None \notin Inodes
    BY Distinct
  <2>15. Typed'
    BY <1>0, <2>11, <2>13, <2>14 DEF Typed
  <2>16. \A j \in Inodes : Grown(j)
    BY <1>0, GrownSame
  <2>17. Acts(s)
    <3>1. \A v \in Pushes \ {u} : push[v].file # v => u \notin writers'[v]
      BY <1>0, Distinct DEF IInv, PushOf, Traces
    <3>2. \A j \in Inodes : \/ time'[j] = time[j] \/ u \in writers'[j]
                            \/ time'[j] = u /\ push[u].rival
      BY <1>0, <2>7, <2>8, <2>14, <2>n
    <3> QED BY <1>0, <1>1, <2>4, <2>5, <2>6, <2>13, <2>16, <3>1, <3>2 DEF Acts
  <2>18. Traces(u)'
    <3>1. Traces(u) /\ f # None
      BY <2>5, <2>6 DEF PushOf
    <3>2. ~(u > pushes)
      <4>1. u \in Nat /\ pushes \in 0..MaxPush /\ MaxPush \in Nat
        BY <1>0, Distinct, FileSyncAssumption DEF Typed
      <4> QED BY <2>5, <4>1
    <3> QED BY <1>0, <2>5, <2>6, <2>13, <3>1, <3>2 DEF Traces
  <2>19. Chunks(u)'
    BY <1>0, <2>5, <2>6, <2>13 DEF PushOf, Chunks
  <2>20. Placed(u)'
    <3>1. Placed(u)
      BY <2>5 DEF PushOf
    <3>2. ~push[u].rival => time'[f] = u
      BY <2>7, <2>14, <2>n
    <3> QED BY <1>0, <2>5, <2>6, <2>13, <3>1, <3>2 DEF Placed, TimeSent
  <2> QED BY <1>1, <2>11, <2>12, <2>15, <2>17, <2>18, <2>19, <2>20, ActStep
<1> QED BY <1>4, <1>5

\* The link is made; or it is tried again, or cannot be made.
LEMMA SendLinkInv ==
  ASSUME IInv, NEW s \in Sessions, handle_send_link(s)
  PROVE  IInv'
<1>0. /\ Typed /\ ses[s] \in Session /\ Local(ses[s]) /\ ses[s].pc \in {"symlink", "symlink2"}
      /\ UNCHANGED <<parent, data, time, pushes, writers>>
  BY Thread0 DEF handle_send_link
<1>1. ses[s].pc \in Linking /\ ses[s].pc \in Sending
  BY <1>0 DEF Linking, Sending
<1>2. PICK u \in Pushes : u = ses[s].u
  BY <1>1, ItsPush
<1>3. PICK p \in Paths : p = ses[s].path
  BY <1>1, ItsPush
<1>4. ASSUME UNCHANGED <<dir, push>>, Set(s, [ses[s] EXCEPT !.pc = "linkmkdirs"])
      PROVE  IInv'
  <2>1. "linkmkdirs" \in States /\ "linkmkdirs" \in Linking
    BY DEF States, Linking
  <2>2. UNCHANGED <<fsVars, histVars>>
    BY <1>0, <1>4 DEF fsVars, histVars
  <2> QED BY <1>0, <1>1, <1>4, <2>1, <2>2, AgainStep
<1>5. ASSUME dir[p] = None, dir' = [dir EXCEPT ![p] = Link(ses[s].to)],
             Set(s, [ses[s] EXCEPT !.pc = "linkdone"]), UNCHANGED push
      PROVE  IInv'
  <2> DEFINE r == [ses[s] EXCEPT !.pc = "linkdone"]
  <2>1. "linkdone" \in States
    BY DEF States
  <2>2. r \in Session
    BY <1>0, <2>1 DEF Session
  <2>3. /\ r.pc = "linkdone" /\ r.path = p /\ r.u = u /\ r.ans = <<>> /\ r.phase = "data"
        /\ r.fd = None /\ u # 0 /\ p # None
    <3>1. ses[s].ans = <<>> /\ ses[s].phase = "data" /\ ses[s].fd = None
      BY <1>0, <1>1 DEF Local
    <3> QED BY <1>0, <1>2, <1>3, <3>1, Distinct DEF Session
  <2>4. Set(s, r)
    BY <1>5
  <2> HIDE DEF r
  <2>5. ses' \in [Sessions -> Session] /\ ses'[s] = r /\ Others(s)
    BY <1>0, <2>2, <2>4, SetFields DEF Typed
  <2>6. ses[s].to \in Paths
    BY <1>0 DEF Local, Session
  <2>7. Link(ses[s].to) \in Names /\ \A v \in Pushes : Link(ses[s].to) # File(v)
    BY <2>6, Distinct DEF Names
  <2>8. /\ dir' \in [Paths -> Names] /\ dir'[p] = Link(ses[s].to)
        /\ \A q \in Paths \ {p} : dir'[q] = dir[q]
    BY <1>0, <1>5, <2>7 DEF Typed
  <2>9. p \notin Pinned
    BY <1>5, Distinct DEF IInv, Named
  <2>10. Typed'
    BY <1>0, <1>5, <2>5, <2>8 DEF Typed
  <2>11. /\ push[u] \in Push /\ PushOf(u) /\ push[u].path = p /\ u <= pushes
         /\ push[u].state = "active" /\ push[u].file = None /\ push[u].sent = 0
    BY <1>1, <1>2, <1>3, ItsPush DEF Pushing
  <2>12. \A j \in Inodes : Grown(j)
    BY <1>0, GrownSame
  <2>13. Acts(s)
    <3>1. \A v \in Pushes \ {u} : push[v].file # v => u \notin writers'[v]
      BY <1>0, Distinct DEF IInv, PushOf, Traces
    <3> QED BY <1>0, <1>1, <1>2, <1>3, <1>5, <2>7, <2>8, <2>9, <2>11, <2>12, <3>1 DEF Acts
  <2>14. ThreadOf(s)' /\ Goes(s)
    <3>1. Local(ses[s])'
      BY <2>3, <2>5 DEF Local
    <3>2. Pushing(s)'
      BY <1>0, <1>5, <2>3, <2>5, <2>11 DEF Pushing
    <3>3. Cleared(s)' /\ Listing(s)' /\ Pulling(s)' /\ Goes(s)
      BY <1>2, <1>3, <2>3, <2>5 DEF Cleared, Listing, Pulling, Goes, Opening
    <3> QED BY <3>1, <3>2, <3>3 DEF ThreadOf
  <2>15. Traces(u)'
    <3>1. Traces(u)
      BY <2>11 DEF PushOf
    <3> QED BY <1>0, <1>5, <2>11, <3>1 DEF Traces
  <2>16. Chunks(u)' /\ Placed(u)'
    BY <1>5, <2>11 DEF Chunks, Placed
  <2> QED BY <1>2, <2>5, <2>10, <2>13, <2>14, <2>15, <2>16, ActStep
<1>6. ASSUME UNCHANGED dir, Set(s, Over), PushIs(ses[s].u, "failed")
      PROVE  IInv'
  <2>1. ses'[s] = Over
    BY <1>0, <1>6, FreshOver, SetFields DEF Typed
  <2>2. ThreadOf(s)' /\ Goes(s)
    BY <2>1, FreshOver, IdleThread
  <2>3. UNCHANGED <<fsVars, pushes, writers>>
    BY <1>0, <1>6 DEF fsVars
  <2> QED BY <1>1, <1>6, <2>2, <2>3, FreshOver, EndStep
<1> QED BY <1>3, <1>4, <1>5, <1>6 DEF handle_send_link

-----------------------------------------------------------------------------
(* A new push, and the theorems.                                           *)

\* A thread that has a push is sending.
LEMMA Sender ==
  ASSUME IInv, NEW x \in Sessions, ses[x].u # 0
  PROVE  ses[x].pc \in Sending /\ ses[x].u \in Pushes /\ ses[x].u <= pushes
<1>1. ses[x] \in Session /\ Local(ses[x])
  BY Thread0
<1>2. ses[x].pc \in States
  BY <1>1 DEF Session
<1>3. ses[x].pc \in Sending
  BY <1>1, <1>2 DEF Local, States, Sending, Opening, Linking
<1> QED BY <1>3, ItsPush

\* The pushes to the path have a rival from now on, and so has the new one if
\* there are any.
LEMMA DoSendInv ==
  ASSUME IInv, NEW s \in Sessions, do_send(s)
  PROVE  IInv'
<1>0. /\ Typed /\ ses[s] \in Session /\ ThreadOf(s) /\ ses[s].pc = "request"
      /\ ses[s].u = 0 /\ ses[s].phase = "idle" /\ pushes < MaxPush /\ pushes' = pushes + 1
      /\ UNCHANGED <<parent, data, time, writers>>
  BY Thread0 DEF do_send, Requested
<1>n. pushes \in Nat /\ MaxPush \in Nat
  <2>1. pushes \in 0..MaxPush /\ MaxPush \in Nat
    BY <1>0, FileSyncAssumption DEF Typed
  <2> QED BY <2>1
<1>1. PICK n \in Pushes : n = pushes + 1
  BY <1>0, <1>n DEF Pushes
<1>2. PICK p \in Paths :
        \E l \in {"open", "linkdata"} :
          /\ dir' = Unlinked(p)
          /\ push' = [u \in Pushes |->
               IF u = pushes'
               THEN [path |-> p, sent |-> 0, file |-> None, state |-> "active",
                     rival |-> \E x \in Sessions : ses[x].u # 0 /\ ses[x].path = p]
               ELSE [push[u] EXCEPT !.rival = @ \/ push[u].path = p]]
          /\ Set(s, [ses[s] EXCEPT !.ans = <<>>, !.phase = "data", !.path = p,
                                   !.u = pushes', !.pc = l])
  BY DEF do_send, removed_first
<1>3. PICK l \in {"open", "linkdata"} :
          /\ dir' = Unlinked(p)
          /\ push' = [u \in Pushes |->
               IF u = n
               THEN [path |-> p, sent |-> 0, file |-> None, state |-> "active",
                     rival |-> \E x \in Sessions : ses[x].u # 0 /\ ses[x].path = p]
               ELSE [push[u] EXCEPT !.rival = @ \/ push[u].path = p]]
          /\ Set(s, [ses[s] EXCEPT !.ans = <<>>, !.phase = "data", !.path = p,
                                   !.u = n, !.pc = l])
  BY <1>0, <1>1, <1>2
<1> DEFINE r == [ses[s] EXCEPT !.ans = <<>>, !.phase = "data", !.path = p, !.u = n, !.pc = l]
           taken == \E x \in Sessions : ses[x].u # 0 /\ ses[x].path = p
<1>d. /\ n \in Inodes /\ n # None /\ n # 0 /\ p # None
      /\ \A v \in Pushes : v \in Nat /\ v \in Inodes /\ v # None /\ File(v) # None
  BY Distinct
<1>4. l \in States /\ <<>> \in Answers
  BY DEF States, Answers
<1>5. r \in Session
  BY <1>0, <1>4 DEF Session
<1>6. /\ r.pc = l /\ r.path = p /\ r.u = n /\ r.ans = <<>> /\ r.phase = "data"
  BY <1>0 DEF Session
<1>f. r.fd = ses[s].fd
  BY <1>0 DEF Session
<1>7. Set(s, r)
  BY <1>3
<1> HIDE DEF r
<1>8. ses' \in [Sessions -> Session] /\ ses'[s] = r /\ Others(s)
  BY <1>0, <1>5, <1>7, SetFields DEF Typed
<1>9. /\ dir' \in [Paths -> Names]
      /\ \A q \in Paths \ {p} : dir'[q] = dir[q]
      /\ p \in Pinned => dir'[p] = dir[p]
      /\ p \notin Pinned => dir'[p] = None
  BY <1>0, <1>3 DEF Typed, Unlinked, Names
<1>10. /\ push'[n].path = p /\ push'[n].sent = 0 /\ push'[n].file = None
       /\ push'[n].state = "active" /\ push'[n].rival = taken
       /\ push'[n] \in Push
  <2> DEFINE w == [path |-> p, sent |-> 0, file |-> None, state |-> "active", rival |-> taken]
  <2>1. push'[n] = w
    BY <1>3
  <2>2. 0 \in 0..MaxChunks /\ taken \in BOOLEAN
    BY FileSyncAssumption
  <2> HIDE DEF taken
  <2>3. w \in Push
    BY <2>2 DEF Push
  <2> QED BY <2>1, <2>3
<1>11. ASSUME NEW v \in Pushes, v # n
       PROVE  /\ push'[v].path = push[v].path /\ push'[v].sent = push[v].sent
              /\ push'[v].file = push[v].file /\ push'[v].state = push[v].state
              /\ push'[v].rival <=> (push[v].rival \/ push[v].path = p)
              /\ push'[v] \in Push
  <2>1. push[v] \in Push /\ push'[v] = [push[v] EXCEPT !.rival = @ \/ push[v].path = p]
    BY <1>0, <1>3, <1>11 DEF Typed
  <2> QED BY <2>1 DEF Push
<1>12. Typed'
  <2>1. \A v \in Pushes : push'[v] \in Push
    BY <1>10, <1>11
  <2>2. push' = [v \in Pushes |-> push'[v]]
    BY <1>3
  <2>3. push' \in [Pushes -> Push]
    BY <2>1, <2>2
  <2>4. pushes' \in 0..MaxPush
    BY <1>0, <1>n
  <2> QED BY <1>0, <1>8, <1>9, <2>3, <2>4 DEF Typed
<1>13. \A v \in Pushes : File(v) # None
  BY <1>d
<1>14. ASSUME NEW x \in Sessions, ses[x].u # 0
       PROVE  x # s /\ ses[x].pc \in Sending /\ ses[x].u \in Pushes /\ ses[x].u # n
  <2>1. ses[x].pc \in Sending /\ ses[x].u \in Pushes /\ ses[x].u <= pushes
    BY <1>14, Sender
  <2>2. ses[x].u # n
    BY <1>1, <1>n, <1>d, <2>1
  <2> QED BY <1>0, <1>14, <2>1, <2>2
<1>15. ASSUME NEW x \in Sessions, x # s PROVE ThreadOf(x)'
  <2>1. ses[x].pc \in Sending => ses[x].u \in Pushes /\ ses[x].u # n /\ ses[x].path \in Paths
    <3>1. ASSUME ses[x].pc \in Sending PROVE ses[x].u # 0 /\ ses[x].path \in Paths
      BY <3>1, ItsPush, Distinct
    <3> QED BY <1>14, <3>1
  <2>2. ses[x].pc \in Sending =>
          /\ push'[ses[x].u].path = push[ses[x].u].path /\ push'[ses[x].u].state = push[ses[x].u].state
          /\ push'[ses[x].u].file = push[ses[x].u].file /\ push'[ses[x].u].sent = push[ses[x].u].sent
          /\ push[ses[x].u].rival => push'[ses[x].u].rival
    BY <1>11, <2>1
  <2>3. ses[x].pc \in Opening => dir'[ses[x].path] \in {dir[ses[x].path], None}
    <3>1. ses[x].pc \in Opening => ses[x].pc \in Sending
      BY DEF Sending
    <3> QED BY <1>9, <2>1, <3>1
  <2>4. ses[x].pc = "recv" => Grown(ses[x].fd)
    <3>1. ses[x].pc = "recv" => ses[x].fd \in Inodes
      <4>1. ses[x] \in Session /\ Local(ses[x])
        BY Thread0
      <4> QED BY <4>1 DEF Session, Local
    <3> QED BY <1>0, <3>1, GrownSame
  <2>5. pushes <= pushes' /\ ThreadOf(x)
    BY <1>0, <1>n DEF IInv
  <2> QED BY <1>0, <1>8, <1>12, <1>15, <2>2, <2>3, <2>4, <2>5, OtherKept
<1>16. ThreadOf(s)'
  <2>1. Local(ses[s])'
    <3>1. l \in Sending /\ (l \in Opening \cup Linking) /\ l \notin {"data", "recv", "request", "done", "list"}
      BY DEF Sending, Opening, Linking
    <3>2. r.fd = None
      BY <1>0, <1>f DEF ThreadOf, Local
    <3> QED BY <1>d, <1>6, <1>8, <3>1, <3>2 DEF Local
  <2>2. Pushing(s)'
    <3>1. n <= pushes' /\ l \notin {"data"}
      BY <1>0, <1>1, <1>n
    <3> QED BY <1>6, <1>8, <1>10, <3>1 DEF Pushing
  <2>3. Cleared(s)'
    BY <1>6, <1>8, <1>9 DEF Cleared
  <2>4. Listing(s)' /\ Pulling(s)'
    BY <1>6, <1>8 DEF Listing, Pulling
  <2> QED BY <2>1, <2>2, <2>3, <2>4 DEF ThreadOf
<1>17. OnePush'
  <2>1. OnePush
    BY DEF IInv
  <2>2. \A x \in Sessions \ {s} : ses'[x].u = ses[x].u
    BY <1>8 DEF Others
  <2> QED BY <1>6, <1>8, <1>14, <2>1, <2>2 DEF OnePush
<1>18. ASSUME NEW v \in Pushes, v > pushes \/ push[v].file = v
       PROVE  v > pushes => push[v].file = None /\ push[v].path = None /\ ~push[v].rival
  BY DEF IInv, PushOf, Traces
<1>19. Named'
  <2>1. Named
    BY DEF IInv
  <2>2. ASSUME NEW q \in Pinned PROVE dir'[q] = File(q)
    <3>1. q \in Paths /\ dir[q] = File(q)
      BY <2>1, Distinct DEF Named
    <3> QED BY <1>9, <3>1
  <2>3. ASSUME NEW q \in Paths, NEW v \in Pushes, dir'[q] = File(v)
        PROVE  push'[v].path = q /\ push'[v].file = v
    <3>1. dir[q] = File(v)
      BY <1>9, <1>13, <2>3
    <3>2. push[v].path = q /\ push[v].file = v
      BY <2>1, <3>1 DEF Named
    <3>3. v # n
      <4>1. n > pushes
        BY <1>1, <1>n
      <4> QED BY <1>18, <1>d, <3>2, <4>1
    <3> QED BY <1>11, <3>2, <3>3
  <2> QED BY <2>2, <2>3 DEF Named
<1>20. ASSUME NEW v \in Pushes PROVE Alone(v)'
  <2>1. CASE v = n
    <3>1. ASSUME ~taken, NEW x \in Sessions, ses'[x].u # 0, ses'[x].path = p PROVE ses'[x].u = n
      <4>1. x # s => ses'[x].u = ses[x].u /\ ses'[x].path = ses[x].path
        BY <1>8 DEF Others
      <4> QED BY <1>6, <1>8, <3>1, <4>1
    <3> HIDE DEF taken
    <3> QED BY <1>10, <2>1, <3>1 DEF Alone
  <2>2. CASE v # n
    <3>1. Alone(v)
      BY DEF IInv, PushOf
    <3>2. ASSUME ~push'[v].rival, NEW x \in Sessions, ses'[x].u # 0, ses'[x].path = push'[v].path
          PROVE  ses'[x].u = v
      <4>1. x # s => ses'[x].u = ses[x].u /\ ses'[x].path = ses[x].path
        BY <1>8 DEF Others
      <4>2. ~push[v].rival /\ push[v].path # p /\ push'[v].path = push[v].path
        BY <1>11, <2>2, <3>2
      <4>3. x # s
        BY <1>6, <1>8, <3>2, <4>2
      <4> QED BY <3>1, <3>2, <4>1, <4>2, <4>3 DEF Alone
    <3> QED BY <3>2 DEF Alone
  <2> QED BY <2>1, <2>2
<1>21. PushOf(n)'
  <2>1. n > pushes /\ ~(n > pushes')
    BY <1>0, <1>1, <1>n
  <2>2. writers[n] = {} /\ data[n] = <<>>
    BY <1>d, <2>1 DEF IInv, PushOf, Traces
  <2>3. Traces(n)'
    BY <1>0, <1>10, <1>d, <2>1, <2>2 DEF Traces
  <2>4. Chunks(n)' /\ Placed(n)'
    BY <1>10 DEF Chunks, Placed
  <2> QED BY <1>20, <2>3, <2>4 DEF PushOf
<1>22. ASSUME NEW v \in Pushes, v # n PROVE PushOf(v)'
  <2>0. PushOf(v)
    BY DEF IInv
  <2>1. Traces(v)'
    <3>1. Traces(v)
      BY <2>0 DEF PushOf
    <3>2. (v > pushes' => v > pushes) /\ (v <= pushes' => v <= pushes)
      BY <1>0, <1>1, <1>n, <1>d, <1>22
    <3>3. ASSUME NEW q \in Paths, dir'[q] = File(v) PROVE dir[q] = File(v)
      BY <1>9, <1>13, <3>3
    <3>4. push[v].path = None => push[v].path # p
      BY <1>d
    <3> QED BY <1>0, <1>11, <1>22, <3>1, <3>2, <3>3, <3>4 DEF Traces
  <2>2. Chunks(v)'
    BY <1>0, <1>11, <1>22, <2>0 DEF PushOf, Chunks
  <2>3. Placed(v)'
    <3>1. Placed(v)
      BY <2>0 DEF PushOf
    <3>2. ASSUME ~push'[v].rival PROVE ~push[v].rival /\ push[v].path # p
      BY <1>11, <1>22, <3>2
    <3>3. ASSUME push[v].state \in {"active", "okay"}, ~push'[v].rival, push[v].file # None
          PROVE  dir'[push[v].path] = File(push[v].file)
      <4>1. dir[push[v].path] = File(push[v].file)
        BY <3>1, <3>2, <3>3 DEF Placed
      <4>2. push[v].path \in Paths
        <5>1. push[v] \in Push /\ push[v].path # None
          <6>1. v <= pushes
            <7>1. ~(v > pushes)
              BY <2>0, <3>3 DEF PushOf, Traces
            <7> QED BY <1>d, <1>n, <7>1
          <6> QED BY <1>0, <2>0, <6>1 DEF PushOf, Traces, Typed
        <5> QED BY <5>1 DEF Push
      <4> QED BY <1>9, <3>2, <3>3, <4>1, <4>2
    <3>4. ASSUME ~push'[v].rival, TimeSent(v, push[v].file)
          PROVE  TimeSent(v, push[v].file)'
      <4> DEFINE w == time[push[v].file]
      <4>1. CASE w = v
        BY <1>0, <1>11, <1>22, <4>1 DEF TimeSent
      <4>2. CASE w \in Pushes /\ push[w].rival /\ push[w].path # push[v].path
        <5>1. w # n
          <6>1. n > pushes
            BY <1>1, <1>n
          <6> QED BY <1>18, <4>2, <6>1
        <5>2. push'[w].rival /\ push'[w].path = push[w].path
          BY <1>11, <4>2, <5>1
        <5>3. push'[v].path = push[v].path /\ push'[v].file = push[v].file
          BY <1>11, <1>22
        <5>4. time' = time
          BY <1>0
        <5> QED BY <4>2, <5>2, <5>3, <5>4 DEF TimeSent
      <4> QED BY <3>4, <4>1, <4>2 DEF TimeSent
    <3>5. /\ push'[v].file = push[v].file /\ push'[v].state = push[v].state
          /\ push'[v].path = push[v].path /\ writers' = writers /\ time' = time
      BY <1>0, <1>11, <1>22
    <3> QED BY <3>1, <3>2, <3>3, <3>4, <3>5 DEF Placed, TimeSent
  <2> QED BY <1>20, <2>1, <2>2, <2>3 DEF PushOf
<1>23. TypeOK'
  BY <1>12, TypedParts
<1> QED BY <1>15, <1>16, <1>17, <1>19, <1>21, <1>22, <1>23 DEF IInv

LEMMA InitInv == Init => IInv
<1> SUFFICES ASSUME Init PROVE IInv
  OBVIOUS
<1>1. PICK there \in SUBSET Paths :
        /\ Pinned \subseteq there
        /\ dir = [p \in Paths |-> IF p \in there THEN File(p) ELSE None]
        /\ parent \in {P \in SUBSET Paths : there \subseteq P}
  BY DEF Init
<1>2. /\ ses = [s \in Sessions |-> Over]
      /\ data = [i \in Inodes |-> IF i \in Paths THEN [k \in 1..MaxChunks |-> i] ELSE <<>>]
      /\ time = [i \in Inodes |-> 0]
      /\ push = [u \in Pushes |-> [path |-> None, sent |-> 0, file |-> None, state |-> "none",
                                   rival |-> FALSE]]
      /\ pushes = 0 /\ writers = [i \in Inodes |-> {}]
  BY DEF Init
<1>d. /\ Pushes \subseteq Nat \ {0} /\ Paths \subseteq Inodes
      /\ \A u \in Pushes : u \in Inodes /\ u \notin Paths /\ u # None
  BY Distinct
<1>3. Typed
  <2>1. ses \in [Sessions -> Session]
    BY <1>2, FreshOver
  <2>2. \A p \in Paths : File(p) \in Names
    BY Distinct DEF Names
  <2>3. dir \in [Paths -> Names]
    BY <1>1, <2>2 DEF Names
  <2>4. data \in [Inodes -> Seq(Inodes)]
    <3>1. ASSUME NEW i \in Inodes PROVE [k \in 1..MaxChunks |-> i] \in Seq(Inodes)
      BY FileSyncAssumption, IsASeq
    <3>2. <<>> \in Seq(Inodes)
      OBVIOUS
    <3> QED BY <1>2, <3>1, <3>2
  <2>5. push \in [Pushes -> Push]
    <3>1. 0 \in 0..MaxChunks
      BY FileSyncAssumption
    <3> QED BY <1>2, <3>1 DEF Push
  <2>6. pushes \in 0..MaxPush
    BY <1>2, FileSyncAssumption
  <2> QED BY <1>1, <1>2, <2>1, <2>3, <2>4, <2>5, <2>6 DEF Typed
<1>4. ASSUME NEW s \in Sessions PROVE ThreadOf(s) /\ ses[s].u = 0
  <2>1. ses[s] = Over /\ Over.pc = "done" /\ Local(Over)
    BY <1>2, FreshOver
  <2>2. Local(ses[s]) /\ ses[s].pc = "done"
    BY <2>1
  <2>3. ses[s].pc \notin Sending /\ ses[s].pc \notin Opening
    BY <2>2 DEF Sending, Opening, Linking
  <2> QED BY <2>2, <2>3 DEF ThreadOf, Local, Pushing, Cleared, Listing, Pulling
<1>5. OnePush
  BY <1>4 DEF OnePush
<1>6. ASSUME NEW p \in Paths, NEW u \in Pushes PROVE dir[p] # File(u)
  BY <1>1, Distinct
<1>7. Named
  BY <1>1, <1>6, Distinct DEF Named
<1>8. ASSUME NEW u \in Pushes PROVE PushOf(u)
  <2>1. /\ push[u].path = None /\ push[u].file = None /\ push[u].state = "none" /\ ~push[u].rival
        /\ writers[u] = {} /\ data[u] = <<>> /\ ~(u <= pushes)
    BY <1>2, <1>d
  <2> QED BY <1>4, <2>1 DEF PushOf, Alone, Traces, Chunks, Placed
<1> QED BY <1>3, <1>4, <1>5, <1>7, <1>8, TypedParts DEF IInv

LEMMA NextInv ==
  ASSUME IInv, [Next]_vars
  PROVE  IInv'
<1>1. CASE UNCHANGED vars
  <2>1. UNCHANGED <<ses, dir, parent, data, time, push, pushes, writers>>
    BY <1>1 DEF vars, fsVars, histVars
  <2>2. Typed'
    BY <2>1, TypedParts DEF IInv, Typed
  <2>3. \A s \in Sessions : ThreadOf(s)'
    BY <2>1 DEF IInv, ThreadOf, Local, Pushing, Cleared, Listing, Pulling, Sole
  <2>4. OnePush' /\ Named'
    BY <2>1 DEF IInv, OnePush, Named
  <2>5. \A u \in Pushes : PushOf(u)'
    BY <2>1 DEF IInv, PushOf, Alone, Traces, Chunks, Placed, TimeSent
  <2> QED BY <2>2, <2>3, <2>4, <2>5, TypedParts DEF IInv
<1>2. CASE Next
  <2>1. PICK s \in Sessions : file_sync_service(s) \/ stream_closed(s) \/ Thread(s)
    BY <1>2 DEF Next
  <2>2. CASE file_sync_service(s) \/ end_session(s)
    BY <2>2, ServiceInv
  <2>3. CASE stream_closed(s)
    BY <2>3, ClosedInv
  <2>4. CASE do_stat(s)
    BY <2>4, StatInv
  <2>5. CASE do_list(s)
    BY <2>5, ListInv
  <2>6. CASE list_entry(s)
    BY <2>6, EntryInv
  <2>7. CASE list_done(s) \/ recv_done(s) \/ recv_failed(s)
    BY <2>7, AnsweredInv
  <2>8. CASE do_send(s)
    BY <2>8, DoSendInv
  <2>9. CASE handle_send_file(s)
    BY <2>9, SendFileInv
  <2>10. CASE open_existing(s)
    BY <2>10, ExistingInv
  <2>11. CASE mkdirs(s)
    BY <2>11, MkdirsInv
  <2>12. CASE send_data(s)
    BY <2>12, SendDataInv
  <2>13. CASE write_failed(s)
    BY <2>13, WriteFailedInv
  <2>14. CASE send_aborted(s)
    BY <2>14, AbortedInv
  <2>15. CASE send_done(s)
    BY <2>15, SendDoneInv
  <2>16. CASE link_data(s)
    BY <2>16, LinkDataInv
  <2>17. CASE link_aborted(s) \/ link_done(s)
    BY <2>17, LinkEndInv
  <2>18. CASE handle_send_link(s)
    BY <2>18, SendLinkInv
  <2>19. CASE do_recv(s)
    BY <2>19, RecvInv
  <2>20. CASE recv_data(s)
    BY <2>20, RecvDataInv
  <2> QED BY <2>1, <2>2, <2>3, <2>4, <2>5, <2>6, <2>7, <2>8, <2>9, <2>10, <2>11, <2>12, <2>13,
             <2>14, <2>15, <2>16, <2>17, <2>18, <2>19, <2>20 DEF Thread
<1> QED BY <1>1, <1>2

\* The invariant holds of the sync service, whatever its streams do to each
\* other's files.
THEOREM Invariance == Spec => []IInv
<1>1. Init => IInv
  BY InitInv
<1>2. IInv /\ [Next]_vars => IInv'
  BY NextInv
<1> QED BY <1>1, <1>2, PTL DEF Spec

\* The state of the service and its files is of the right type.
THEOREM TypeCorrect == Spec => []TypeOK
<1>1. IInv => TypeOK
  BY DEF IInv
<1> QED BY <1>1, Invariance, PTL

\* The thread reads a request only where the host sends one, after one answer
\* to the request before: file_sync_service and the handlers it calls.
THEOREM StaysInStep == Spec => []InStep
<1>1. IInv => InStep
  <2> SUFFICES ASSUME IInv, NEW s \in Sessions, ses[s].pc = "request"
               PROVE  ses[s].phase = "idle" /\ Len(ses[s].ans) = 1
    BY DEF InStep
  <2>1. ses[s] \in Session /\ Local(ses[s])
    BY Thread0
  <2>2. ses[s].ans \in {<<>>, <<"OK">>, <<"FAIL">>} /\ ses[s].ans # <<>> /\ ses[s].phase = "idle"
    BY <2>1 DEF Session, Local, Answers
  <2> QED BY <2>2
<1> QED BY <1>1, Invariance, PTL

\* A push that was answered FAIL, or broken off, has left no file of its own
\* under any name: handle_send_file unlinks on every way out.
THEOREM NothingPartial == Spec => []NoPartialFile
<1>1. IInv => NoPartialFile
  BY DEF IInv, PushOf, Traces, NoPartialFile
<1> QED BY <1>1, Invariance, PTL

\* OKAY means that the file is whole, under its path and with its time, as far
\* as no other push has touched it.
THEOREM OkayWhole == Spec => []OkayIsWhole
<1>1. IInv => OkayIsWhole
  <2> SUFFICES ASSUME IInv, NEW u \in Pushes, push[u].state = "okay", ~push[u].rival,
                      writers[push[u].file] = {u}
               PROVE  LET q == push[u]  i == q.file
                      IN  /\ Resolve(q.path) = i /\ TimeSent(u, i)
                          /\ Len(data[i]) >= q.sent /\ \A k \in 1..q.sent : data[i][k] = u
                          /\ q.path \notin Pinned => i = u /\ Len(data[i]) = q.sent
    BY DEF OkayIsWhole
  <2>0. Typed /\ PushOf(u)
    BY TypedParts DEF IInv
  <2>1. push[u].file # None
    BY <2>0 DEF PushOf, Traces
  <2>2. push[u].path \in Paths /\ push[u].file \in Inodes
    <3>1. push[u] \in Push
      BY <2>0 DEF Typed
    <3>2. ~(u > pushes)
      BY <2>0 DEF PushOf, Traces
    <3>3. u \in Nat /\ pushes \in 0..MaxPush /\ MaxPush \in Nat
      BY <2>0, Distinct, FileSyncAssumption DEF Typed
    <3>4. u <= pushes
      BY <3>2, <3>3
    <3>5. push[u].path # None
      BY <2>0, <3>4 DEF PushOf, Traces
    <3> QED BY <2>1, <3>1, <3>5 DEF Push
  <2>3. /\ dir[push[u].path] = File(push[u].file)
        /\ push[u].path \notin Pinned => push[u].file = u
        /\ TimeSent(u, push[u].file)
    BY <2>0, <2>1 DEF PushOf, Placed
  <2>4. Resolve(push[u].path) = push[u].file
    BY <2>0, <2>2, <2>3, ResolvedFile DEF Typed
  <2>5. Chunks(u)
    BY <2>0 DEF PushOf
  <2> QED BY <2>1, <2>3, <2>4, <2>5 DEF Chunks
<1> QED BY <1>1, Invariance, PTL

\* Every step is of one thread.
LEMMA OneMoves ==
  ASSUME NEW x \in Sessions, file_sync_service(x) \/ stream_closed(x) \/ Thread(x)
  PROVE  (\E r : Set(x, r)) \/ ses' = ses
<1>1. CASE file_sync_service(x) \/ stream_closed(x) \/ end_session(x) \/ do_stat(x)
  BY <1>1 DEF file_sync_service, stream_closed, end_session, do_stat
<1>2. CASE do_list(x) \/ list_entry(x) \/ list_done(x)
  BY <1>2 DEF do_list, list_entry, list_done
<1>3. CASE do_send(x)
  BY <1>3 DEF do_send
<1>4. CASE handle_send_file(x) \/ open_existing(x)
  BY <1>4 DEF handle_send_file, open_existing, opened, open_failed
<1>5. CASE mkdirs(x) \/ send_data(x) \/ write_failed(x) \/ send_aborted(x)
  BY <1>5 DEF mkdirs, send_data, write_failed, send_aborted
<1>6. CASE send_done(x)
  BY <1>6 DEF send_done
<1>7. CASE link_data(x) \/ link_aborted(x) \/ handle_send_link(x) \/ link_done(x)
  BY <1>7 DEF link_data, link_aborted, handle_send_link, link_done
<1>8. CASE do_recv(x) \/ recv_data(x) \/ recv_done(x) \/ recv_failed(x)
  BY <1>8 DEF do_recv, recv_data, recv_done, recv_failed
<1> QED BY <1>1, <1>2, <1>3, <1>4, <1>5, <1>6, <1>7, <1>8 DEF Thread

\* A request of a kind ends in OK only with the handler's last step.
LEMMA EndsBy ==
  ASSUME IInv, Next, NEW s \in Sessions, NEW l \in {"recv", "list"}, Ends(s, l)
  PROVE  (l = "recv" /\ recv_done(s)) \/ (l = "list" /\ list_done(s))
<1>0. /\ Typed /\ ses[s] \in Session /\ ses[s].pc = l /\ ses[s].ans = <<>> /\ ses[s].phase = "idle"
      /\ ses'[s].pc = "request" /\ ses'[s].ans = <<"OK">>
  BY Thread0 DEF Ends
<1>1. PICK x \in Sessions : file_sync_service(x) \/ stream_closed(x) \/ Thread(x)
  BY DEF Next
<1>2. x = s
  <2> SUFFICES ASSUME x # s PROVE FALSE
    OBVIOUS
  <2>1. CASE ses' = ses
    BY <1>0, <2>1
  <2>2. CASE \E r : Set(x, r)
    <3>1. ses'[s] = [ses[s] EXCEPT !.stay = {p \in ses[s].stay : dir'[p] # None}]
      BY <2>2 DEF Set
    <3>2. ses'[s].pc = ses[s].pc
      BY <1>0, <3>1 DEF Session
    <3> QED BY <1>0, <3>2
  <2> QED BY <1>1, <2>1, <2>2, OneMoves
<1>o. Over.pc = "done"
  BY FreshOver
<1>s. ASSUME NEW r, Set(s, r) PROVE ses'[s] = r
  BY <1>s DEF Set
<1>3. CASE stream_closed(s)
  <2>1. ses'[s] = [ses[s] EXCEPT !.gone = TRUE]
    BY <1>3, <1>s DEF stream_closed
  <2>2. ses'[s].pc = ses[s].pc
    BY <1>0, <2>1 DEF Session
  <2> QED BY <1>0, <2>2
<1>4. CASE list_entry(s)
  <2>1. PICK p : Set(s, IF ses[s].gone /\ dir[p] # None THEN Over
                         ELSE [ses[s] EXCEPT !.todo = left_to_list(@, p),
                                             !.sent = IF dir[p] # None THEN @ \cup {p} ELSE @])
    BY <1>4 DEF list_entry
  <2>2. ses'[s].pc \in {"done", ses[s].pc}
    <3>1. ses'[s] = IF ses[s].gone /\ dir[p] # None THEN Over
                    ELSE [ses[s] EXCEPT !.todo = left_to_list(@, p),
                                        !.sent = IF dir[p] # None THEN @ \cup {p} ELSE @]
      BY <1>s, <2>1
    <3> QED BY <1>0, <1>o, <3>1 DEF Session
  <2> QED BY <1>0, <2>2
<1>5. CASE recv_data(s)
  <2>1. ses'[s] = IF ses[s].gone THEN Over
                  ELSE [ses[s] EXCEPT !.got = Append(@, data[ses[s].fd][Len(@) + 1])]
    BY <1>5, <1>s DEF recv_data
  <2>2. ses'[s].pc \in {"done", ses[s].pc}
    BY <1>0, <1>o, <2>1 DEF Session
  <2> QED BY <1>0, <2>2
<1>6. CASE recv_failed(s)
  <2> DEFINE r == ses[s]
             z == Return(Answer(r, "FAIL"))
  <2>1. ses'[s] = z
    BY <1>6, <1>s DEF recv_failed, read_error_answer
  <2>2. r \in Session /\ r.ans = <<>> /\ r.phase = "idle" /\ r.pc # "done"
    BY <1>0
  <2> HIDE DEF r
  <2>3. z.pc = "request" => z.ans = <<"FAIL">>
    BY <2>2, Returned
  <2>4. <<"FAIL">> # <<"OK">>
    OBVIOUS
  <2> QED BY <1>0, <2>1, <2>3, <2>4
<1>7. CASE list_done(s) \/ recv_done(s)
  <2>1. (list_done(s) => ses[s].pc = "list") /\ (recv_done(s) => ses[s].pc = "recv")
    BY DEF list_done, recv_done
  <2> QED BY <1>0, <1>7, <2>1
<1>8. \/ stream_closed(s) \/ list_entry(s) \/ list_done(s) \/ recv_data(s)
      \/ recv_done(s) \/ recv_failed(s)
  <2>1. ses[s].pc \in {"recv", "list"}
    BY <1>0
  <2>2. ~file_sync_service(s) /\ ~end_session(s) /\ ~do_stat(s) /\ ~do_list(s)
    BY <2>1 DEF file_sync_service, end_session, do_stat, do_list, Requested
  <2>3. ~do_send(s) /\ ~handle_send_file(s) /\ ~open_existing(s) /\ ~mkdirs(s) /\ ~send_data(s)
    BY <2>1 DEF do_send, Requested, handle_send_file, open_existing, mkdirs, send_data
  <2>4. ~write_failed(s) /\ ~send_aborted(s) /\ ~send_done(s) /\ ~link_data(s)
    BY <2>1 DEF write_failed, send_aborted, send_done, link_data
  <2>5. ~link_aborted(s) /\ ~handle_send_link(s) /\ ~link_done(s) /\ ~do_recv(s)
    BY <2>1 DEF link_aborted, handle_send_link, link_done, do_recv, Requested
  <2> QED BY <1>1, <1>2, <2>2, <2>3, <2>4, <2>5 DEF Thread
<1> QED BY <1>3, <1>4, <1>5, <1>6, <1>7, <1>8

\* A pull answered with DONE has sent what the file holds, if one push at most
\* has written to it: do_recv.
THEOREM PullsWhole == Spec => PullIsWhole
<1> DEFINE Whole(s) ==
      Ends(s, "recv") /\ Cardinality(writers[ses[s].fd]) <= (IF ses[s].fd \in Pushes THEN 1 ELSE 0)
        => ses[s].got = data[ses[s].fd]
<1>1. ASSUME IInv, Next, NEW s \in Sessions, Ends(s, "recv"),
             Cardinality(writers[ses[s].fd]) <= (IF ses[s].fd \in Pushes THEN 1 ELSE 0)
      PROVE  ses[s].got = data[ses[s].fd]
  <2> DEFINE i == ses[s].fd
             g == ses[s].got
             d == data[i]
  <2>0. Typed /\ ses[s] \in Session /\ ThreadOf(s) /\ Local(ses[s]) /\ ses[s].pc = "recv"
    BY <1>1, Thread0 DEF Ends
  <2>1. i \in Inodes /\ g \in Seq(Inodes)
    BY <2>0 DEF Local, Session
  <2>2. d \in Seq(Inodes) /\ writers[i] \subseteq Pushes
    BY <2>0, <2>1 DEF Typed
  <2>3. Sole(i)
    <3>1. IsFiniteSet(writers[i])
      <4>1. IsFiniteSet(Pushes)
        BY FileSyncAssumption, FS_Interval DEF Pushes
      <4> QED BY <2>2, <4>1, FS_Subset
    <3>2. Cardinality(writers[i]) \in Nat
      BY <3>1, FS_CardinalityType
    <3>3. CASE i \notin Pushes
      <4>1. Cardinality(writers[i]) = 0
        BY <1>1, <3>2, <3>3
      <4> QED BY <3>1, <4>1, FS_EmptySet DEF Sole
    <3>4. CASE i \in Pushes
      <4>1. Cardinality(writers[i]) <= 1
        BY <1>1, <3>4
      <4>2. \A a, b \in writers[i] : a = b
        <5> SUFFICES ASSUME NEW a \in writers[i], NEW b \in writers[i], a # b PROVE FALSE
          OBVIOUS
        <5>1. Cardinality(writers[i]) = 1 \/ Cardinality(writers[i]) = 0
          BY <3>2, <4>1
        <5> QED BY <3>1, <5>1, FS_EmptySet, FS_Singleton
      <4>3. writers[i] # {} => i \in writers[i]
        <5>1. push[i].file # i => writers[i] = {}
          BY <1>1, <3>4 DEF IInv, PushOf, Traces
        <5>2. push[i].file = i => i \in writers[i]
          BY <1>1, <3>4, Distinct, ZenonT(60) DEF IInv, PushOf, Traces
        <5> QED BY <5>1, <5>2
      <4> QED BY <4>2, <4>3 DEF Sole
    <3> QED BY <3>3, <3>4
  <2>4. Len(g) = Len(d)
    <3>1. recv_done(s)
      BY <1>1, EndsBy
    <3> QED BY <3>1 DEF recv_done
  <2>5. \A k \in 1..Len(g) : g[k] = d[k]
    BY <2>0, <2>3 DEF ThreadOf, Pulling
  <2> HIDE DEF g, d
  <2>6. g = d
    BY <2>1, <2>2, <2>4, <2>5, SeqEqual
  <2> QED BY <2>6 DEF g, d
<1>2. IInv /\ [Next]_vars => [\A s \in Sessions : Whole(s)]_vars
  BY <1>1
<1> QED BY <1>2, Invariance, PTL DEF Spec, PullIsWhole

\* A listing that ends has sent every name that stayed: do_list goes on when
\* lstat finds nothing.
THEOREM ListsComplete == Spec => ListIsComplete
<1>1. ASSUME IInv, Next, NEW s \in Sessions, Ends(s, "list")
      PROVE  ses[s].stay \subseteq ses[s].sent
  <2>1. list_done(s)
    BY <1>1, EndsBy
  <2>2. ses[s].pc = "list" /\ ses[s].todo = {}
    BY <2>1 DEF list_done
  <2>3. ses[s].stay \subseteq ses[s].sent \cup ses[s].todo
    BY <1>1, <2>2, Thread0 DEF ThreadOf, Listing
  <2> QED BY <2>2, <2>3
<1>2. IInv /\ [Next]_vars => [\A s \in Sessions : Ends(s, "list") => ses[s].stay \subseteq ses[s].sent]_vars
  BY <1>1
<1> QED BY <1>2, Invariance, PTL DEF Spec, ListIsComplete
=============================================================================
