--------------------------- MODULE SocketsProofs ---------------------------
(***************************************************************************)
(* Proofs about Sockets.                                                   *)
(***************************************************************************)
EXTENDS Sockets, Integers, TLAPS, FiniteSetTheorems, SequenceTheorems, WellFoundedInduction

-----------------------------------------------------------------------------
(* Least elements.                                                         *)

\* A set of natural numbers that is not empty has a least element.  Proofs by
\* induction take the least number for which a claim fails.
LEMMA LeastElement ==
  ASSUME NEW T, T \subseteq Nat, T # {}
  PROVE  \E x \in T : \A y \in T : x <= y
<1> DEFINE F == {1..n : n \in T}
           Less == StrictSubsetOrdering(Nat)
<1>1. IsWellFoundedOn(Less, FiniteSubsetsOf(Nat))
  BY FS_StrictSubsetOrderingWellFounded
<1>2. F \subseteq FiniteSubsetsOf(Nat)
  <2>1. ASSUME NEW n \in T PROVE 1..n \in FiniteSubsetsOf(Nat)
    <3>1. IsFiniteSet(1..n)
      BY FS_Interval
    <3> QED BY <3>1 DEF FiniteSubsetsOf
  <2> QED BY <2>1
<1>3. F # {}
  OBVIOUS
<1> HIDE DEF Less, F
<1>4. PICK X \in F : \A Y \in F : ~(<<Y, X>> \in Less)
  BY <1>1, <1>2, <1>3, WFMin
<1>5. PICK x \in T : X = 1..x
  BY <1>4 DEF F
<1>6. ASSUME NEW y \in T, y < x PROVE FALSE
  <2>1. 1..y \in F /\ 1..y \subseteq 1..x /\ 1..y # 1..x /\ 1..x \subseteq Nat
    BY <1>6 DEF F
  <2> QED BY <2>1, <1>4, <1>5 DEF Less, StrictSubsetOrdering
<1> QED BY <1>6

-----------------------------------------------------------------------------
(* Queues.                                                                 *)

\* Appending to a queue: one more element, the others where they were.
LEMMA Appended ==
  ASSUME NEW S, NEW q \in Seq(S), NEW e \in S
  PROVE  /\ Append(q, e) \in Seq(S)
         /\ Append(q, e) # <<>>
         /\ Len(Append(q, e)) = Len(q) + 1
         /\ DOMAIN Append(q, e) = 1..(Len(q) + 1)
         /\ \A i \in 1..Len(q) : Append(q, e)[i] = q[i]
         /\ Append(q, e)[Len(q) + 1] = e
BY AppendProperties, LenProperties

\* Taking the head of a queue: the others move up by one.
LEMMA Taken ==
  ASSUME NEW S, NEW q \in Seq(S), q # <<>>
  PROVE  /\ Head(q) = q[1] /\ Head(q) \in S
         /\ Tail(q) \in Seq(S)
         /\ Len(q) \in Nat \ {0}
         /\ Len(Tail(q)) = Len(q) - 1
         /\ DOMAIN Tail(q) = 1..(Len(q) - 1)
         /\ \A i \in 1..(Len(q) - 1) : Tail(q)[i] = q[i + 1]
BY HeadTailProperties, EmptySeq, LenProperties

\* The shape of a queue.
LEMMA Shape ==
  ASSUME NEW S, NEW q \in Seq(S)
  PROVE  /\ Len(q) \in Nat
         /\ DOMAIN q = 1..Len(q)
         /\ \A i \in 1..Len(q) : q[i] \in S
         /\ q = <<>> <=> Len(q) = 0
BY LenProperties, EmptySeq, ElementOfSeq

-----------------------------------------------------------------------------
(* The inductive invariant.                                                *)

\* The stage of a socket, the events it wants and the pending ones.
Watched(s, b) ==
  /\ s.st = "open" <=> s.peer # None
  /\ s.queue # <<>> => s.st \in {"open", "closing"}
  /\ s.queue # <<>> <=> W \in s.mask
  /\ s.st \in {"none", "waiting", "gone"} => s.mask = {} /\ b = {}
  /\ s.st = "closing" => s.queue # <<>> /\ R \notin s.mask
  /\ W \in b => W \in s.mask
  /\ s.st \in {"smart", "open"} /\ R \in b => R \in s.mask

\* What a client has heard.
Heard(s, p) ==
  /\ s.st \in {"none", "smart", "waiting"} => p.told = <<>> /\ p.inb = <<>>
  /\ s.st = "none" => ~p.client
  /\ s.st \in {"smart", "waiting"} => p.client
  /\ p.client /\ s.st \in {"open", "closing"} => p.told = <<"OKAY">>
  /\ Len(p.told) <= 1
  /\ p.client /\ p.inb # <<>> => p.told = <<"OKAY">>

\* Who sends what.
FromDevice(q) ==
  \A k \in DOMAIN q :
    /\ q[k].cmd \in {"OKAY", "WRTE", "OPEN"} => q[k].arg0 \in Ids
    /\ q[k].cmd \in {"OKAY", "WRTE", "CLSE"} => q[k].arg1 \in Hids
    /\ q[k].cmd \in {"OPEN", "CNXN"} => q[k].arg1 = 0
    /\ q[k].cmd # "SYNC0"
FromHost(q) ==
  \A k \in DOMAIN q :
    /\ q[k].cmd \in {"OPEN", "OKAY", "WRTE"} => q[k].arg0 \in Hids
    /\ q[k].cmd \in {"OKAY", "WRTE", "CLSE"} => q[k].arg1 \in Ids

\* The connection: the host speaks only to an adbd that is online, and nothing
\* follows the SYNC(0) of a lost link.
Greets(q) == \E k \in DOMAIN q : q[k].cmd = "CNXN"
Ordered(q, on, lost) ==
  \A k \in DOMAIN q :
    /\ q[k].cmd \notin {"CNXN", "SYNC0"} => on
    /\ q[k].cmd = "SYNC0" => k = Len(q) /\ lost
Connected ==
  /\ session = "on" => online
  /\ \A h \in Hids : host[h].st \in {"opening", "open"} => session = "on"
  /\ Greets(d2h) => online \/ session = "lost"
  /\ Ordered(h2d, online, session = "lost")

\* The stream of local socket i and host id h, in the hands of adbd, of the
\* network or of the host.
Linked(sk, i, h) == sk[i].st = "open" /\ sk[i].peer = h
Sends(dq, i, h) ==
  \E k \in DOMAIN dq : dq[k].cmd \in {"OKAY", "WRTE"} /\ dq[k].arg0 = i /\ dq[k].arg1 = h
Tie(sk, dq, ho, i, h) == Linked(sk, i, h) \/ Sends(dq, i, h) \/ ho[h].id = i
AskedAt(q, k, x) == q[k].cmd = "OPEN" /\ q[k].arg0 = x
Asks(q, x) == \E k \in DOMAIN q : AskedAt(q, k, x)
AsksOnce(q, x) == \A k, m \in DOMAIN q : AskedAt(q, k, x) /\ AskedAt(q, m, x) => k = m
Closes(dq, h) == \E k \in DOMAIN dq : dq[k].cmd = "CLSE" /\ dq[k].arg1 = h

\* A local socket has one host stream and a host stream one local socket.
Matched(sk, dq, ho) ==
  \A i, j \in Ids, h, g \in Hids :
    Tie(sk, dq, ho, i, h) /\ Tie(sk, dq, ho, j, g) => (i = j <=> h = g)

\* A host id: unused, asked for and not yet answered, linked or closed.
HostSide(sk, dq, hq, ho, h) ==
  /\ ho[h].st = "none" => /\ ho[h] = Silent /\ ~Asks(hq, h) /\ ~Closes(dq, h)
                          /\ \A i \in Ids : ~Tie(sk, dq, ho, i, h)
  /\ ho[h].st = "open" => ho[h].id # 0
  /\ Asks(hq, h) => ~ho[h].ready /\ ~ho[h].owes /\ \A i \in Ids : ~Tie(sk, dq, ho, i, h)
  /\ AsksOnce(hq, h)
  /\ Closes(dq, h) => ~Asks(hq, h) /\ \A i \in Ids : ~Linked(sk, i, h)
  /\ \A i \in Ids : ho[h].id = i /\ sk[i].st = "waiting" => ~Closes(dq, h) /\ ~ho[h].owes

\* A socket id: unused, a client's before its OPEN, waiting for the answer, or
\* linked.
DeviceSide(sk, dq, ho, nx, i) ==
  /\ i >= nx <=> sk[i].st = "none"
  /\ Asks(dq, i) \/ sk[i].st \in {"none", "smart"} => \A h \in Hids : ~Tie(sk, dq, ho, i, h)
  /\ sk[i].st \in {"none", "smart"} => ~Asks(dq, i)
  /\ AsksOnce(dq, i)
  /\ sk[i].st = "waiting" => \A h \in Hids : ~Sends(dq, i, h)

\* What the host has sent.
Replies(sk, hq, ho) ==
  \A k \in DOMAIN hq :
    /\ hq[k].cmd \in {"OKAY", "WRTE"} => ho[hq[k].arg0].id = hq[k].arg1
    /\ hq[k].cmd = "WRTE" /\ sk[hq[k].arg1].st = "waiting" =>
         \E m \in 1..(k - 1) : hq[m].cmd = "OKAY" /\ hq[m].arg0 = hq[k].arg0 /\ hq[m].arg1 = hq[k].arg1

\* Nothing follows a stream's CLSE.
Silence(dq) ==
  \A k \in DOMAIN dq : dq[k].cmd = "CLSE" =>
    \A m \in DOMAIN dq : m > k => dq[m].arg1 # dq[k].arg1

\* One credit in each direction of a stream that is up, also of one that the
\* host has accepted and adbd does not know of yet.
Up(sk, ho, i, h) ==
  /\ Linked(sk, i, h) \/ (sk[i].st = "waiting" /\ ho[h].id = i)
  /\ ho[h].st \in {"opening", "open"}
Credits(sk, dq, hq, ho, i, h) ==
  Up(sk, ho, i, h) =>
    /\ Bool(R \in sk[i].mask) + Count(dq, "WRTE", i, h) + Bool(ho[h].owes)
         + Count(hq, "OKAY", h, i) = 1
    /\ Bool(ho[h].ready) + Count(hq, "WRTE", h, i) + Len(sk[i].queue)
         + Count(dq, "OKAY", i, h) = 1

Wire(sk, dq, hq, ho, nx) ==
  /\ Matched(sk, dq, ho)
  /\ \A h \in Hids : HostSide(sk, dq, hq, ho, h)
  /\ \A i \in Ids : DeviceSide(sk, dq, ho, nx, i)
  /\ Replies(sk, hq, ho)
  /\ Silence(dq)
  /\ \A i \in Ids, h \in Hids : Credits(sk, dq, hq, ho, i, h)

Local == \A i \in Ids : Watched(sock[i], batch[i]) /\ Heard(sock[i], prog[i])

WireType(sk, dq, hq, ho, nx) ==
  /\ sk \in [Ids -> LocalSockets]
  /\ dq \in Seq(Packets) /\ hq \in Seq(Packets)
  /\ ho \in [Hids -> HostStreams]
  /\ nx \in Nat
  /\ FromDevice(dq) /\ FromHost(hq)
WireInv(sk, dq, hq, ho, nx) == WireType(sk, dq, hq, ho, nx) /\ Wire(sk, dq, hq, ho, nx)

\* All of a state but the wire.
Whys == {"none", "eof", "error", "request", "host", "session"}
Others ==
  /\ prog \in [Ids -> Programs]
  /\ nextid \in 1..(MaxId + 1)
  /\ online \in BOOLEAN
  /\ batch \in [Ids \cup {Trans} -> SUBSET {R, W}]
  /\ session \in {"off", "wait", "on", "lost"}
  /\ cnxns \in 0..MaxCnxn
  /\ cause \in [Ids -> Whys]

IInv ==
  /\ Others
  /\ Local
  /\ Connected
  /\ WireInv(sock, d2h, h2d, host, nextid)

-----------------------------------------------------------------------------
(* Packets under way.                                                      *)

Fits(p, cmd, a, b) == p.cmd = cmd /\ p.arg0 = a /\ p.arg1 = b

\* A packet is sent.
LEMMA CountSent ==
  ASSUME NEW q \in Seq(Packets), NEW p \in Packets, NEW c, NEW a, NEW b
  PROVE  /\ Count(q, c, a, b) \in Nat
         /\ Count(Append(q, p), c, a, b) = Count(q, c, a, b) + Bool(Fits(p, c, a, b))
<1> DEFINE n == Len(q)
           S == {k \in DOMAIN q : Fits(q[k], c, a, b)}
           T == {k \in DOMAIN Append(q, p) : Fits(Append(q, p)[k], c, a, b)}
<1>1. Count(q, c, a, b) = Cardinality(S) /\ Count(Append(q, p), c, a, b) = Cardinality(T)
  BY DEF Count, Fits
<1>2. n \in Nat /\ DOMAIN q = 1..n
  BY Shape
<1>3. /\ DOMAIN Append(q, p) = 1..(n + 1)
      /\ \A k \in 1..n : Append(q, p)[k] = q[k]
      /\ Append(q, p)[n + 1] = p
  BY Appended
<1>4. IsFiniteSet(S) /\ n + 1 \notin S
  <2>1. IsFiniteSet(1..n)
    BY <1>2, FS_Interval
  <2>2. S \subseteq 1..n
    BY <1>2
  <2> QED BY <2>1, <2>2, <1>2, FS_Subset
<1>5. T = IF Fits(p, c, a, b) THEN S \cup {n + 1} ELSE S
  <2>1. ASSUME NEW k \in 1..(n + 1) PROVE k \in T <=> (k \in S \/ (k = n + 1 /\ Fits(p, c, a, b)))
    <3>1. CASE k = n + 1
      BY <3>1, <1>2, <1>3
    <3>2. CASE k \in 1..n
      BY <3>2, <1>2, <1>3
    <3> QED BY <3>1, <3>2, <1>2
  <2>2. T \subseteq 1..(n + 1) /\ S \subseteq 1..(n + 1)
    BY <1>2, <1>3
  <2> HIDE DEF S, T
  <2>3. n + 1 \in 1..(n + 1)
    BY <1>2
  <2> QED BY <2>1, <2>2, <2>3
<1>6. Cardinality(S) \in Nat /\ Cardinality(S \cup {n + 1}) = Cardinality(S) + 1
  BY <1>4, FS_CardinalityType, FS_AddElement
<1> HIDE DEF S, T
<1>7. Cardinality(T) = Cardinality(S) + Bool(Fits(p, c, a, b))
  BY <1>5, <1>6 DEF Bool
<1> QED BY <1>1, <1>6, <1>7

\* A packet is taken.
LEMMA CountTaken ==
  ASSUME NEW q \in Seq(Packets), q # <<>>, NEW c, NEW a, NEW b
  PROVE  /\ Count(q, c, a, b) \in Nat /\ Count(Tail(q), c, a, b) \in Nat
         /\ Count(q, c, a, b) = Count(Tail(q), c, a, b) + Bool(Fits(Head(q), c, a, b))
<1> DEFINE n == Len(q)
           t == Tail(q)
           S == {k \in DOMAIN q : Fits(q[k], c, a, b)}
           U == S \ {1}
           T == {k \in DOMAIN t : Fits(t[k], c, a, b)}
           f == [k \in T |-> k + 1]
<1>1. Count(q, c, a, b) = Cardinality(S) /\ Count(t, c, a, b) = Cardinality(T)
  BY DEF Count, Fits
<1>2. n \in Nat /\ n > 0 /\ DOMAIN q = 1..n
  BY Shape
<1>3. /\ DOMAIN t = 1..(n - 1)
      /\ \A k \in 1..(n - 1) : t[k] = q[k + 1]
      /\ Head(q) = q[1]
  BY Taken
<1>4. IsFiniteSet(S) /\ IsFiniteSet(U) /\ IsFiniteSet(T)
  <2>1. IsFiniteSet(1..n)
    BY <1>2, FS_Interval
  <2>2. S \subseteq 1..n /\ U \subseteq 1..n /\ T \subseteq 1..n
    BY <1>2, <1>3
  <2> HIDE DEF S, U, T
  <2> QED BY <2>1, <2>2, FS_Subset
<1>5. f \in Bijection(T, U)
  <2>1. ASSUME NEW k \in T PROVE k + 1 \in U
    BY <1>2, <1>3
  <2>2. ASSUME NEW k \in U PROVE k - 1 \in T /\ (k - 1) + 1 = k
    <3>1. k \in 1..n /\ k # 1 /\ Fits(q[k], c, a, b)
      BY <1>2
    <3>2. k - 1 \in 1..(n - 1) /\ (k - 1) + 1 = k
      BY <3>1, <1>2
    <3>3. t[k - 1] = q[k]
      BY <3>2, <1>3
    <3> QED BY <3>1, <3>2, <3>3, <1>3
  <2>3. T \subseteq Nat
    BY <1>3, <1>2
  <2> HIDE DEF T, U
  <2>4. f \in [T -> U]
    BY <2>1
  <2>5. \A x, y \in T : f[x] = f[y] => x = y
    BY <2>3
  <2>6. \A y \in U : \E x \in T : f[x] = y
    BY <2>2
  <2> QED BY <2>4, <2>5, <2>6 DEF Bijection, Injection, Surjection, IsInjective
<1> HIDE DEF f
<1>6. Cardinality(U) = Cardinality(T)
  <2> HIDE DEF T, U
  <2>1. ExistsBijection(T, U)
    BY <1>5 DEF ExistsBijection
  <2> QED BY <2>1, <1>4, FS_Bijection
<1>7. Cardinality(S) \in Nat /\ Cardinality(T) \in Nat
  BY <1>4, FS_CardinalityType
<1>8. 1 \in S <=> Fits(Head(q), c, a, b)
  BY <1>2, <1>3
<1>9. 1 \in S => Cardinality(U) = Cardinality(S) - 1
  BY <1>4, FS_RemoveElement
<1>10. 1 \notin S => U = S
  OBVIOUS
<1> HIDE DEF S, T, U
<1>11. Cardinality(S) = Cardinality(T) + Bool(Fits(Head(q), c, a, b))
  <2>1. CASE Fits(Head(q), c, a, b)
    BY <2>1, <1>6, <1>7, <1>8, <1>9 DEF Bool
  <2>2. CASE ~Fits(Head(q), c, a, b)
    BY <2>2, <1>6, <1>7, <1>8, <1>10 DEF Bool
  <2> QED BY <2>1, <2>2
<1> QED BY <1>1, <1>7, <1>11

\* A count is positive exactly when there is such a packet.
LEMMA CountSome ==
  ASSUME NEW q \in Seq(Packets), NEW c, NEW a, NEW b
  PROVE  /\ Count(q, c, a, b) \in Nat
         /\ Count(q, c, a, b) # 0 <=> \E k \in DOMAIN q : Fits(q[k], c, a, b)
<1> DEFINE S == {k \in DOMAIN q : Fits(q[k], c, a, b)}
<1>1. Count(q, c, a, b) = Cardinality(S)
  BY DEF Count, Fits
<1>2. IsFiniteSet(S)
  <2>1. IsFiniteSet(DOMAIN q)
    BY Shape, FS_Interval
  <2> QED BY <2>1, FS_Subset
<1>3. Cardinality(S) \in Nat /\ (Cardinality(S) = 0 <=> S = {})
  BY <1>2, FS_CardinalityType, FS_EmptySet
<1>4. S # {} <=> \E k \in DOMAIN q : Fits(q[k], c, a, b)
  OBVIOUS
<1> QED BY <1>1, <1>3, <1>4

Ends == Ids \cup Hids \cup {0}

\* What a packet that is sent adds.
LEMMA ViewSent ==
  ASSUME NEW q \in Seq(Packets), NEW p \in Packets
  PROVE  /\ Append(q, p) \in Seq(Packets)
         /\ \A i, h \in Ends :
              Sends(Append(q, p), i, h) <=>
                Sends(q, i, h) \/ (p.cmd \in {"OKAY", "WRTE"} /\ p.arg0 = i /\ p.arg1 = h)
         /\ \A x \in Ends : Asks(Append(q, p), x) <=> Asks(q, x) \/ (p.cmd = "OPEN" /\ p.arg0 = x)
         /\ \A x \in Ends :
              AsksOnce(q, x) /\ ~(Asks(q, x) /\ p.cmd = "OPEN" /\ p.arg0 = x)
                => AsksOnce(Append(q, p), x)
         /\ \A h \in Ends : Closes(Append(q, p), h) <=> Closes(q, h) \/ (p.cmd = "CLSE" /\ p.arg1 = h)
         /\ Silence(q) /\ ~Closes(q, p.arg1) => Silence(Append(q, p))
<1> DEFINE n == Len(q)
           a == Append(q, p)
<1>1. n \in Nat /\ DOMAIN q = 1..n
  BY Shape
<1>2. /\ a \in Seq(Packets)
      /\ DOMAIN a = 1..(n + 1)
      /\ \A k \in 1..n : a[k] = q[k]
      /\ a[n + 1] = p
  BY Appended
<1>3. n + 1 \in 1..(n + 1) /\ \A k \in 1..(n + 1) : k \in 1..n \/ k = n + 1
  BY <1>1
<1>4. 1..n \subseteq 1..(n + 1)
  BY <1>1
<1> HIDE DEF n, a
<1>5. \A i, h \in Ends :
        Sends(a, i, h) <=>
          Sends(q, i, h) \/ (p.cmd \in {"OKAY", "WRTE"} /\ p.arg0 = i /\ p.arg1 = h)
  BY <1>1, <1>2, <1>3, <1>4 DEF Sends
<1>6. \A x \in Ends : Asks(a, x) <=> Asks(q, x) \/ (p.cmd = "OPEN" /\ p.arg0 = x)
  BY <1>1, <1>2, <1>3, <1>4 DEF Asks, AskedAt
<1>7. ASSUME NEW x \in Ends, AsksOnce(q, x), ~(Asks(q, x) /\ p.cmd = "OPEN" /\ p.arg0 = x)
      PROVE  AsksOnce(a, x)
  BY <1>1, <1>2, <1>3, <1>4, <1>7 DEF Asks, AskedAt, AsksOnce
<1>8. \A h \in Ends : Closes(a, h) <=> Closes(q, h) \/ (p.cmd = "CLSE" /\ p.arg1 = h)
  BY <1>1, <1>2, <1>3, <1>4 DEF Closes
<1>9. ASSUME Silence(q), ~Closes(q, p.arg1) PROVE Silence(a)
  <2>1. ASSUME NEW k \in 1..(n + 1), a[k].cmd = "CLSE", NEW m \in 1..(n + 1), m > k
        PROVE  a[m].arg1 # a[k].arg1
    <3>1. k \in 1..n /\ a[k] = q[k]
      BY <2>1, <1>1, <1>2
    <3>2. CASE m \in 1..n
      BY <3>1, <3>2, <2>1, <1>1, <1>2, <1>9 DEF Silence
    <3>3. CASE m = n + 1
      BY <3>1, <3>3, <2>1, <1>1, <1>2, <1>9 DEF Closes
    <3> QED BY <3>2, <3>3, <1>3
  <2> QED BY <2>1, <1>2 DEF Silence
<1> QED BY <1>2, <1>5, <1>6, <1>7, <1>8, <1>9 DEF a

\* What a packet that is taken leaves.
LEMMA ViewTaken ==
  ASSUME NEW q \in Seq(Packets), q # <<>>
  PROVE  /\ Tail(q) \in Seq(Packets) /\ Head(q) \in Packets
         /\ \A i, h \in Ends : Sends(Tail(q), i, h) => Sends(q, i, h)
         /\ \A i, h \in Ends :
              Head(q).cmd \in {"OKAY", "WRTE"} /\ Head(q).arg0 = i /\ Head(q).arg1 = h
                => Sends(q, i, h)
         /\ \A x \in Ends : Asks(Tail(q), x) => Asks(q, x)
         /\ \A x \in Ends : AsksOnce(q, x) => AsksOnce(Tail(q), x)
         /\ \A x \in Ends : AsksOnce(q, x) /\ Head(q).cmd = "OPEN" /\ Head(q).arg0 = x
                             => Asks(q, x) /\ ~Asks(Tail(q), x)
         /\ \A h \in Ends : Closes(Tail(q), h) => Closes(q, h)
         /\ Silence(q) => Silence(Tail(q))
<1> DEFINE n == Len(q)
           t == Tail(q)
<1>1. n \in Nat /\ n > 0 /\ DOMAIN q = 1..n
  BY Shape
<1>2. /\ t \in Seq(Packets)
      /\ DOMAIN t = 1..(n - 1)
      /\ \A k \in 1..(n - 1) : t[k] = q[k + 1]
      /\ Head(q) = q[1] /\ Head(q) \in Packets
  BY Taken
<1>3. \A k \in 1..(n - 1) : k + 1 \in 1..n /\ k + 1 # 1
  BY <1>1
<1>3a. 1 \in 1..n
  BY <1>1
<1>3b. \A k, m \in 1..(n - 1) : (k + 1 = m + 1 => k = m) /\ (m > k => m + 1 > k + 1)
  BY <1>1
<1> HIDE DEF n, t
<1>4. ASSUME NEW i \in Ends, NEW h \in Ends, Sends(t, i, h) PROVE Sends(q, i, h)
  <2>1. PICK k \in 1..(n - 1) : t[k].cmd \in {"OKAY", "WRTE"} /\ t[k].arg0 = i /\ t[k].arg1 = h
    BY <1>2, <1>4 DEF Sends
  <2>2. k + 1 \in 1..n /\ t[k] = q[k + 1]
    BY <1>2, <1>3
  <2> QED BY <2>1, <2>2, <1>1 DEF Sends
<1>5. \A i, h \in Ends :
        Head(q).cmd \in {"OKAY", "WRTE"} /\ Head(q).arg0 = i /\ Head(q).arg1 = h => Sends(q, i, h)
  BY <1>1, <1>2, <1>3a DEF Sends
<1>6. \A x \in Ends : Asks(t, x) => Asks(q, x)
  BY <1>1, <1>2, <1>3 DEF Asks, AskedAt
<1>7. ASSUME NEW x \in Ends, AsksOnce(q, x) PROVE AsksOnce(t, x)
  <2>1. ASSUME NEW k \in 1..(n - 1), NEW m \in 1..(n - 1), AskedAt(t, k, x), AskedAt(t, m, x)
        PROVE  k = m
    <3>1. k + 1 \in 1..n /\ m + 1 \in 1..n /\ t[k] = q[k + 1] /\ t[m] = q[m + 1]
      BY <1>2, <1>3
    <3>2. AskedAt(q, k + 1, x) /\ AskedAt(q, m + 1, x)
      BY <2>1, <3>1 DEF AskedAt
    <3>3. k + 1 = m + 1
      BY <1>1, <1>7, <3>1, <3>2 DEF AsksOnce
    <3> QED BY <1>3b, <3>3
  <2> QED BY <1>2, <2>1 DEF AsksOnce
<1>8. \A x \in Ends : AsksOnce(q, x) /\ Head(q).cmd = "OPEN" /\ Head(q).arg0 = x
                        => Asks(q, x) /\ ~Asks(t, x)
  BY <1>1, <1>2, <1>3, <1>3a DEF Asks, AsksOnce, AskedAt
<1>9. \A h \in Ends : Closes(t, h) => Closes(q, h)
  BY <1>1, <1>2, <1>3 DEF Closes
<1>10. ASSUME Silence(q) PROVE Silence(t)
  <2>1. ASSUME NEW k \in 1..(n - 1), t[k].cmd = "CLSE", NEW m \in 1..(n - 1), m > k
        PROVE  t[m].arg1 # t[k].arg1
    <3>1. k + 1 \in 1..n /\ m + 1 \in 1..n /\ t[k] = q[k + 1] /\ t[m] = q[m + 1] /\ m + 1 > k + 1
      BY <1>2, <1>3, <1>3b, <2>1
    <3> QED BY <1>1, <1>10, <2>1, <3>1 DEF Silence
  <2> QED BY <1>2, <2>1 DEF Silence
<1> QED BY <1>2, <1>4, <1>5, <1>6, <1>7, <1>8, <1>9, <1>10 DEF t

-----------------------------------------------------------------------------
(* What one change does to the invariant of the wire.  The lemmas take     *)
(* sockets, packets and the host's streams as they are before and after it.*)

Off(s, t) == s.st # "none" /\ t.st \in {"closing", "gone"}
Alike(s, t) ==
  t.st = s.st /\ t.peer = s.peer /\ Len(t.queue) = Len(s.queue) /\ (R \in t.mask <=> R \in s.mask)

\* Sockets close without a packet, or change nothing that the host can see.
LEMMA Settle ==
  ASSUME NEW sk, NEW dq, NEW hq, NEW ho, NEW nx, WireInv(sk, dq, hq, ho, nx),
         NEW sk2 \in [Ids -> LocalSockets],
         \A i \in Ids : Alike(sk[i], sk2[i]) \/ Off(sk[i], sk2[i])
  PROVE  WireInv(sk2, dq, hq, ho, nx)
<1>0. WireType(sk, dq, hq, ho, nx) /\ Wire(sk, dq, hq, ho, nx)
  BY DEF WireInv
<1>1. \A i \in Ids, h \in Hids : Linked(sk2, i, h) => Linked(sk, i, h) /\ Alike(sk[i], sk2[i])
  BY DEF Linked, Alike, Off
<1>2. \A i \in Ids, h \in Hids : Tie(sk2, dq, ho, i, h) => Tie(sk, dq, ho, i, h)
  BY <1>1 DEF Tie
<1>3. \A i \in Ids : /\ sk2[i].st = "waiting" => sk[i].st = "waiting" /\ Alike(sk[i], sk2[i])
                     /\ sk2[i].st = "smart" => sk[i].st = "smart"
                     /\ sk2[i].st = "none" <=> sk[i].st = "none"
  BY DEF Alike, Off
<1>4. Matched(sk2, dq, ho)
  BY <1>0, <1>2 DEF Wire, Matched
<1>5. ASSUME NEW h \in Hids PROVE HostSide(sk2, dq, hq, ho, h)
  <2>1. HostSide(sk, dq, hq, ho, h)
    BY <1>0 DEF Wire
  <2> QED BY <1>1, <1>2, <1>3, <2>1 DEF HostSide
<1>6. ASSUME NEW i \in Ids PROVE DeviceSide(sk2, dq, ho, nx, i)
  <2>1. DeviceSide(sk, dq, ho, nx, i)
    BY <1>0 DEF Wire
  <2> QED BY <1>2, <1>3, <2>1 DEF DeviceSide
<1>7. Replies(sk2, hq, ho)
  BY <1>0, <1>3 DEF Wire, WireType, FromHost, Replies
<1>8. ASSUME NEW i \in Ids, NEW h \in Hids PROVE Credits(sk2, dq, hq, ho, i, h)
  <2>1. Credits(sk, dq, hq, ho, i, h)
    BY <1>0 DEF Wire
  <2>2. Up(sk2, ho, i, h) => Up(sk, ho, i, h) /\ Alike(sk[i], sk2[i])
    BY <1>1, <1>3 DEF Up
  <2>3. ASSUME Up(sk2, ho, i, h)
        PROVE  Bool(R \in sk2[i].mask) = Bool(R \in sk[i].mask) /\ Len(sk2[i].queue) = Len(sk[i].queue)
    BY <2>2, <2>3 DEF Alike, Bool
  <2> QED BY <2>1, <2>2, <2>3 DEF Credits
<1> QED BY <1>0, <1>4, <1>5, <1>6, <1>7, <1>8 DEF WireInv, WireType, Wire

\* adbd sends CLSE for a stream as its socket closes.
LEMMA SendClose ==
  ASSUME NEW sk, NEW dq, NEW hq, NEW ho, NEW nx, WireInv(sk, dq, hq, ho, nx),
         NEW i \in Ids, NEW h \in Hids, Linked(sk, i, h),
         NEW s \in LocalSockets, s.st \in {"closing", "gone"}
  PROVE  WireInv([sk EXCEPT ![i] = s], Append(dq, Pkt("CLSE", 0, h, <<>>)), hq, ho, nx)
<1>0. WireType(sk, dq, hq, ho, nx) /\ Wire(sk, dq, hq, ho, nx)
  BY DEF WireInv
<1> DEFINE p == Pkt("CLSE", 0, h, <<>>)
<1>p. p \in Packets /\ p.cmd = "CLSE" /\ p.arg0 = 0 /\ p.arg1 = h
  BY DEF Pkt, Packets, Cmds
<1> HIDE DEF p
<1> PICK sk2 : sk2 = [sk EXCEPT ![i] = s]
  OBVIOUS
<1> PICK dq2 : dq2 = Append(dq, p)
  OBVIOUS
<1>t. WireType(sk2, dq2, hq, ho, nx)
  <2>1. sk2 \in [Ids -> LocalSockets] /\ dq2 \in Seq(Packets)
    BY <1>0, <1>p, Appended DEF WireType
  <2>2. FromDevice(dq2)
    BY <1>0, <1>p, Appended, Shape DEF WireType, FromDevice
  <2> QED BY <1>0, <2>1, <2>2 DEF WireType
<1>1. \A j \in Ids : sk2[j] = IF j = i THEN s ELSE sk[j]
  BY <1>0 DEF WireType
<1>2. \A j \in Ids, g \in Hids : Linked(sk2, j, g) => Linked(sk, j, g) /\ j # i /\ sk2[j] = sk[j]
  BY <1>1 DEF Linked
<1>v. /\ \A j \in Ids, g \in Hids : Sends(dq2, j, g) <=> Sends(dq, j, g)
      /\ \A x \in Ids : (Asks(dq2, x) <=> Asks(dq, x)) /\ (AsksOnce(dq, x) => AsksOnce(dq2, x))
      /\ \A g \in Hids : Closes(dq2, g) <=> Closes(dq, g) \/ g = h
      /\ Silence(dq) /\ ~Closes(dq, h) => Silence(dq2)
  BY <1>0, <1>p, ViewSent DEF Ends, WireType
<1>3. \A j \in Ids, g \in Hids : Tie(sk2, dq2, ho, j, g) => Tie(sk, dq, ho, j, g)
  BY <1>2, <1>v DEF Tie
<1>4. Matched(sk2, dq2, ho)
  BY <1>0, <1>3 DEF Wire, Matched
<1>5. ASSUME NEW g \in Hids PROVE HostSide(sk2, dq2, hq, ho, g)
  <2>1. HostSide(sk, dq, hq, ho, g)
    BY <1>0 DEF Wire
  <2>2. \A j \in Ids : sk2[j].st = "waiting" => sk[j].st = "waiting" /\ j # i
    BY <1>1
  <2>3. Tie(sk, dq, ho, i, h)
    BY DEF Tie
  <2>4. g = h => \A j \in Ids : Tie(sk, dq, ho, j, g) => j = i
    BY <1>0, <2>3 DEF Wire, Matched
  <2>5. \A j \in Ids : Linked(sk, j, g) \/ ho[g].id = j => Tie(sk, dq, ho, j, g)
    BY DEF Tie
  <2> QED BY <1>2, <1>3, <1>v, <2>1, <2>2, <2>3, <2>4, <2>5 DEF HostSide
<1>6. ASSUME NEW j \in Ids PROVE DeviceSide(sk2, dq2, ho, nx, j)
  <2>1. DeviceSide(sk, dq, ho, nx, j) /\ sk[i].st = "open"
    BY <1>0 DEF Wire, Linked
  <2> QED BY <1>1, <1>3, <1>v, <2>1 DEF DeviceSide
<1>7. Replies(sk2, hq, ho)
  BY <1>0, <1>1 DEF Wire, WireType, FromHost, Replies
<1>8. Silence(dq2)
  <2>1. HostSide(sk, dq, hq, ho, h) /\ Silence(dq)
    BY <1>0 DEF Wire
  <2> QED BY <1>v, <2>1 DEF HostSide
<1>9. ASSUME NEW j \in Ids, NEW g \in Hids PROVE Credits(sk2, dq2, hq, ho, j, g)
  <2>1. Credits(sk, dq, hq, ho, j, g)
    BY <1>0 DEF Wire
  <2>2. Up(sk2, ho, j, g) => Up(sk, ho, j, g) /\ sk2[j] = sk[j]
    BY <1>1, <1>2 DEF Up
  <2>3. Count(dq2, "WRTE", j, g) = Count(dq, "WRTE", j, g) /\ Count(dq2, "OKAY", j, g) = Count(dq, "OKAY", j, g)
    <3>1. dq \in Seq(Packets)
      BY <1>0 DEF WireType
    <3>2. Bool(Fits(p, "WRTE", j, g)) = 0 /\ Bool(Fits(p, "OKAY", j, g)) = 0
      BY <1>p DEF Fits, Bool
    <3>3. /\ Count(dq, "WRTE", j, g) \in Nat /\ Count(dq, "OKAY", j, g) \in Nat
          /\ Count(dq2, "WRTE", j, g) = Count(dq, "WRTE", j, g) + Bool(Fits(p, "WRTE", j, g))
          /\ Count(dq2, "OKAY", j, g) = Count(dq, "OKAY", j, g) + Bool(Fits(p, "OKAY", j, g))
      BY <1>p, <3>1, CountSent
    <3> QED BY <3>2, <3>3
  <2> QED BY <2>1, <2>2, <2>3 DEF Credits
<1> QED BY <1>t, <1>4, <1>5, <1>6, <1>7, <1>8, <1>9 DEF WireInv, Wire, p

\* Who waits afterwards has waited before, and not for the packet that is taken.
WaitsOn(sk, sk2, p) ==
  \A j \in Ids : sk2[j].st = "waiting" => sk[j].st = "waiting" /\ ~(p.cmd = "OKAY" /\ p.arg1 = j)

\* The first packet of the host is taken.
LEMMA RepliesTaken ==
  ASSUME NEW sk, NEW hq \in Seq(Packets), NEW ho, Replies(sk, hq, ho), FromHost(hq), hq # <<>>,
         NEW sk2, WaitsOn(sk, sk2, Head(hq))
  PROVE  Replies(sk2, Tail(hq), ho) /\ FromHost(Tail(hq))
<1> DEFINE n == Len(hq)
           t == Tail(hq)
<1>1. n \in Nat /\ n > 0 /\ DOMAIN hq = 1..n
  BY Shape
<1>2. /\ DOMAIN t = 1..(n - 1)
      /\ \A k \in 1..(n - 1) : t[k] = hq[k + 1]
      /\ Head(hq) = hq[1]
  BY Taken
<1>3. \A k \in 1..(n - 1) : k + 1 \in 1..n /\ (k + 1) - 1 = k
  BY <1>1
<1> HIDE DEF n, t
<1>4. FromHost(t)
  <2> SUFFICES ASSUME NEW k \in 1..(n - 1)
               PROVE  /\ t[k].cmd \in {"OPEN", "OKAY", "WRTE"} => t[k].arg0 \in Hids
                      /\ t[k].cmd \in {"OKAY", "WRTE", "CLSE"} => t[k].arg1 \in Ids
    BY <1>2 DEF FromHost
  <2>1. k + 1 \in 1..n /\ t[k] = hq[k + 1]
    BY <1>2, <1>3
  <2> QED BY <1>1, <2>1 DEF FromHost
<1>5. ASSUME NEW k \in 1..(n - 1), t[k].cmd \in {"OKAY", "WRTE"} PROVE ho[t[k].arg0].id = t[k].arg1
  <2>1. k + 1 \in 1..n /\ t[k] = hq[k + 1]
    BY <1>2, <1>3
  <2> QED BY <1>1, <1>5, <2>1 DEF Replies
<1>6. ASSUME NEW k \in 1..(n - 1), t[k].cmd = "WRTE", sk2[t[k].arg1].st = "waiting"
      PROVE  \E m \in 1..(k - 1) : t[m].cmd = "OKAY" /\ t[m].arg0 = t[k].arg0 /\ t[m].arg1 = t[k].arg1
  <2>1. k + 1 \in 1..n /\ t[k] = hq[k + 1] /\ (k + 1) - 1 = k
    BY <1>2, <1>3
  <2>2. hq[k + 1].arg1 \in Ids /\ hq[k + 1].cmd = "WRTE"
    BY <1>1, <1>6, <2>1 DEF FromHost
  <2>3. sk[t[k].arg1].st = "waiting" /\ ~(hq[1].cmd = "OKAY" /\ hq[1].arg1 = t[k].arg1)
    BY <1>2, <1>6, <2>1, <2>2 DEF WaitsOn
  <2>4. PICK m \in 1..k : hq[m].cmd = "OKAY" /\ hq[m].arg0 = t[k].arg0 /\ hq[m].arg1 = t[k].arg1
    BY <1>1, <2>1, <2>2, <2>3 DEF Replies
  <2>5. m # 1
    BY <2>3, <2>4
  <2>6. m - 1 \in 1..(k - 1) /\ m - 1 \in 1..(n - 1) /\ (m - 1) + 1 = m
    BY <1>1, <2>5
  <2>7. t[m - 1] = hq[m]
    BY <1>2, <2>6
  <2> QED BY <2>4, <2>6, <2>7
<1>7. Replies(sk2, t, ho)
  BY <1>2, <1>5, <1>6 DEF Replies
<1> QED BY <1>4, <1>7 DEF t

\* Data or an acknowledgement is sent or taken on a stream that stays linked;
\* that the credits of the stream still add up is left to who uses this.
LEMMA Exchange ==
  ASSUME NEW sk, NEW dq, NEW hq, NEW ho, NEW nx, WireInv(sk, dq, hq, ho, nx),
         NEW i \in Ids, NEW h \in Hids, Linked(sk, i, h),
         NEW s \in LocalSockets, s.st = "open", s.peer = h,
         NEW dq2, NEW hq2,
         \/ dq2 = dq
         \/ \E p \in Packets : /\ p.cmd \in {"OKAY", "WRTE"} /\ p.arg0 = i /\ p.arg1 = h
                               /\ dq2 = Append(dq, p),
         \/ hq2 = hq
         \/ /\ hq # <<>> /\ hq2 = Tail(hq)
            /\ Head(hq).cmd \in {"OKAY", "WRTE"} /\ Head(hq).arg0 = h /\ Head(hq).arg1 = i,
         Credits([sk EXCEPT ![i] = s], dq2, hq2, ho, i, h)
  PROVE  WireInv([sk EXCEPT ![i] = s], dq2, hq2, ho, nx)
<1>0. WireType(sk, dq, hq, ho, nx) /\ Wire(sk, dq, hq, ho, nx)
  BY DEF WireInv
<1> PICK sk2 : sk2 = [sk EXCEPT ![i] = s]
  OBVIOUS
<1>1. \A j \in Ids : sk2[j] = IF j = i THEN s ELSE sk[j]
  BY <1>0 DEF WireType
<1>2. \A j \in Ids, g \in Hids : Linked(sk2, j, g) <=> Linked(sk, j, g)
  BY <1>1 DEF Linked
<1>d. /\ dq2 \in Seq(Packets) /\ FromDevice(dq2)
      /\ \A j \in Ids, g \in Hids : Sends(dq2, j, g) => Sends(dq, j, g) \/ (j = i /\ g = h)
      /\ \A x \in Ids : (Asks(dq2, x) <=> Asks(dq, x)) /\ (AsksOnce(dq, x) => AsksOnce(dq2, x))
      /\ \A g \in Hids : Closes(dq2, g) <=> Closes(dq, g)
      /\ Silence(dq) /\ ~Closes(dq, h) => Silence(dq2)
      /\ \A j \in Ids, g \in Hids : j # i =>
           /\ Count(dq2, "WRTE", j, g) = Count(dq, "WRTE", j, g)
           /\ Count(dq2, "OKAY", j, g) = Count(dq, "OKAY", j, g)
  <2>1. CASE dq2 = dq
    BY <2>1, <1>0 DEF WireType
  <2>2. CASE \E p \in Packets : /\ p.cmd \in {"OKAY", "WRTE"} /\ p.arg0 = i /\ p.arg1 = h
                                /\ dq2 = Append(dq, p)
    <3>0. PICK p \in Packets : /\ p.cmd \in {"OKAY", "WRTE"} /\ p.arg0 = i /\ p.arg1 = h
                               /\ dq2 = Append(dq, p)
      BY <2>2
    <3>1. dq \in Seq(Packets) /\ FromDevice(dq)
      BY <1>0 DEF WireType
    <3>2. dq2 \in Seq(Packets) /\ FromDevice(dq2)
      BY <3>0, <3>1, Appended, Shape DEF FromDevice
    <3>3. /\ \A j \in Ids, g \in Hids : Sends(dq2, j, g) => Sends(dq, j, g) \/ (j = i /\ g = h)
          /\ \A x \in Ids : (Asks(dq2, x) <=> Asks(dq, x)) /\ (AsksOnce(dq, x) => AsksOnce(dq2, x))
          /\ \A g \in Hids : Closes(dq2, g) <=> Closes(dq, g)
          /\ Silence(dq) /\ ~Closes(dq, h) => Silence(dq2)
      BY <3>0, <3>1, ViewSent DEF Ends
    <3>4. \A j \in Ids, g \in Hids : j # i =>
            /\ Count(dq2, "WRTE", j, g) = Count(dq, "WRTE", j, g)
            /\ Count(dq2, "OKAY", j, g) = Count(dq, "OKAY", j, g)
      BY <3>0, <3>1, CountSent DEF Fits, Bool
    <3> QED BY <3>2, <3>3, <3>4
  <2> QED BY <2>1, <2>2
<1>h. /\ hq2 \in Seq(Packets) /\ FromHost(hq2) /\ Replies(sk2, hq2, ho)
      /\ \A x \in Hids : (Asks(hq2, x) => Asks(hq, x)) /\ (AsksOnce(hq, x) => AsksOnce(hq2, x))
      /\ \A j \in Ids, g \in Hids : j # i =>
           /\ Count(hq2, "WRTE", g, j) = Count(hq, "WRTE", g, j)
           /\ Count(hq2, "OKAY", g, j) = Count(hq, "OKAY", g, j)
  <2>0. hq \in Seq(Packets) /\ FromHost(hq) /\ Replies(sk, hq, ho)
    BY <1>0 DEF WireType, Wire
  <2>s. \A j \in Ids : sk2[j].st = "waiting" => sk[j].st = "waiting" /\ j # i
    BY <1>1
  <2>1. CASE hq2 = hq
    <3>1. Replies(sk2, hq, ho)
      BY <2>0, <2>s DEF FromHost, Replies
    <3> QED BY <2>0, <2>1, <3>1
  <2>2. CASE /\ hq # <<>> /\ hq2 = Tail(hq)
             /\ Head(hq).cmd \in {"OKAY", "WRTE"} /\ Head(hq).arg0 = h /\ Head(hq).arg1 = i
    <3>1. Replies(sk2, hq2, ho) /\ FromHost(hq2)
      <4>1. WaitsOn(sk, sk2, Head(hq))
        BY <2>s, <2>2 DEF WaitsOn
      <4>2. hq # <<>>
        BY <2>2
      <4>3. Replies(sk2, Tail(hq), ho) /\ FromHost(Tail(hq))
        BY <2>0, <4>1, <4>2, RepliesTaken, Zenon
      <4> QED BY <4>3, <2>2
    <3>2. /\ hq2 \in Seq(Packets)
          /\ \A x \in Hids : (Asks(hq2, x) => Asks(hq, x)) /\ (AsksOnce(hq, x) => AsksOnce(hq2, x))
      BY <2>0, <2>2, ViewTaken DEF Ends
    <3>3. ASSUME NEW j \in Ids, NEW g \in Hids, j # i, NEW c
          PROVE  Count(hq2, c, g, j) = Count(hq, c, g, j)
      BY <2>0, <2>2, <3>3, CountTaken DEF Fits, Bool
    <3> QED BY <3>1, <3>2, <3>3
  <2> QED BY <2>1, <2>2
<1>t. WireType(sk2, dq2, hq2, ho, nx)
  BY <1>0, <1>d, <1>h DEF WireType
<1>3. \A j \in Ids, g \in Hids : Tie(sk2, dq2, ho, j, g) => Tie(sk, dq, ho, j, g)
  BY <1>2, <1>d DEF Tie
<1>4. Matched(sk2, dq2, ho)
  <2>1. Matched(sk, dq, ho)
    BY <1>0 DEF Wire
  <2> QED BY <2>1, <1>3, Zenon DEF Matched
<1>5. ASSUME NEW g \in Hids PROVE HostSide(sk2, dq2, hq2, ho, g)
  <2>1. HostSide(sk, dq, hq, ho, g)
    BY <1>0 DEF Wire
  <2>2. \A j \in Ids : sk2[j].st = "waiting" => sk[j].st = "waiting"
    BY <1>1
  <2> QED BY <1>2, <1>3, <1>d, <1>h, <2>1, <2>2 DEF HostSide
<1>6. ASSUME NEW j \in Ids PROVE DeviceSide(sk2, dq2, ho, nx, j)
  <2>1. DeviceSide(sk, dq, ho, nx, j) /\ sk[i].st = "open"
    BY <1>0 DEF Wire, Linked
  <2>2. sk2[j].st = sk[j].st /\ (sk2[j].st = "waiting" => j # i)
    BY <1>1, <2>1
  <2> QED BY <1>3, <1>d, <2>1, <2>2 DEF DeviceSide
<1>8. Silence(dq2)
  <2>1. HostSide(sk, dq, hq, ho, h) /\ Silence(dq)
    BY <1>0 DEF Wire
  <2> QED BY <1>d, <2>1 DEF HostSide
<1>9. ASSUME NEW j \in Ids, NEW g \in Hids PROVE Credits(sk2, dq2, hq2, ho, j, g)
  <2>1. Credits(sk, dq, hq, ho, j, g)
    BY <1>0 DEF Wire
  <2>2. CASE j = i /\ g = h
    BY <2>2
  <2>3. CASE j = i /\ g # h
    <3>1. ~Up(sk2, ho, i, g)
      <4>1. sk2[i].st = "open" /\ sk2[i].peer = h
        BY <1>1
      <4> QED BY <4>1, <2>3 DEF Up, Linked
    <3> QED BY <3>1, <2>3 DEF Credits
  <2>4. CASE j # i
    <3>1. Up(sk2, ho, j, g) => Up(sk, ho, j, g) /\ sk2[j] = sk[j]
      BY <1>1, <1>2, <2>4 DEF Up
    <3>2. /\ Count(dq2, "WRTE", j, g) = Count(dq, "WRTE", j, g)
          /\ Count(dq2, "OKAY", j, g) = Count(dq, "OKAY", j, g)
          /\ Count(hq2, "WRTE", g, j) = Count(hq, "WRTE", g, j)
          /\ Count(hq2, "OKAY", g, j) = Count(hq, "OKAY", g, j)
      BY <1>d, <1>h, <2>4
    <3> QED BY <2>1, <3>1, <3>2 DEF Credits
  <2> QED BY <2>2, <2>3, <2>4
<1> QED BY <1>t, <1>h, <1>4, <1>5, <1>6, <1>8, <1>9 DEF WireInv, Wire

\* adbd sends OPEN for a client.
LEMMA Ask ==
  ASSUME NEW sk, NEW dq, NEW hq, NEW ho, NEW nx, WireInv(sk, dq, hq, ho, nx),
         NEW i \in Ids, sk[i].st = "smart",
         NEW s \in LocalSockets, s.st = "waiting"
  PROVE  WireInv([sk EXCEPT ![i] = s], Append(dq, Pkt("OPEN", i, 0, <<>>)), hq, ho, nx)
<1>0. WireType(sk, dq, hq, ho, nx) /\ Wire(sk, dq, hq, ho, nx)
  BY DEF WireInv
<1> DEFINE p == Pkt("OPEN", i, 0, <<>>)
<1>p. p \in Packets /\ p.cmd = "OPEN" /\ p.arg0 = i /\ p.arg1 = 0
  BY DEF Pkt, Packets, Cmds
<1> HIDE DEF p
<1> PICK sk2 : sk2 = [sk EXCEPT ![i] = s]
  OBVIOUS
<1> PICK dq2 : dq2 = Append(dq, p)
  OBVIOUS
<1>t. WireType(sk2, dq2, hq, ho, nx)
  <2>1. sk2 \in [Ids -> LocalSockets] /\ dq2 \in Seq(Packets)
    BY <1>0, <1>p, Appended DEF WireType
  <2>2. FromDevice(dq2)
    BY <1>0, <1>p, Appended, Shape DEF WireType, FromDevice
  <2> QED BY <1>0, <2>1, <2>2 DEF WireType
<1>1. \A j \in Ids : sk2[j] = IF j = i THEN s ELSE sk[j]
  BY <1>0 DEF WireType
<1>2. \A j \in Ids, g \in Hids : Linked(sk2, j, g) <=> Linked(sk, j, g)
  BY <1>1 DEF Linked
<1>v. /\ \A j \in Ids, g \in Hids : Sends(dq2, j, g) <=> Sends(dq, j, g)
      /\ \A x \in Ids : Asks(dq2, x) <=> Asks(dq, x) \/ x = i
      /\ \A x \in Ids : AsksOnce(dq, x) /\ ~(Asks(dq, x) /\ x = i) => AsksOnce(dq2, x)
      /\ \A g \in Hids : Closes(dq2, g) <=> Closes(dq, g)
      /\ Silence(dq) /\ ~Closes(dq, 0) => Silence(dq2)
  BY <1>0, <1>p, ViewSent DEF Ends, WireType
<1>3. \A j \in Ids, g \in Hids : Tie(sk2, dq2, ho, j, g) => Tie(sk, dq, ho, j, g)
  BY <1>2, <1>v DEF Tie
<1>n. /\ \A g \in Hids : ~Tie(sk, dq, ho, i, g) /\ ho[g].id # i /\ ~Sends(dq, i, g)
      /\ ~Asks(dq, i)
  BY <1>0 DEF Wire, DeviceSide, Tie
<1>4. Matched(sk2, dq2, ho)
  <2>1. Matched(sk, dq, ho)
    BY <1>0 DEF Wire
  <2> QED BY <2>1, <1>3, Zenon DEF Matched
<1>5. ASSUME NEW g \in Hids PROVE HostSide(sk2, dq2, hq, ho, g)
  <2>1. HostSide(sk, dq, hq, ho, g)
    BY <1>0 DEF Wire
  <2>2. \A j \in Ids : ho[g].id = j => sk2[j] = sk[j]
    BY <1>1, <1>n
  <2> QED BY <1>2, <1>3, <1>v, <2>1, <2>2 DEF HostSide
<1>6. ASSUME NEW j \in Ids PROVE DeviceSide(sk2, dq2, ho, nx, j)
  <2>1. DeviceSide(sk, dq, ho, nx, j)
    BY <1>0 DEF Wire
  <2> QED BY <1>1, <1>3, <1>v, <1>n, <2>1 DEF DeviceSide
<1>7. Replies(sk2, hq, ho)
  <2>1. Replies(sk, hq, ho) /\ FromHost(hq)
    BY <1>0 DEF Wire, WireType
  <2>2. \A k \in DOMAIN hq : hq[k].cmd = "WRTE" => hq[k].arg1 # i /\ hq[k].arg1 \in Ids
    BY <2>1, <1>n DEF Replies, FromHost
  <2> QED BY <1>1, <2>1, <2>2 DEF Replies
<1>8. Silence(dq2)
  <2>1. Silence(dq) /\ ~Closes(dq, 0)
    BY <1>0, SocketsAssumption DEF Wire, WireType, FromDevice, Closes
  <2> QED BY <1>v, <2>1
<1>9. ASSUME NEW j \in Ids, NEW g \in Hids PROVE Credits(sk2, dq2, hq, ho, j, g)
  <2>1. Credits(sk, dq, hq, ho, j, g)
    BY <1>0 DEF Wire
  <2>2. Up(sk2, ho, j, g) => Up(sk, ho, j, g) /\ sk2[j] = sk[j]
    BY <1>1, <1>2, <1>n DEF Up, Linked
  <2>3. Count(dq2, "WRTE", j, g) = Count(dq, "WRTE", j, g) /\ Count(dq2, "OKAY", j, g) = Count(dq, "OKAY", j, g)
    BY <1>0, <1>p, CountSent DEF WireType, Fits, Bool
  <2> QED BY <2>1, <2>2, <2>3 DEF Credits
<1> QED BY <1>t, <1>4, <1>5, <1>6, <1>7, <1>8, <1>9 DEF WireInv, Wire, p

\* A client connects.
LEMMA Accept ==
  ASSUME NEW sk, NEW dq, NEW hq, NEW ho, NEW nx, WireInv(sk, dq, hq, ho, nx),
         nx \in Ids, NEW s \in LocalSockets, s.st = "smart"
  PROVE  WireInv([sk EXCEPT ![nx] = s], dq, hq, ho, nx + 1)
<1>0. WireType(sk, dq, hq, ho, nx) /\ Wire(sk, dq, hq, ho, nx)
  BY DEF WireInv
<1> PICK sk2 : sk2 = [sk EXCEPT ![nx] = s]
  OBVIOUS
<1>t. WireType(sk2, dq, hq, ho, nx + 1)
  BY <1>0 DEF WireType
<1>1. \A j \in Ids : sk2[j] = IF j = nx THEN s ELSE sk[j]
  BY <1>0 DEF WireType
<1>n. sk[nx].st = "none" /\ nx >= nx
  BY <1>0 DEF Wire, DeviceSide, WireType
<1>2. \A j \in Ids, g \in Hids : Linked(sk2, j, g) <=> Linked(sk, j, g)
  BY <1>1, <1>n DEF Linked
<1>3. \A j \in Ids, g \in Hids : Tie(sk2, dq, ho, j, g) => Tie(sk, dq, ho, j, g)
  BY <1>2 DEF Tie
<1>4. Matched(sk2, dq, ho)
  <2>1. Matched(sk, dq, ho)
    BY <1>0 DEF Wire
  <2> QED BY <2>1, <1>3, Zenon DEF Matched
<1>5. ASSUME NEW g \in Hids PROVE HostSide(sk2, dq, hq, ho, g)
  <2>1. HostSide(sk, dq, hq, ho, g)
    BY <1>0 DEF Wire
  <2>2. \A j \in Ids : sk2[j].st = "waiting" => sk[j].st = "waiting"
    BY <1>1
  <2> QED BY <1>2, <1>3, <2>1, <2>2 DEF HostSide
<1>6. ASSUME NEW j \in Ids PROVE DeviceSide(sk2, dq, ho, nx + 1, j)
  <2>1. DeviceSide(sk, dq, ho, nx, j) /\ j \in Nat /\ nx \in Nat
    BY <1>0 DEF Wire, WireType, Ids
  <2>2. j >= nx + 1 <=> sk2[j].st = "none"
    <3>1. CASE j = nx
      BY <1>1, <2>1, <3>1
    <3>2. CASE j # nx
      <4>1. sk2[j] = sk[j] /\ (j >= nx + 1 <=> j >= nx)
        BY <1>1, <2>1, <3>2
      <4> QED BY <4>1, <2>1 DEF DeviceSide
    <3> QED BY <3>1, <3>2
  <2>3. /\ sk2[j].st \in {"none", "smart"} => sk[j].st \in {"none", "smart"}
        /\ sk2[j].st = "waiting" => sk[j].st = "waiting"
    BY <1>1, <1>n
  <2> QED BY <1>3, <2>1, <2>2, <2>3, Zenon DEF DeviceSide
<1>7. Replies(sk2, hq, ho)
  BY <1>0, <1>1 DEF Wire, WireType, FromHost, Replies
<1>9. ASSUME NEW j \in Ids, NEW g \in Hids PROVE Credits(sk2, dq, hq, ho, j, g)
  <2>1. Credits(sk, dq, hq, ho, j, g)
    BY <1>0 DEF Wire
  <2>2. Up(sk2, ho, j, g) => Up(sk, ho, j, g) /\ sk2[j] = sk[j]
    BY <1>1, <1>2, <1>n DEF Up, Linked
  <2> QED BY <2>1, <2>2 DEF Credits
<1> QED BY <1>0, <1>t, <1>4, <1>5, <1>6, <1>7, <1>9 DEF WireInv, Wire

\* adbd answers CNXN.
LEMMA SendCnxn ==
  ASSUME NEW sk, NEW dq, NEW hq, NEW ho, NEW nx, WireInv(sk, dq, hq, ho, nx)
  PROVE  WireInv(sk, Append(dq, Pkt("CNXN", 0, 0, <<>>)), hq, ho, nx)
<1>0. WireType(sk, dq, hq, ho, nx) /\ Wire(sk, dq, hq, ho, nx)
  BY DEF WireInv
<1> DEFINE p == Pkt("CNXN", 0, 0, <<>>)
<1>p. p \in Packets /\ p.cmd = "CNXN" /\ p.arg0 = 0 /\ p.arg1 = 0
  BY DEF Pkt, Packets, Cmds
<1> HIDE DEF p
<1> PICK dq2 : dq2 = Append(dq, p)
  OBVIOUS
<1>t. WireType(sk, dq2, hq, ho, nx)
  <2>1. dq2 \in Seq(Packets)
    BY <1>0, <1>p, Appended DEF WireType
  <2>2. FromDevice(dq2)
    BY <1>0, <1>p, Appended, Shape DEF WireType, FromDevice
  <2> QED BY <1>0, <2>1, <2>2 DEF WireType
<1>v. /\ \A j \in Ids, g \in Hids : Sends(dq2, j, g) <=> Sends(dq, j, g)
      /\ \A x \in Ids : (Asks(dq2, x) <=> Asks(dq, x)) /\ (AsksOnce(dq, x) => AsksOnce(dq2, x))
      /\ \A g \in Hids : Closes(dq2, g) <=> Closes(dq, g)
      /\ Silence(dq) /\ ~Closes(dq, 0) => Silence(dq2)
  BY <1>0, <1>p, ViewSent DEF Ends, WireType
<1>3. \A j \in Ids, g \in Hids : Tie(sk, dq2, ho, j, g) => Tie(sk, dq, ho, j, g)
  BY <1>v DEF Tie
<1>4. Matched(sk, dq2, ho)
  <2>1. Matched(sk, dq, ho)
    BY <1>0 DEF Wire
  <2> QED BY <2>1, <1>3, Zenon DEF Matched
<1>5. ASSUME NEW g \in Hids PROVE HostSide(sk, dq2, hq, ho, g)
  <2>1. HostSide(sk, dq, hq, ho, g)
    BY <1>0 DEF Wire
  <2> QED BY <1>3, <1>v, <2>1 DEF HostSide
<1>6. ASSUME NEW j \in Ids PROVE DeviceSide(sk, dq2, ho, nx, j)
  <2>1. DeviceSide(sk, dq, ho, nx, j)
    BY <1>0 DEF Wire
  <2> QED BY <1>3, <1>v, <2>1 DEF DeviceSide
<1>8. Silence(dq2)
  <2>1. Silence(dq) /\ ~Closes(dq, 0)
    BY <1>0, SocketsAssumption DEF Wire, WireType, FromDevice, Closes
  <2> QED BY <1>v, <2>1
<1>9. ASSUME NEW j \in Ids, NEW g \in Hids PROVE Credits(sk, dq2, hq, ho, j, g)
  <2>1. Credits(sk, dq, hq, ho, j, g)
    BY <1>0 DEF Wire
  <2>3. Count(dq2, "WRTE", j, g) = Count(dq, "WRTE", j, g) /\ Count(dq2, "OKAY", j, g) = Count(dq, "OKAY", j, g)
    BY <1>0, <1>p, CountSent DEF WireType, Fits, Bool
  <2> QED BY <2>1, <2>3 DEF Credits
<1> QED BY <1>0, <1>t, <1>4, <1>5, <1>6, <1>8, <1>9 DEF WireInv, Wire, p

\* A packet that is not for a stream, or for a socket that is closed, is taken.
LEMMA Pop ==
  ASSUME NEW sk, NEW dq, NEW hq, NEW ho, NEW nx, WireInv(sk, dq, hq, ho, nx), hq # <<>>,
         Head(hq).cmd \in {"OKAY", "WRTE"} => sk[Head(hq).arg1].st \notin {"open", "waiting"}
  PROVE  WireInv(sk, dq, Tail(hq), ho, nx)
<1>0. WireType(sk, dq, hq, ho, nx) /\ Wire(sk, dq, hq, ho, nx)
  BY DEF WireInv
<1> DEFINE p == Head(hq)
<1> PICK hq2 : hq2 = Tail(hq)
  OBVIOUS
<1>h. hq \in Seq(Packets) /\ FromHost(hq) /\ Replies(sk, hq, ho)
  BY <1>0 DEF WireType, Wire
<1>1. Replies(sk, hq2, ho) /\ FromHost(hq2)
  <2>1. WaitsOn(sk, sk, p)
    BY DEF WaitsOn
  <2> QED BY <1>h, <2>1, RepliesTaken
<1>v. /\ hq2 \in Seq(Packets)
      /\ \A x \in Hids : (Asks(hq2, x) => Asks(hq, x)) /\ (AsksOnce(hq, x) => AsksOnce(hq2, x))
  BY <1>h, ViewTaken DEF Ends
<1>t. WireType(sk, dq, hq2, ho, nx)
  BY <1>0, <1>1, <1>v DEF WireType
<1>5. ASSUME NEW g \in Hids PROVE HostSide(sk, dq, hq2, ho, g)
  <2>1. HostSide(sk, dq, hq, ho, g)
    BY <1>0 DEF Wire
  <2> QED BY <1>v, <2>1 DEF HostSide
<1>9. ASSUME NEW j \in Ids, NEW g \in Hids PROVE Credits(sk, dq, hq2, ho, j, g)
  <2>1. Credits(sk, dq, hq, ho, j, g)
    BY <1>0 DEF Wire
  <2>2. ASSUME Up(sk, ho, j, g)
        PROVE  /\ Count(hq2, "WRTE", g, j) = Count(hq, "WRTE", g, j)
               /\ Count(hq2, "OKAY", g, j) = Count(hq, "OKAY", g, j)
    <3>1. ~(p.cmd \in {"OKAY", "WRTE"} /\ p.arg1 = j)
      BY <2>2 DEF Up, Linked
    <3>2. ASSUME NEW c \in {"OKAY", "WRTE"} PROVE Count(hq2, c, g, j) = Count(hq, c, g, j)
      <4>1. ~Fits(p, c, g, j)
        BY <3>1 DEF Fits
      <4> QED BY <4>1, <1>h, CountTaken DEF Bool
    <3> QED BY <3>2
  <2> QED BY <2>1, <2>2 DEF Credits
<1> QED BY <1>0, <1>t, <1>1, <1>5, <1>9 DEF WireInv, Wire

\* The host's OPEN gets a socket.
LEMMA OpenStream ==
  ASSUME NEW sk, NEW dq, NEW hq, NEW ho, NEW nx, WireInv(sk, dq, hq, ho, nx),
         hq # <<>>, Head(hq).cmd = "OPEN", NEW h \in Hids, Head(hq).arg0 = h,
         nx \in Ids, NEW s \in LocalSockets,
         s.st = "open", s.peer = h, s.queue = <<>>, R \in s.mask
  PROVE  WireInv([sk EXCEPT ![nx] = s], Append(dq, Pkt("OKAY", nx, h, <<>>)), Tail(hq), ho, nx + 1)
<1>0. WireType(sk, dq, hq, ho, nx) /\ Wire(sk, dq, hq, ho, nx)
  BY DEF WireInv
<1> PICK i \in Ids : i = nx
  OBVIOUS
<1> DEFINE p == Pkt("OKAY", nx, h, <<>>)
<1>p. p \in Packets /\ p.cmd = "OKAY" /\ p.arg0 = i /\ p.arg1 = h
  BY DEF Pkt, Packets, Cmds
<1> HIDE DEF p
<1> PICK sk2 : sk2 = [sk EXCEPT ![i] = s]
  OBVIOUS
<1> PICK dq2 : dq2 = Append(dq, p)
  OBVIOUS
<1> PICK hq2 : hq2 = Tail(hq)
  OBVIOUS
<1>q. /\ dq \in Seq(Packets) /\ FromDevice(dq)
      /\ hq \in Seq(Packets) /\ FromHost(hq) /\ Replies(sk, hq, ho)
  BY <1>0 DEF WireType, Wire
<1>1. \A j \in Ids : sk2[j] = IF j = i THEN s ELSE sk[j]
  BY <1>0 DEF WireType
<1>2. \A j \in Ids, g \in Hids : Linked(sk2, j, g) <=> (j # i /\ Linked(sk, j, g)) \/ (j = i /\ g = h)
  BY <1>1 DEF Linked
<1>h. /\ hq2 \in Seq(Packets)
      /\ \A x \in Hids : (Asks(hq2, x) => Asks(hq, x)) /\ (AsksOnce(hq, x) => AsksOnce(hq2, x))
      /\ AsksOnce(hq, h) => Asks(hq, h) /\ ~Asks(hq2, h)
  BY <1>q, ViewTaken DEF Ends
<1>r. Replies(sk2, hq2, ho) /\ FromHost(hq2)
  <2>1. WaitsOn(sk, sk2, Head(hq))
    BY <1>1 DEF WaitsOn
  <2> QED BY <1>q, <2>1, RepliesTaken
<1>d. /\ dq2 \in Seq(Packets)
      /\ \A j \in Ids, g \in Hids : Sends(dq2, j, g) <=> Sends(dq, j, g) \/ (j = i /\ g = h)
      /\ \A x \in Ids : (Asks(dq2, x) <=> Asks(dq, x)) /\ (AsksOnce(dq, x) => AsksOnce(dq2, x))
      /\ \A g \in Hids : Closes(dq2, g) <=> Closes(dq, g)
      /\ Silence(dq) /\ ~Closes(dq, h) => Silence(dq2)
  BY <1>q, <1>p, ViewSent DEF Ends
<1>f. FromDevice(dq2)
  BY <1>q, <1>p, Appended, Shape DEF FromDevice
<1>t. WireType(sk2, dq2, hq2, ho, nx + 1)
  BY <1>0, <1>r, <1>h, <1>d, <1>f DEF WireType
<1>n. sk[i].st = "none" /\ \A g \in Hids : ~Tie(sk, dq, ho, i, g)
  <2>1. DeviceSide(sk, dq, ho, nx, i) /\ i >= nx
    BY <1>0 DEF Wire, WireType
  <2> QED BY <2>1 DEF DeviceSide
<1>a. /\ Asks(hq, h) /\ ~Asks(hq2, h) /\ ho[h].st # "none" /\ ~ho[h].ready /\ ~ho[h].owes
      /\ ~Closes(dq, h) /\ \A j \in Ids : ~Tie(sk, dq, ho, j, h)
  <2>1. HostSide(sk, dq, hq, ho, h)
    BY <1>0 DEF Wire
  <2> QED BY <2>1, <1>h DEF HostSide
<1>3. \A j \in Ids, g \in Hids : Tie(sk2, dq2, ho, j, g) => Tie(sk, dq, ho, j, g) \/ (j = i /\ g = h)
  BY <1>2, <1>d DEF Tie
<1>4. Matched(sk2, dq2, ho)
  <2>1. Matched(sk, dq, ho)
    BY <1>0 DEF Wire
  <2>2. ASSUME NEW j \in Ids, NEW g \in Hids, NEW k \in Ids, NEW f \in Hids,
               Tie(sk2, dq2, ho, j, g), Tie(sk2, dq2, ho, k, f)
        PROVE  j = k <=> g = f
    <3>1. CASE Tie(sk, dq, ho, j, g) /\ Tie(sk, dq, ho, k, f)
      BY <2>1, <3>1 DEF Matched
    <3>2. CASE j = i /\ g = h
      BY <3>2, <2>2, <1>3, <1>n, <1>a
    <3>3. CASE k = i /\ f = h
      BY <3>3, <2>2, <1>3, <1>n, <1>a
    <3> QED BY <2>2, <3>1, <3>2, <3>3, <1>3
  <2> QED BY <2>2 DEF Matched
<1>5. ASSUME NEW g \in Hids PROVE HostSide(sk2, dq2, hq2, ho, g)
  <2>1. HostSide(sk, dq, hq, ho, g)
    BY <1>0 DEF Wire
  <2>2. \A j \in Ids : sk2[j].st = "waiting" => sk[j].st = "waiting"
    BY <1>1
  <2> QED BY <1>2, <1>3, <1>d, <1>h, <1>a, <2>1, <2>2 DEF HostSide
<1>6. ASSUME NEW j \in Ids PROVE DeviceSide(sk2, dq2, ho, nx + 1, j)
  <2>1. DeviceSide(sk, dq, ho, nx, j) /\ DeviceSide(sk, dq, ho, nx, i) /\ j \in Nat /\ nx \in Nat
    BY <1>0 DEF Wire, WireType, Ids
  <2>2. j >= nx + 1 <=> sk2[j].st = "none"
    <3>1. CASE j = nx
      BY <1>1, <2>1, <3>1
    <3>2. CASE j # nx
      <4>1. sk2[j] = sk[j] /\ (j >= nx + 1 <=> j >= nx)
        BY <1>1, <2>1, <3>2
      <4> QED BY <4>1, <2>1 DEF DeviceSide
    <3> QED BY <3>1, <3>2
  <2>3. /\ sk2[j].st \in {"none", "smart"} => sk[j].st = sk2[j].st /\ j # i
        /\ sk2[j].st = "waiting" => sk[j].st = "waiting" /\ j # i
    BY <1>1
  <2>4. ~Asks(dq, i)
    BY <2>1, <1>n DEF DeviceSide
  <2>5. j # i => \A g \in Hids : /\ Tie(sk2, dq2, ho, j, g) => Tie(sk, dq, ho, j, g)
                                 /\ Sends(dq2, j, g) => Sends(dq, j, g)
    BY <1>3, <1>d
  <2>6. (Asks(dq2, j) <=> Asks(dq, j)) /\ (AsksOnce(dq, j) => AsksOnce(dq2, j))
    BY <1>d
  <2> QED BY <2>1, <2>2, <2>3, <2>4, <2>5, <2>6 DEF DeviceSide
<1>8. Silence(dq2)
  BY <1>0, <1>d, <1>a DEF Wire
<1>9. ASSUME NEW j \in Ids, NEW g \in Hids PROVE Credits(sk2, dq2, hq2, ho, j, g)
  <2>1. Credits(sk, dq, hq, ho, j, g)
    BY <1>0 DEF Wire
  <2>h. /\ Count(hq2, "WRTE", g, j) = Count(hq, "WRTE", g, j)
        /\ Count(hq2, "OKAY", g, j) = Count(hq, "OKAY", g, j)
    <3>1. Bool(Fits(Head(hq), "WRTE", g, j)) = 0 /\ Bool(Fits(Head(hq), "OKAY", g, j)) = 0
      BY DEF Fits, Bool
    <3> QED BY <3>1, <1>q, CountTaken
  <2>2. CASE j = i /\ g = h
    <3>1. Count(hq, "WRTE", h, i) = 0 /\ Count(hq, "OKAY", h, i) = 0
      <4>1. \A k \in DOMAIN hq : ~Fits(hq[k], "WRTE", h, i) /\ ~Fits(hq[k], "OKAY", h, i)
        BY <1>q, <1>n DEF Replies, Tie, Fits
      <4> QED BY <4>1, <1>q, CountSome
    <3>2. Count(dq, "WRTE", i, h) = 0 /\ Count(dq, "OKAY", i, h) = 0
      <4>1. \A k \in DOMAIN dq : ~Fits(dq[k], "WRTE", i, h) /\ ~Fits(dq[k], "OKAY", i, h)
        BY <1>n DEF Tie, Sends, Fits
      <4> QED BY <4>1, <1>q, CountSome
    <3>3. Count(dq2, "WRTE", i, h) = 0 /\ Count(dq2, "OKAY", i, h) = 1
      <4>1. Bool(Fits(p, "WRTE", i, h)) = 0 /\ Bool(Fits(p, "OKAY", i, h)) = 1
        BY <1>p DEF Fits, Bool
      <4> QED BY <3>2, <4>1, <1>q, <1>p, CountSent
    <3>4. Bool(R \in sk2[i].mask) = 1 /\ Bool(ho[h].owes) = 0 /\ Bool(ho[h].ready) = 0 /\ Len(sk2[i].queue) = 0
      BY <1>1, <1>a DEF Bool
    <3> QED BY <2>2, <2>h, <3>1, <3>3, <3>4 DEF Credits
  <2>3. CASE j = i /\ g # h
    <3>1. ~Up(sk2, ho, i, g)
      BY <1>1, <1>2, <2>3 DEF Up
    <3> QED BY <3>1, <2>3 DEF Credits
  <2>4. CASE j # i
    <3>1. Up(sk2, ho, j, g) => Up(sk, ho, j, g) /\ sk2[j] = sk[j]
      BY <1>1, <1>2, <2>4 DEF Up
    <3>2. /\ Count(dq2, "WRTE", j, g) = Count(dq, "WRTE", j, g)
          /\ Count(dq2, "OKAY", j, g) = Count(dq, "OKAY", j, g)
      BY <1>q, <1>p, <2>4, CountSent DEF Fits, Bool
    <3> QED BY <2>1, <2>h, <3>1, <3>2 DEF Credits
  <2> QED BY <2>2, <2>3, <2>4
<1> QED BY <1>t, <1>r, <1>4, <1>5, <1>6, <1>8, <1>9 DEF WireInv, Wire, p

\* The host's OPEN is refused.
LEMMA Refuse ==
  ASSUME NEW sk, NEW dq, NEW hq, NEW ho, NEW nx, WireInv(sk, dq, hq, ho, nx),
         hq # <<>>, Head(hq).cmd = "OPEN", NEW h \in Hids, Head(hq).arg0 = h
  PROVE  WireInv(sk, Append(dq, Pkt("CLSE", 0, h, <<>>)), Tail(hq), ho, nx)
<1>0. WireType(sk, dq, hq, ho, nx) /\ Wire(sk, dq, hq, ho, nx)
  BY DEF WireInv
<1>a. /\ AsksOnce(hq, h) /\ Asks(hq, h) /\ ~Asks(Tail(hq), h) /\ ho[h].st # "none"
      /\ ~Closes(dq, h) /\ \A j \in Ids : ~Tie(sk, dq, ho, j, h)
  <2>1. HostSide(sk, dq, hq, ho, h) /\ hq \in Seq(Packets)
    BY <1>0 DEF Wire, WireType
  <2>2. AsksOnce(hq, h) => Asks(hq, h) /\ ~Asks(Tail(hq), h)
    BY <2>1, ViewTaken DEF Ends
  <2> QED BY <2>1, <2>2 DEF HostSide
<1> PICK hq2 : hq2 = Tail(hq)
  OBVIOUS
<1>1. WireInv(sk, dq, hq2, ho, nx)
  BY Pop
<1>2. WireType(sk, dq, hq2, ho, nx) /\ Wire(sk, dq, hq2, ho, nx)
  BY <1>1 DEF WireInv
<1> DEFINE p == Pkt("CLSE", 0, h, <<>>)
<1>p. p \in Packets /\ p.cmd = "CLSE" /\ p.arg0 = 0 /\ p.arg1 = h
  BY DEF Pkt, Packets, Cmds
<1> HIDE DEF p
<1> PICK dq2 : dq2 = Append(dq, p)
  OBVIOUS
<1>t. WireType(sk, dq2, hq2, ho, nx)
  <2>1. dq2 \in Seq(Packets)
    BY <1>2, <1>p, Appended DEF WireType
  <2>2. FromDevice(dq2)
    BY <1>2, <1>p, Appended, Shape DEF WireType, FromDevice
  <2> QED BY <1>2, <2>1, <2>2 DEF WireType
<1>v. /\ \A j \in Ids, g \in Hids : Sends(dq2, j, g) <=> Sends(dq, j, g)
      /\ \A x \in Ids : (Asks(dq2, x) <=> Asks(dq, x)) /\ (AsksOnce(dq, x) => AsksOnce(dq2, x))
      /\ \A g \in Hids : Closes(dq2, g) <=> Closes(dq, g) \/ g = h
      /\ Silence(dq) /\ ~Closes(dq, h) => Silence(dq2)
  BY <1>2, <1>p, ViewSent DEF Ends, WireType
<1>3. \A j \in Ids, g \in Hids : Tie(sk, dq2, ho, j, g) => Tie(sk, dq, ho, j, g)
  BY <1>v DEF Tie
<1>4. Matched(sk, dq2, ho)
  <2>1. Matched(sk, dq, ho)
    BY <1>0 DEF Wire
  <2> QED BY <2>1, <1>3, Zenon DEF Matched
<1>5. ASSUME NEW g \in Hids PROVE HostSide(sk, dq2, hq2, ho, g)
  <2>1. HostSide(sk, dq, hq2, ho, g)
    BY <1>2 DEF Wire
  <2>2. g = h => ho[g].st # "none" /\ ~Asks(hq2, g) /\ \A j \in Ids : ~Linked(sk, j, g) /\ ho[g].id # j
    BY <1>a DEF Tie
  <2> QED BY <1>3, <1>v, <2>1, <2>2 DEF HostSide
<1>6. ASSUME NEW j \in Ids PROVE DeviceSide(sk, dq2, ho, nx, j)
  <2>1. DeviceSide(sk, dq, ho, nx, j)
    BY <1>0 DEF Wire
  <2> QED BY <1>3, <1>v, <2>1 DEF DeviceSide
<1>8. Silence(dq2)
  BY <1>0, <1>v, <1>a DEF Wire
<1>9. ASSUME NEW j \in Ids, NEW g \in Hids PROVE Credits(sk, dq2, hq2, ho, j, g)
  <2>1. Credits(sk, dq, hq2, ho, j, g)
    BY <1>2 DEF Wire
  <2>3. Count(dq2, "WRTE", j, g) = Count(dq, "WRTE", j, g) /\ Count(dq2, "OKAY", j, g) = Count(dq, "OKAY", j, g)
    BY <1>2, <1>p, CountSent DEF WireType, Fits, Bool
  <2> QED BY <2>1, <2>3 DEF Credits
<1> QED BY <1>2, <1>t, <1>4, <1>5, <1>6, <1>8, <1>9 DEF WireInv, Wire, p

\* The host's first OKAY links a waiting client.
LEMMA LinkUp ==
  ASSUME NEW sk, NEW dq, NEW hq, NEW ho, NEW nx, WireInv(sk, dq, hq, ho, nx),
         hq # <<>>, Head(hq).cmd = "OKAY", NEW h \in Hids, Head(hq).arg0 = h,
         NEW i \in Ids, Head(hq).arg1 = i, sk[i].st = "waiting", R \notin sk[i].mask,
         NEW s \in LocalSockets,
         s.st = "open", s.peer = h, s.queue = sk[i].queue, R \in s.mask
  PROVE  WireInv([sk EXCEPT ![i] = s], dq, Tail(hq), ho, nx)
<1>0. WireType(sk, dq, hq, ho, nx) /\ Wire(sk, dq, hq, ho, nx)
  BY DEF WireInv
<1> PICK sk2 : sk2 = [sk EXCEPT ![i] = s]
  OBVIOUS
<1> PICK hq2 : hq2 = Tail(hq)
  OBVIOUS
<1>q. hq \in Seq(Packets) /\ FromHost(hq) /\ Replies(sk, hq, ho)
  BY <1>0 DEF WireType, Wire
<1>1. \A j \in Ids : sk2[j] = IF j = i THEN s ELSE sk[j]
  BY <1>0 DEF WireType
<1>2. \A j \in Ids, g \in Hids : Linked(sk2, j, g) <=> (j # i /\ Linked(sk, j, g)) \/ (j = i /\ g = h)
  BY <1>1 DEF Linked
<1>h. /\ hq2 \in Seq(Packets)
      /\ \A x \in Hids : (Asks(hq2, x) => Asks(hq, x)) /\ (AsksOnce(hq, x) => AsksOnce(hq2, x))
  BY <1>q, ViewTaken DEF Ends
<1>r. Replies(sk2, hq2, ho) /\ FromHost(hq2)
  <2>1. WaitsOn(sk, sk2, Head(hq))
    BY <1>1 DEF WaitsOn
  <2> QED BY <1>q, <2>1, RepliesTaken
<1>t. WireType(sk2, dq, hq2, ho, nx)
  BY <1>0, <1>r, <1>h DEF WireType
<1>i. ho[h].id = i /\ Tie(sk, dq, ho, i, h)
  <2>1. hq[1] = Head(hq) /\ 1 \in DOMAIN hq
    BY <1>q, Taken, Shape
  <2> QED BY <1>q, <2>1 DEF Replies, Tie
<1>3. \A j \in Ids, g \in Hids : Tie(sk2, dq, ho, j, g) => Tie(sk, dq, ho, j, g)
  BY <1>2, <1>i DEF Tie
<1>4. Matched(sk2, dq, ho)
  <2>1. Matched(sk, dq, ho)
    BY <1>0 DEF Wire
  <2> QED BY <2>1, <1>3 DEF Matched
<1>5. ASSUME NEW g \in Hids PROVE HostSide(sk2, dq, hq2, ho, g)
  <2>1. HostSide(sk, dq, hq, ho, g)
    BY <1>0 DEF Wire
  <2>2. \A j \in Ids : sk2[j].st = "waiting" => sk[j].st = "waiting"
    BY <1>1
  <2>3. g = h => ~Closes(dq, g)
    BY <2>1, <1>i DEF HostSide
  <2> QED BY <1>2, <1>3, <1>h, <2>1, <2>2, <2>3 DEF HostSide
<1>6. ASSUME NEW j \in Ids PROVE DeviceSide(sk2, dq, ho, nx, j)
  <2>1. DeviceSide(sk, dq, ho, nx, j)
    BY <1>0 DEF Wire
  <2>2. /\ sk2[j].st = "none" <=> sk[j].st = "none"
        /\ sk2[j].st \in {"none", "smart"} => sk[j].st \in {"none", "smart"}
        /\ sk2[j].st = "waiting" => sk[j].st = "waiting"
    BY <1>1
  <2> QED BY <1>3, <2>1, <2>2 DEF DeviceSide
<1>9. ASSUME NEW j \in Ids, NEW g \in Hids PROVE Credits(sk2, dq, hq2, ho, j, g)
  <2>1. Credits(sk, dq, hq, ho, j, g)
    BY <1>0 DEF Wire
  <2>2. CASE j = i /\ g = h
    <3>1. /\ Count(hq2, "WRTE", h, i) = Count(hq, "WRTE", h, i)
          /\ Count(hq, "OKAY", h, i) = Count(hq2, "OKAY", h, i) + 1 /\ Count(hq2, "OKAY", h, i) \in Nat
      <4>1. Bool(Fits(Head(hq), "WRTE", h, i)) = 0 /\ Bool(Fits(Head(hq), "OKAY", h, i)) = 1
        BY DEF Fits, Bool
      <4> QED BY <4>1, <1>q, CountTaken
    <3>2. Bool(R \in sk2[i].mask) = 1 /\ Bool(R \in sk[i].mask) = 0 /\ Len(sk2[i].queue) = Len(sk[i].queue)
      BY <1>1 DEF Bool
    <3>3. Up(sk2, ho, i, h) => Up(sk, ho, i, h)
      BY <1>i DEF Up
    <3>4. Count(dq, "WRTE", i, h) \in Nat /\ Bool(ho[h].owes) \in Nat
      BY <1>0, CountSome DEF WireType, Bool
    <3>5. ASSUME Up(sk, ho, i, h)
          PROVE  /\ Bool(R \in sk[i].mask) + Count(dq, "WRTE", i, h) + Bool(ho[h].owes)
                      + Count(hq, "OKAY", h, i) = 1
                 /\ Bool(ho[h].ready) + Count(hq, "WRTE", h, i) + Len(sk[i].queue)
                      + Count(dq, "OKAY", i, h) = 1
      BY <2>1, <2>2, <3>5 DEF Credits
    <3>6. ASSUME Up(sk, ho, i, h)
          PROVE  /\ Bool(R \in sk2[i].mask) + Count(dq, "WRTE", i, h) + Bool(ho[h].owes)
                      + Count(hq2, "OKAY", h, i) = 1
                 /\ Bool(ho[h].ready) + Count(hq2, "WRTE", h, i) + Len(sk2[i].queue)
                      + Count(dq, "OKAY", i, h) = 1
      BY <3>1, <3>2, <3>4, <3>5, <3>6
    <3> QED BY <2>2, <3>3, <3>6 DEF Credits
  <2>3. CASE j = i /\ g # h
    <3>1. ~Up(sk2, ho, i, g)
      BY <1>1, <1>2, <2>3 DEF Up
    <3> QED BY <3>1, <2>3 DEF Credits
  <2>4. CASE j # i
    <3>1. Up(sk2, ho, j, g) => Up(sk, ho, j, g) /\ sk2[j] = sk[j]
      BY <1>1, <1>2, <2>4 DEF Up
    <3>2. /\ Count(hq2, "WRTE", g, j) = Count(hq, "WRTE", g, j)
          /\ Count(hq2, "OKAY", g, j) = Count(hq, "OKAY", g, j)
      BY <1>q, <2>4, CountTaken DEF Fits, Bool
    <3> QED BY <2>1, <3>1, <3>2 DEF Credits
  <2> QED BY <2>2, <2>3, <2>4
<1> QED BY <1>0, <1>t, <1>r, <1>4, <1>5, <1>6, <1>9 DEF WireInv, Wire

\* A packet of the host is sent.
LEMMA RepliesSent ==
  ASSUME NEW sk, NEW hq \in Seq(Packets), NEW ho, Replies(sk, hq, ho), FromHost(hq),
         NEW p \in Packets,
         p.cmd \in {"OPEN", "OKAY", "WRTE"} => p.arg0 \in Hids,
         p.cmd \in {"OKAY", "WRTE", "CLSE"} => p.arg1 \in Ids,
         p.cmd \in {"OKAY", "WRTE"} => ho[p.arg0].id = p.arg1,
         p.cmd = "WRTE" /\ sk[p.arg1].st = "waiting"
           => \E k \in DOMAIN hq : Fits(hq[k], "OKAY", p.arg0, p.arg1)
  PROVE  Replies(sk, Append(hq, p), ho) /\ FromHost(Append(hq, p))
<1> DEFINE n == Len(hq)
           a == Append(hq, p)
<1>1. n \in Nat /\ DOMAIN hq = 1..n
  BY Shape
<1>2. /\ DOMAIN a = 1..(n + 1)
      /\ \A k \in 1..n : a[k] = hq[k]
      /\ a[n + 1] = p
  BY Appended
<1>3. \A k \in 1..(n + 1) : k \in 1..n \/ k = n + 1
  BY <1>1
<1>4. 1..((n + 1) - 1) = 1..n /\ \A k \in 1..n : 1..(k - 1) \subseteq 1..n
  BY <1>1
<1> HIDE DEF n, a
<1>5. FromHost(a)
  BY <1>1, <1>2, <1>3 DEF FromHost
<1>6. ASSUME NEW k \in 1..(n + 1)
      PROVE  /\ a[k].cmd \in {"OKAY", "WRTE"} => ho[a[k].arg0].id = a[k].arg1
             /\ a[k].cmd = "WRTE" /\ sk[a[k].arg1].st = "waiting" =>
                  \E m \in 1..(k - 1) : a[m].cmd = "OKAY" /\ a[m].arg0 = a[k].arg0 /\ a[m].arg1 = a[k].arg1
  <2>1. CASE k \in 1..n
    <3>1. a[k] = hq[k] /\ \A m \in 1..(k - 1) : a[m] = hq[m]
      BY <2>1, <1>2, <1>4
    <3> QED BY <2>1, <3>1, <1>1 DEF Replies
  <2>2. CASE k = n + 1
    BY <2>2, <1>1, <1>2, <1>4 DEF Fits
  <2> QED BY <2>1, <2>2, <1>3
<1>7. Replies(sk, a, ho)
  BY <1>2, <1>6 DEF Replies
<1> QED BY <1>5, <1>7 DEF a

\* Streams of the host end, and it sends nothing.
LEMMA HostForgets ==
  ASSUME NEW sk, NEW dq, NEW hq, NEW ho, NEW nx, WireInv(sk, dq, hq, ho, nx),
         NEW ho2 \in [Hids -> HostStreams],
         \A h \in Hids : \/ ho2[h] = ho[h]
                         \/ /\ ho[h].st # "none" /\ ho2[h].st \in {"closed", "ended"}
                            /\ ho2[h].id = ho[h].id
                            /\ ho2[h].ready = ho[h].ready /\ ho2[h].owes = ho[h].owes
  PROVE  WireInv(sk, dq, hq, ho2, nx)
<1>0. WireType(sk, dq, hq, ho, nx) /\ Wire(sk, dq, hq, ho, nx)
  BY DEF WireInv
<1>t. WireType(sk, dq, hq, ho2, nx)
  BY <1>0 DEF WireType
<1>1. \A h \in Hids :
        /\ ho2[h].id = ho[h].id /\ ho2[h].ready = ho[h].ready /\ ho2[h].owes = ho[h].owes
        /\ ho2[h].st \in {"none", "open", "opening"} => ho2[h] = ho[h]
  OBVIOUS
<1>3. \A j \in Ids, g \in Hids : Tie(sk, dq, ho2, j, g) => Tie(sk, dq, ho, j, g)
  BY <1>1 DEF Tie
<1>4. Matched(sk, dq, ho2)
  <2>1. Matched(sk, dq, ho)
    BY <1>0 DEF Wire
  <2> QED BY <2>1, <1>3 DEF Matched
<1>5. ASSUME NEW g \in Hids PROVE HostSide(sk, dq, hq, ho2, g)
  <2>1. HostSide(sk, dq, hq, ho, g)
    BY <1>0 DEF Wire
  <2> QED BY <1>1, <1>3, <2>1 DEF HostSide
<1>6. ASSUME NEW j \in Ids PROVE DeviceSide(sk, dq, ho2, nx, j)
  <2>1. DeviceSide(sk, dq, ho, nx, j)
    BY <1>0 DEF Wire
  <2> QED BY <1>3, <2>1 DEF DeviceSide
<1>7. Replies(sk, hq, ho2)
  BY <1>0, <1>1 DEF Wire, WireType, FromHost, Replies
<1>9. ASSUME NEW j \in Ids, NEW g \in Hids PROVE Credits(sk, dq, hq, ho2, j, g)
  <2>1. Credits(sk, dq, hq, ho, j, g)
    BY <1>0 DEF Wire
  <2>2. Up(sk, ho2, j, g) => Up(sk, ho, j, g) /\ ho2[g] = ho[g]
    BY <1>1 DEF Up
  <2> QED BY <2>1, <2>2 DEF Credits
<1> QED BY <1>0, <1>t, <1>4, <1>5, <1>6, <1>7, <1>9 DEF WireInv, Wire

\* The host sends a packet that opens nothing and carries no credit.
LEMMA HostSends ==
  ASSUME NEW sk, NEW dq, NEW hq, NEW ho, NEW nx, WireInv(sk, dq, hq, ho, nx),
         NEW p \in Packets, p.cmd \in {"CNXN", "CLSE", "SYNC0"}, p.cmd = "CLSE" => p.arg1 \in Ids
  PROVE  WireInv(sk, dq, Append(hq, p), ho, nx)
<1>0. WireType(sk, dq, hq, ho, nx) /\ Wire(sk, dq, hq, ho, nx)
  BY DEF WireInv
<1> PICK hq2 : hq2 = Append(hq, p)
  OBVIOUS
<1>q. hq \in Seq(Packets) /\ FromHost(hq) /\ Replies(sk, hq, ho)
  BY <1>0 DEF WireType, Wire
<1>v. /\ hq2 \in Seq(Packets)
      /\ \A x \in Hids : (Asks(hq2, x) => Asks(hq, x)) /\ (AsksOnce(hq, x) => AsksOnce(hq2, x))
  BY <1>q, ViewSent DEF Ends
<1>r. Replies(sk, hq2, ho) /\ FromHost(hq2)
  BY <1>q, RepliesSent
<1>t. WireType(sk, dq, hq2, ho, nx)
  BY <1>0, <1>r, <1>v DEF WireType
<1>5. ASSUME NEW g \in Hids PROVE HostSide(sk, dq, hq2, ho, g)
  <2>1. HostSide(sk, dq, hq, ho, g)
    BY <1>0 DEF Wire
  <2> QED BY <1>v, <2>1 DEF HostSide
<1>9. ASSUME NEW j \in Ids, NEW g \in Hids PROVE Credits(sk, dq, hq2, ho, j, g)
  <2>1. Credits(sk, dq, hq, ho, j, g)
    BY <1>0 DEF Wire
  <2>2. Count(hq2, "WRTE", g, j) = Count(hq, "WRTE", g, j) /\ Count(hq2, "OKAY", g, j) = Count(hq, "OKAY", g, j)
    BY <1>q, CountSent DEF Fits, Bool
  <2> QED BY <2>1, <2>2 DEF Credits
<1> QED BY <1>0, <1>t, <1>r, <1>5, <1>9 DEF WireInv, Wire

\* The host opens a stream.
LEMMA HostOpens ==
  ASSUME NEW sk, NEW dq, NEW hq, NEW ho, NEW nx, WireInv(sk, dq, hq, ho, nx),
         NEW h \in Hids, ho[h].st = "none",
         NEW r \in HostStreams, r.st = "opening", r.id = 0, ~r.ready, ~r.owes
  PROVE  WireInv(sk, dq, Append(hq, Pkt("OPEN", h, 0, <<>>)), [ho EXCEPT ![h] = r], nx)
<1>0. WireType(sk, dq, hq, ho, nx) /\ Wire(sk, dq, hq, ho, nx)
  BY DEF WireInv
<1> DEFINE p == Pkt("OPEN", h, 0, <<>>)
<1>p. p \in Packets /\ p.cmd = "OPEN" /\ p.arg0 = h /\ p.arg1 = 0
  BY DEF Pkt, Packets, Cmds
<1> HIDE DEF p
<1> PICK hq2 : hq2 = Append(hq, p)
  OBVIOUS
<1> PICK ho2 : ho2 = [ho EXCEPT ![h] = r]
  OBVIOUS
<1>q. hq \in Seq(Packets) /\ FromHost(hq) /\ Replies(sk, hq, ho)
  BY <1>0 DEF WireType, Wire
<1>n. /\ ho[h] = Silent /\ ~Asks(hq, h) /\ ~Closes(dq, h)
      /\ \A j \in Ids : ~Tie(sk, dq, ho, j, h)
  BY <1>0 DEF Wire, HostSide
<1>1. \A g \in Hids : ho2[g] = IF g = h THEN r ELSE ho[g]
  BY <1>0 DEF WireType
<1>i. \A g \in Hids : ho2[g].id = ho[g].id
  BY <1>1, <1>n DEF Silent
<1>v. /\ hq2 \in Seq(Packets)
      /\ \A x \in Hids : Asks(hq2, x) <=> Asks(hq, x) \/ x = h
      /\ \A x \in Hids : AsksOnce(hq, x) /\ ~(Asks(hq, x) /\ x = h) => AsksOnce(hq2, x)
  BY <1>q, <1>p, ViewSent DEF Ends
<1>r. Replies(sk, hq2, ho2) /\ FromHost(hq2)
  <2>1. Replies(sk, hq, ho2)
    BY <1>q, <1>i DEF Replies, FromHost
  <2> QED BY <1>q, <1>p, <2>1, RepliesSent
<1>t. WireType(sk, dq, hq2, ho2, nx)
  BY <1>0, <1>r, <1>v DEF WireType
<1>3. \A j \in Ids, g \in Hids : Tie(sk, dq, ho2, j, g) => Tie(sk, dq, ho, j, g)
  BY <1>i DEF Tie
<1>4. Matched(sk, dq, ho2)
  <2>1. Matched(sk, dq, ho)
    BY <1>0 DEF Wire
  <2> QED BY <2>1, <1>3, Zenon DEF Matched
<1>5. ASSUME NEW g \in Hids PROVE HostSide(sk, dq, hq2, ho2, g)
  <2>1. HostSide(sk, dq, hq, ho, g)
    BY <1>0 DEF Wire
  <2>2. CASE g = h
    <3>1. ho2[g] = r /\ AsksOnce(hq2, g)
      BY <2>1, <2>2, <1>1, <1>n, <1>v DEF HostSide
    <3> QED BY <2>2, <3>1, <1>n, <1>3 DEF HostSide
  <2>3. CASE g # h
    <3>1. ho2[g] = ho[g] /\ (Asks(hq2, g) <=> Asks(hq, g)) /\ (AsksOnce(hq, g) => AsksOnce(hq2, g))
      BY <2>3, <1>1, <1>v
    <3> QED BY <2>1, <3>1, <1>3 DEF HostSide
  <2> QED BY <2>2, <2>3
<1>6. ASSUME NEW j \in Ids PROVE DeviceSide(sk, dq, ho2, nx, j)
  <2>1. DeviceSide(sk, dq, ho, nx, j)
    BY <1>0 DEF Wire
  <2> QED BY <1>3, <2>1 DEF DeviceSide
<1>9. ASSUME NEW j \in Ids, NEW g \in Hids PROVE Credits(sk, dq, hq2, ho2, j, g)
  <2>1. Credits(sk, dq, hq, ho, j, g)
    BY <1>0 DEF Wire
  <2>2. Count(hq2, "WRTE", g, j) = Count(hq, "WRTE", g, j) /\ Count(hq2, "OKAY", g, j) = Count(hq, "OKAY", g, j)
    BY <1>q, <1>p, CountSent DEF Fits, Bool
  <2>3. Up(sk, ho2, j, g) => Up(sk, ho, j, g) /\ ho2[g] = ho[g]
    <3>1. Up(sk, ho2, j, g) => Tie(sk, dq, ho, j, g)
      BY <1>i DEF Up, Tie
    <3> QED BY <3>1, <1>1, <1>n DEF Up
  <2> QED BY <2>1, <2>2, <2>3 DEF Credits
<1> QED BY <1>0, <1>t, <1>r, <1>4, <1>5, <1>6, <1>9 DEF WireInv, Wire, p

\* The host writes or acknowledges on a stream that it has; that the credits of
\* the stream still add up is left to who uses this.
LEMMA Reply ==
  ASSUME NEW sk, NEW dq, NEW hq, NEW ho, NEW nx, WireInv(sk, dq, hq, ho, nx),
         NEW h \in Hids, NEW i \in Ids, ho[h].st = "open", ho[h].id = i,
         NEW r \in HostStreams, r.st = "open", r.id = i, r.owes => ho[h].owes,
         NEW p \in Packets, p.cmd \in {"OKAY", "WRTE"}, p.arg0 = h, p.arg1 = i,
         p.cmd = "WRTE" /\ sk[i].st = "waiting" => \E k \in DOMAIN hq : Fits(hq[k], "OKAY", h, i),
         Credits(sk, dq, Append(hq, p), [ho EXCEPT ![h] = r], i, h)
  PROVE  WireInv(sk, dq, Append(hq, p), [ho EXCEPT ![h] = r], nx)
<1>0. WireType(sk, dq, hq, ho, nx) /\ Wire(sk, dq, hq, ho, nx)
  BY DEF WireInv
<1> PICK hq2 : hq2 = Append(hq, p)
  OBVIOUS
<1> PICK ho2 : ho2 = [ho EXCEPT ![h] = r]
  OBVIOUS
<1>q. hq \in Seq(Packets) /\ FromHost(hq) /\ Replies(sk, hq, ho)
  BY <1>0 DEF WireType, Wire
<1>1. \A g \in Hids : ho2[g] = IF g = h THEN r ELSE ho[g]
  BY <1>0 DEF WireType
<1>i. \A g \in Hids : ho2[g].id = ho[g].id
  BY <1>1
<1>v. /\ hq2 \in Seq(Packets)
      /\ \A x \in Hids : (Asks(hq2, x) => Asks(hq, x)) /\ (AsksOnce(hq, x) => AsksOnce(hq2, x))
  BY <1>q, ViewSent DEF Ends
<1>r. Replies(sk, hq2, ho2) /\ FromHost(hq2)
  <2>1. Replies(sk, hq, ho2)
    BY <1>q, <1>i DEF Replies, FromHost
  <2>2. p.arg0 \in Hids /\ p.arg1 \in Ids /\ ho2[p.arg0].id = p.arg1
    BY <1>i
  <2>3. p.cmd = "WRTE" /\ sk[p.arg1].st = "waiting"
          => \E k \in DOMAIN hq : Fits(hq[k], "OKAY", p.arg0, p.arg1)
    OBVIOUS
  <2>4. Replies(sk, Append(hq, p), ho2) /\ FromHost(Append(hq, p))
    BY <1>q, <2>1, <2>2, <2>3, RepliesSent, Zenon
  <2> QED BY <2>4
<1>t. WireType(sk, dq, hq2, ho2, nx)
  BY <1>0, <1>r, <1>v DEF WireType
<1>3. \A j \in Ids, g \in Hids : Tie(sk, dq, ho2, j, g) => Tie(sk, dq, ho, j, g)
  BY <1>i DEF Tie
<1>m. Matched(sk, dq, ho) /\ Tie(sk, dq, ho, i, h)
  BY <1>0 DEF Wire, Tie
<1>4. Matched(sk, dq, ho2)
  <2>1. Matched(sk, dq, ho)
    BY <1>m
  <2> QED BY ONLY <2>1, <1>3 DEF Matched
<1>5. ASSUME NEW g \in Hids PROVE HostSide(sk, dq, hq2, ho2, g)
  <2>1. HostSide(sk, dq, hq, ho, g)
    BY <1>0 DEF Wire
  <2>2. g = h => ~Asks(hq2, g)
    BY <2>1, <1>m, <1>v DEF HostSide
  <2>3. g = h => ho2[g].st = "open" /\ ho2[g].id = i /\ (ho2[g].owes => ho[g].owes) /\ i # 0 /\ ho[g].id = i
    BY <1>1 DEF Ids
  <2>4. g # h => ho2[g] = ho[g]
    BY <1>1
  <2> QED BY <1>3, <1>v, <2>1, <2>2, <2>3, <2>4 DEF HostSide
<1>6. ASSUME NEW j \in Ids PROVE DeviceSide(sk, dq, ho2, nx, j)
  <2>1. DeviceSide(sk, dq, ho, nx, j)
    BY <1>0 DEF Wire
  <2> QED BY <1>3, <2>1 DEF DeviceSide
<1>9. ASSUME NEW j \in Ids, NEW g \in Hids PROVE Credits(sk, dq, hq2, ho2, j, g)
  <2>1. Credits(sk, dq, hq, ho, j, g)
    BY <1>0 DEF Wire
  <2>2. CASE j = i /\ g = h
    BY <2>2
  <2>3. CASE ~(j = i /\ g = h)
    <3>1. Up(sk, ho2, j, g) => Up(sk, ho, j, g) /\ ho2[g] = ho[g]
      <4>1. Up(sk, ho2, j, g) => Tie(sk, dq, ho, j, g)
        BY <1>i DEF Up, Tie
      <4>2. g = h => ~Tie(sk, dq, ho, j, g)
        BY <1>m, <2>3 DEF Matched
      <4> QED BY <4>1, <4>2, <1>1 DEF Up
    <3>2. Count(hq2, "WRTE", g, j) = Count(hq, "WRTE", g, j) /\ Count(hq2, "OKAY", g, j) = Count(hq, "OKAY", g, j)
      BY <1>q, <2>3, CountSent DEF Fits, Bool
    <3> QED BY <2>1, <3>1, <3>2 DEF Credits
  <2> QED BY <2>2, <2>3
<1> QED BY <1>0, <1>t, <1>r, <1>4, <1>5, <1>6, <1>9 DEF WireInv, Wire

\* The host takes data or an acknowledgement of a stream that it has; the
\* credits as above.
LEMMA Receive ==
  ASSUME NEW sk, NEW dq, NEW hq, NEW ho, NEW nx, WireInv(sk, dq, hq, ho, nx),
         NEW h \in Hids, NEW i \in Ids, dq # <<>>,
         Head(dq).cmd \in {"OKAY", "WRTE"}, Head(dq).arg0 = i, Head(dq).arg1 = h,
         ho[h].st \in {"opening", "open"},
         NEW r \in HostStreams, r.st \in {"opening", "open"}, r.id \in {i, ho[h].id},
         r.st = "open" => r.id # 0,
         Credits(sk, Tail(dq), hq, [ho EXCEPT ![h] = r], i, h)
  PROVE  WireInv(sk, Tail(dq), hq, [ho EXCEPT ![h] = r], nx)
<1>0. WireType(sk, dq, hq, ho, nx) /\ Wire(sk, dq, hq, ho, nx)
  BY DEF WireInv
<1> PICK dq2 : dq2 = Tail(dq)
  OBVIOUS
<1> PICK ho2 : ho2 = [ho EXCEPT ![h] = r]
  OBVIOUS
<1>q. /\ dq \in Seq(Packets) /\ FromDevice(dq)
      /\ hq \in Seq(Packets) /\ FromHost(hq) /\ Replies(sk, hq, ho)
  BY <1>0 DEF WireType, Wire
<1>1. \A g \in Hids : ho2[g] = IF g = h THEN r ELSE ho[g]
  BY <1>0 DEF WireType
<1>d. /\ dq2 \in Seq(Packets)
      /\ \A j \in Ids, g \in Hids : Sends(dq2, j, g) => Sends(dq, j, g)
      /\ Sends(dq, i, h)
      /\ \A x \in Ids : (Asks(dq2, x) => Asks(dq, x)) /\ (AsksOnce(dq, x) => AsksOnce(dq2, x))
      /\ \A g \in Hids : Closes(dq2, g) => Closes(dq, g)
      /\ Silence(dq) => Silence(dq2)
  BY <1>q, ViewTaken DEF Ends
<1>f. FromDevice(dq2)
  BY <1>q, Taken, Shape DEF FromDevice
<1>m. Matched(sk, dq, ho) /\ Tie(sk, dq, ho, i, h)
  BY <1>0, <1>d DEF Wire, Tie
<1>i. \A j \in Ids : Tie(sk, dq, ho, j, h) => j = i
  BY <1>m DEF Matched
<1>s. sk[i].st # "waiting"
  BY <1>0, <1>d DEF Wire, DeviceSide
<1>r. Replies(sk, hq, ho2)
  <2>1. ASSUME NEW k \in DOMAIN hq, hq[k].cmd \in {"OKAY", "WRTE"}, hq[k].arg0 = h
        PROVE  ho[h].id = i /\ hq[k].arg1 = i
    <3>1. hq[k].arg1 \in Ids /\ ho[h].id = hq[k].arg1
      BY <1>q, <2>1 DEF FromHost, Replies
    <3>2. Tie(sk, dq, ho, hq[k].arg1, h)
      BY <3>1 DEF Tie
    <3> QED BY <3>1, <3>2, <1>i
  <2>2. \A k \in DOMAIN hq : hq[k].cmd \in {"OKAY", "WRTE"} => hq[k].arg0 \in Hids
    BY <1>q DEF FromHost
  <2>3. \A k \in DOMAIN hq : hq[k].cmd \in {"OKAY", "WRTE"} => ho2[hq[k].arg0].id = hq[k].arg1
    <3> SUFFICES ASSUME NEW k \in DOMAIN hq, hq[k].cmd \in {"OKAY", "WRTE"}
                 PROVE  ho2[hq[k].arg0].id = hq[k].arg1
      OBVIOUS
    <3>1. CASE hq[k].arg0 = h
      BY <3>1, <2>1, <1>1
    <3>2. CASE hq[k].arg0 # h
      BY <3>2, <2>2, <1>1, <1>q DEF Replies
    <3> QED BY <3>1, <3>2
  <2> QED BY <2>3, <1>q DEF Replies
<1>t. WireType(sk, dq2, hq, ho2, nx)
  BY <1>0, <1>d, <1>f DEF WireType
<1>3. \A j \in Ids, g \in Hids : Tie(sk, dq2, ho2, j, g) => Tie(sk, dq, ho, j, g)
  BY <1>1, <1>d, <1>m DEF Tie
<1>4. Matched(sk, dq2, ho2)
  BY ONLY <1>m, <1>3 DEF Matched
<1>5. ASSUME NEW g \in Hids PROVE HostSide(sk, dq2, hq, ho2, g)
  <2>1. HostSide(sk, dq, hq, ho, g)
    BY <1>0 DEF Wire
  <2>2. CASE g = h
    <3>1. ho2[g] = r /\ ~Asks(hq, g) /\ AsksOnce(hq, g)
      BY <2>1, <2>2, <1>1, <1>m DEF HostSide
    <3>2. Closes(dq2, g) => \A j \in Ids : ~Linked(sk, j, g)
      BY <2>1, <1>d DEF HostSide
    <3>3. \A j \in Ids : ho2[g].id = j => sk[j].st # "waiting"
      BY <2>2, <1>3, <1>i, <1>s DEF Tie
    <3> QED BY <2>2, <3>1, <3>2, <3>3 DEF HostSide
  <2>3. CASE g # h
    <3>1. ho2[g] = ho[g]
      BY <2>3, <1>1
    <3> QED BY <2>1, <3>1, <1>3, <1>d DEF HostSide
  <2> QED BY <2>2, <2>3
<1>6. ASSUME NEW j \in Ids PROVE DeviceSide(sk, dq2, ho2, nx, j)
  <2>1. DeviceSide(sk, dq, ho, nx, j)
    BY <1>0 DEF Wire
  <2> QED BY <1>3, <1>d, <2>1 DEF DeviceSide
<1>8. Silence(dq2)
  BY <1>0, <1>d DEF Wire
<1>9. ASSUME NEW j \in Ids, NEW g \in Hids PROVE Credits(sk, dq2, hq, ho2, j, g)
  <2>1. Credits(sk, dq, hq, ho, j, g)
    BY <1>0 DEF Wire
  <2>2. CASE j = i /\ g = h
    BY <2>2
  <2>3. CASE ~(j = i /\ g = h)
    <3>1. Up(sk, ho2, j, g) => Up(sk, ho, j, g) /\ ho2[g] = ho[g]
      <4>1. Up(sk, ho2, j, g) => Tie(sk, dq, ho, j, g)
        BY <1>3 DEF Up, Tie
      <4>2. g = h => ~Tie(sk, dq, ho, j, g)
        BY <1>i, <2>3
      <4> QED BY <4>1, <4>2, <1>1 DEF Up
    <3>2. Count(dq2, "WRTE", j, g) = Count(dq, "WRTE", j, g) /\ Count(dq2, "OKAY", j, g) = Count(dq, "OKAY", j, g)
      <4>1. Bool(Fits(Head(dq), "WRTE", j, g)) = 0 /\ Bool(Fits(Head(dq), "OKAY", j, g)) = 0
        BY <2>3 DEF Fits, Bool
      <4> QED BY <4>1, <1>q, CountTaken
    <3> QED BY <2>1, <3>1, <3>2 DEF Credits
  <2> QED BY <2>2, <2>3
<1> QED BY <1>0, <1>t, <1>r, <1>4, <1>5, <1>6, <1>8, <1>9 DEF WireInv, Wire

\* The host takes a packet that changes none of its streams.
LEMMA HostIgnores ==
  ASSUME NEW sk, NEW dq, NEW hq, NEW ho, NEW nx, WireInv(sk, dq, hq, ho, nx), dq # <<>>,
         Head(dq).cmd \in {"OKAY", "WRTE"} => ho[Head(dq).arg1].st \notin {"opening", "open"}
  PROVE  WireInv(sk, Tail(dq), hq, ho, nx)
<1>0. WireType(sk, dq, hq, ho, nx) /\ Wire(sk, dq, hq, ho, nx)
  BY DEF WireInv
<1> PICK dq2 : dq2 = Tail(dq)
  OBVIOUS
<1>q. dq \in Seq(Packets) /\ FromDevice(dq)
  BY <1>0 DEF WireType, Wire
<1>d. /\ dq2 \in Seq(Packets)
      /\ \A j \in Ids, g \in Hids : Sends(dq2, j, g) => Sends(dq, j, g)
      /\ \A x \in Ids : (Asks(dq2, x) => Asks(dq, x)) /\ (AsksOnce(dq, x) => AsksOnce(dq2, x))
      /\ \A g \in Hids : Closes(dq2, g) => Closes(dq, g)
      /\ Silence(dq) => Silence(dq2)
  BY <1>q, ViewTaken DEF Ends
<1>f. FromDevice(dq2)
  BY <1>q, Taken, Shape DEF FromDevice
<1>t. WireType(sk, dq2, hq, ho, nx)
  BY <1>0, <1>d, <1>f DEF WireType
<1>3. \A j \in Ids, g \in Hids : Tie(sk, dq2, ho, j, g) => Tie(sk, dq, ho, j, g)
  BY <1>d DEF Tie
<1>4. Matched(sk, dq2, ho)
  <2>1. Matched(sk, dq, ho)
    BY <1>0 DEF Wire
  <2> QED BY <2>1, <1>3 DEF Matched
<1>5. ASSUME NEW g \in Hids PROVE HostSide(sk, dq2, hq, ho, g)
  <2>1. HostSide(sk, dq, hq, ho, g)
    BY <1>0 DEF Wire
  <2> QED BY <1>3, <1>d, <2>1 DEF HostSide
<1>6. ASSUME NEW j \in Ids PROVE DeviceSide(sk, dq2, ho, nx, j)
  <2>1. DeviceSide(sk, dq, ho, nx, j)
    BY <1>0 DEF Wire
  <2> QED BY <1>3, <1>d, <2>1 DEF DeviceSide
<1>8. Silence(dq2)
  BY <1>0, <1>d DEF Wire
<1>9. ASSUME NEW j \in Ids, NEW g \in Hids PROVE Credits(sk, dq2, hq, ho, j, g)
  <2>1. Credits(sk, dq, hq, ho, j, g)
    BY <1>0 DEF Wire
  <2>2. ASSUME Up(sk, ho, j, g)
        PROVE  Count(dq2, "WRTE", j, g) = Count(dq, "WRTE", j, g) /\ Count(dq2, "OKAY", j, g) = Count(dq, "OKAY", j, g)
    <3>1. Bool(Fits(Head(dq), "WRTE", j, g)) = 0 /\ Bool(Fits(Head(dq), "OKAY", j, g)) = 0
      BY <2>2 DEF Up, Fits, Bool
    <3> QED BY <3>1, <1>q, CountTaken
  <2> QED BY <2>1, <2>2 DEF Credits
<1> QED BY <1>0, <1>t, <1>4, <1>5, <1>6, <1>8, <1>9 DEF WireInv, Wire

\* The host accepts a stream that a client asked for.
LEMMA HostAccepts ==
  ASSUME NEW sk, NEW dq, NEW hq, NEW ho, NEW nx, WireInv(sk, dq, hq, ho, nx),
         NEW i \in Ids, dq # <<>>, Head(dq).cmd = "OPEN", Head(dq).arg0 = i,
         sk[i].st = "waiting" => R \notin sk[i].mask /\ sk[i].queue = <<>>,
         NEW h \in Hids, ho[h].st = "none",
         NEW r \in HostStreams, r.st = "open", r.id = i, r.ready, ~r.owes
  PROVE  WireInv(sk, Tail(dq), Append(hq, Pkt("OKAY", h, i, <<>>)), [ho EXCEPT ![h] = r], nx)
<1>0. WireType(sk, dq, hq, ho, nx) /\ Wire(sk, dq, hq, ho, nx)
  BY DEF WireInv
<1> DEFINE p == Pkt("OKAY", h, i, <<>>)
<1>p. p \in Packets /\ p.cmd = "OKAY" /\ p.arg0 = h /\ p.arg1 = i
  BY DEF Pkt, Packets, Cmds
<1> HIDE DEF p
<1> PICK dq2 : dq2 = Tail(dq)
  OBVIOUS
<1> PICK hq2 : hq2 = Append(hq, p)
  OBVIOUS
<1> PICK ho2 : ho2 = [ho EXCEPT ![h] = r]
  OBVIOUS
<1>q. /\ dq \in Seq(Packets) /\ FromDevice(dq)
      /\ hq \in Seq(Packets) /\ FromHost(hq) /\ Replies(sk, hq, ho)
  BY <1>0 DEF WireType, Wire
<1>1. \A g \in Hids : ho2[g] = IF g = h THEN r ELSE ho[g]
  BY <1>0 DEF WireType
<1>d. /\ dq2 \in Seq(Packets)
      /\ \A j \in Ids, g \in Hids : Sends(dq2, j, g) => Sends(dq, j, g)
      /\ \A x \in Ids : (Asks(dq2, x) => Asks(dq, x)) /\ (AsksOnce(dq, x) => AsksOnce(dq2, x))
      /\ AsksOnce(dq, i) => Asks(dq, i) /\ ~Asks(dq2, i)
      /\ \A g \in Hids : Closes(dq2, g) => Closes(dq, g)
      /\ Silence(dq) => Silence(dq2)
  BY <1>q, ViewTaken DEF Ends
<1>f. FromDevice(dq2)
  BY <1>q, Taken, Shape DEF FromDevice
<1>n. /\ ho[h] = Silent /\ ~Asks(hq, h) /\ ~Closes(dq, h)
      /\ \A j \in Ids : ~Tie(sk, dq, ho, j, h)
  BY <1>0 DEF Wire, HostSide
<1>a. /\ Asks(dq, i) /\ ~Asks(dq2, i) /\ sk[i].st \notin {"none", "smart"}
      /\ \A g \in Hids : ~Tie(sk, dq, ho, i, g)
  <2>1. DeviceSide(sk, dq, ho, nx, i)
    BY <1>0 DEF Wire
  <2> QED BY <2>1, <1>d DEF DeviceSide
<1>h. /\ hq2 \in Seq(Packets)
      /\ \A x \in Hids : (Asks(hq2, x) => Asks(hq, x)) /\ (AsksOnce(hq, x) => AsksOnce(hq2, x))
  BY <1>q, <1>p, ViewSent DEF Ends
<1>z. \A k \in DOMAIN hq : hq[k].cmd \in {"OKAY", "WRTE"} => hq[k].arg0 # h /\ hq[k].arg1 # i
  <2> SUFFICES ASSUME NEW k \in DOMAIN hq, hq[k].cmd \in {"OKAY", "WRTE"}
               PROVE  hq[k].arg0 # h /\ hq[k].arg1 # i
    OBVIOUS
  <2>1. hq[k].arg0 \in Hids /\ hq[k].arg1 \in Ids /\ ho[hq[k].arg0].id = hq[k].arg1
    BY <1>q DEF FromHost, Replies
  <2>2. Tie(sk, dq, ho, hq[k].arg1, hq[k].arg0)
    BY <2>1 DEF Tie
  <2> QED BY <2>1, <2>2, <1>n, <1>a
<1>r. Replies(sk, hq2, ho2) /\ FromHost(hq2)
  <2>1. Replies(sk, hq, ho2)
    <3>1. \A k \in DOMAIN hq : hq[k].cmd \in {"OKAY", "WRTE"} => ho2[hq[k].arg0].id = hq[k].arg1
      BY <1>z, <1>1, <1>q DEF FromHost, Replies
    <3> QED BY <3>1, <1>q DEF Replies
  <2>2. ho2[p.arg0].id = p.arg1
    BY <1>1, <1>p
  <2> QED BY <1>q, <1>p, <2>1, <2>2, RepliesSent
<1>t. WireType(sk, dq2, hq2, ho2, nx)
  BY <1>0, <1>d, <1>f, <1>h, <1>r DEF WireType
<1>3. \A j \in Ids, g \in Hids : Tie(sk, dq2, ho2, j, g) => Tie(sk, dq, ho, j, g) \/ (j = i /\ g = h)
  BY <1>1, <1>d DEF Tie
<1>4. Matched(sk, dq2, ho2)
  <2>1. Matched(sk, dq, ho)
    BY <1>0 DEF Wire
  <2>2. ASSUME NEW j \in Ids, NEW g \in Hids, NEW k \in Ids, NEW f \in Hids,
               Tie(sk, dq2, ho2, j, g), Tie(sk, dq2, ho2, k, f)
        PROVE  j = k <=> g = f
    <3>1. CASE Tie(sk, dq, ho, j, g) /\ Tie(sk, dq, ho, k, f)
      BY <2>1, <3>1 DEF Matched
    <3>2. CASE j = i /\ g = h
      BY <3>2, <2>2, <1>3, <1>n, <1>a
    <3>3. CASE k = i /\ f = h
      BY <3>3, <2>2, <1>3, <1>n, <1>a
    <3> QED BY <2>2, <3>1, <3>2, <3>3, <1>3
  <2> QED BY <2>2 DEF Matched
<1>5. ASSUME NEW g \in Hids PROVE HostSide(sk, dq2, hq2, ho2, g)
  <2>1. HostSide(sk, dq, hq, ho, g)
    BY <1>0 DEF Wire
  <2>2. CASE g = h
    <3>1. ho2[g] = r /\ i # 0 /\ ~Asks(hq2, g) /\ AsksOnce(hq2, g) /\ ~Closes(dq2, g)
      BY <2>1, <2>2, <1>1, <1>n, <1>d, <1>h DEF HostSide, Ids
    <3> QED BY <3>1 DEF HostSide
  <2>3. CASE g # h
    <3>1. ho2[g] = ho[g] /\ (Closes(dq2, g) => Closes(dq, g))
          /\ \A j \in Ids : Tie(sk, dq2, ho2, j, g) => Tie(sk, dq, ho, j, g)
      BY <2>3, <1>1, <1>3, <1>d
    <3> QED BY <2>1, <3>1, <1>h DEF HostSide
  <2> QED BY <2>2, <2>3
<1>6. ASSUME NEW j \in Ids PROVE DeviceSide(sk, dq2, ho2, nx, j)
  <2>1. DeviceSide(sk, dq, ho, nx, j)
    BY <1>0 DEF Wire
  <2>2. CASE j = i
    <3>1. ~Asks(dq2, j) /\ AsksOnce(dq2, j) /\ sk[j].st \notin {"none", "smart"}
      BY <2>1, <2>2, <1>a, <1>d DEF DeviceSide
    <3> QED BY <2>1, <3>1, <1>d DEF DeviceSide
  <2>3. CASE j # i
    <3>1. \A g \in Hids : Tie(sk, dq2, ho2, j, g) => Tie(sk, dq, ho, j, g)
      BY <2>3, <1>3
    <3> QED BY <2>1, <3>1, <1>d DEF DeviceSide
  <2> QED BY <2>2, <2>3
<1>8. Silence(dq2)
  BY <1>0, <1>d DEF Wire
<1>9. ASSUME NEW j \in Ids, NEW g \in Hids PROVE Credits(sk, dq2, hq2, ho2, j, g)
  <2>1. Credits(sk, dq, hq, ho, j, g)
    BY <1>0 DEF Wire
  <2>d. Count(dq2, "WRTE", j, g) = Count(dq, "WRTE", j, g) /\ Count(dq2, "OKAY", j, g) = Count(dq, "OKAY", j, g)
    <3>1. Bool(Fits(Head(dq), "WRTE", j, g)) = 0 /\ Bool(Fits(Head(dq), "OKAY", j, g)) = 0
      BY DEF Fits, Bool
    <3> QED BY <3>1, <1>q, CountTaken
  <2>2. CASE j = i /\ g = h
    <3>1. Count(hq, "WRTE", h, i) = 0 /\ Count(hq, "OKAY", h, i) = 0
      <4>1. \A k \in DOMAIN hq : ~Fits(hq[k], "WRTE", h, i) /\ ~Fits(hq[k], "OKAY", h, i)
        BY <1>z DEF Fits
      <4> QED BY <4>1, <1>q, CountSome
    <3>2. Count(dq, "WRTE", i, h) = 0 /\ Count(dq, "OKAY", i, h) = 0
      <4>1. \A k \in DOMAIN dq : ~Fits(dq[k], "WRTE", i, h) /\ ~Fits(dq[k], "OKAY", i, h)
        BY <1>n DEF Tie, Sends, Fits
      <4> QED BY <4>1, <1>q, CountSome
    <3>3. Count(hq2, "WRTE", h, i) = 0 /\ Count(hq2, "OKAY", h, i) = 1
      <4>1. Bool(Fits(p, "WRTE", h, i)) = 0 /\ Bool(Fits(p, "OKAY", h, i)) = 1
        BY <1>p DEF Fits, Bool
      <4> QED BY <3>1, <4>1, <1>q, <1>p, CountSent
    <3>4. Bool(ho2[h].owes) = 0 /\ Bool(ho2[h].ready) = 1
      BY <1>1 DEF Bool
    <3>5. Up(sk, ho2, i, h) => sk[i].st = "waiting"
      BY <1>n DEF Up, Tie
    <3>6. sk[i].st = "waiting" => Bool(R \in sk[i].mask) = 0 /\ Len(sk[i].queue) = 0
      BY DEF Bool
    <3> QED BY <2>2, <2>d, <3>2, <3>3, <3>4, <3>5, <3>6 DEF Credits
  <2>3. CASE ~(j = i /\ g = h)
    <3>1. Up(sk, ho2, j, g) => Up(sk, ho, j, g) /\ ho2[g] = ho[g]
      <4>1. Up(sk, ho2, j, g) => Tie(sk, dq2, ho2, j, g)
        BY DEF Up, Tie
      <4>2. g = h => ~Tie(sk, dq2, ho2, j, g)
        BY <1>3, <1>n, <2>3
      <4> QED BY <4>1, <4>2, <1>1 DEF Up
    <3>2. Count(hq2, "WRTE", g, j) = Count(hq, "WRTE", g, j) /\ Count(hq2, "OKAY", g, j) = Count(hq, "OKAY", g, j)
      <4>1. Bool(Fits(p, "WRTE", g, j)) = 0 /\ Bool(Fits(p, "OKAY", g, j)) = 0
        BY <1>p, <2>3 DEF Fits, Bool
      <4> QED BY <4>1, <1>q, <1>p, CountSent
    <3> QED BY <2>1, <2>d, <3>1, <3>2 DEF Credits
  <2> QED BY <2>2, <2>3
<1> QED BY <1>0, <1>t, <1>r, <1>4, <1>5, <1>6, <1>8, <1>9 DEF WireInv, Wire, p

\* The connection is lost with the packets on it, once the host has ended its
\* streams.
LEMMA Lose ==
  ASSUME NEW sk, NEW dq, NEW hq, NEW ho, NEW nx, WireInv(sk, dq, hq, ho, nx),
         \A h \in Hids : ho[h].st \notin {"opening", "open"},
         NEW n \in 0..Len(hq)
  PROVE  WireInv(sk, <<>>, SubSeq(hq, 1, n), ho, nx)
<1>0. WireType(sk, dq, hq, ho, nx) /\ Wire(sk, dq, hq, ho, nx)
  BY DEF WireInv
<1> PICK dq2 : dq2 = <<>>
  OBVIOUS
<1> PICK hq2 : hq2 = SubSeq(hq, 1, n)
  OBVIOUS
<1>q. /\ hq \in Seq(Packets) /\ FromHost(hq) /\ Replies(sk, hq, ho)
      /\ Len(hq) \in Nat /\ DOMAIN hq = 1..Len(hq)
  BY <1>0, Shape DEF WireType, Wire
<1>h. /\ hq2 \in Seq(Packets) /\ DOMAIN hq2 = 1..n
      /\ \A k \in 1..n : hq2[k] = hq[k] /\ k \in DOMAIN hq /\ 1..(k - 1) \subseteq 1..n
  <2>1. \A k \in 1..n : hq[k] \in Packets /\ k \in 1..Len(hq) /\ 1..(k - 1) \subseteq 1..n
    BY <1>q, Shape
  <2>2. n \in 1..Len(hq) \/ n = 0
    BY <1>q
  <2>3. hq2 \in Seq(Packets) /\ DOMAIN hq2 = 1..n /\ \A k \in 1..n : hq2[k] = hq[k]
    <3>1. CASE n = 0
      <4>1. hq2 = <<>>
        BY <3>1
      <4>2. 1..n = {}
        BY <3>1
      <4> QED BY <4>1, <4>2
    <3>2. CASE n \in 1..Len(hq)
      <4>1. n \in Nat /\ 1 <= n + 1 /\ n <= Len(hq) /\ 1 \in 1..(Len(hq) + 1)
        BY <3>2, <1>q
      <4>2. hq2 \in Seq(Packets) /\ Len(hq2) = n /\ \A k \in 1..n : hq2[k] = hq[1 + k - 1]
        BY <4>1, <1>q, SubSeqProperties
      <4>3. \A k \in 1..n : 1 + k - 1 = k
        BY <4>1
      <4> QED BY <4>2, <4>3, Shape
    <3> QED BY <3>1, <3>2, <2>2
  <2> QED BY <2>1, <2>3, <1>q
<1>d. /\ dq2 \in Seq(Packets) /\ FromDevice(dq2) /\ Silence(dq2)
      /\ \A j \in Ids, g \in Hids : ~Sends(dq2, j, g)
      /\ \A x \in Ids : ~Asks(dq2, x) /\ AsksOnce(dq2, x)
      /\ \A g \in Hids : ~Closes(dq2, g)
  <2>1. DOMAIN dq2 = {} /\ dq2 \in Seq(Packets)
    OBVIOUS
  <2> QED BY <2>1 DEF FromDevice, Silence, Sends, Asks, AsksOnce, Closes
<1>v. \A x \in Hids : (Asks(hq2, x) => Asks(hq, x)) /\ (AsksOnce(hq, x) => AsksOnce(hq2, x))
  <2>1. \A x, k : k \in DOMAIN hq2 => k \in DOMAIN hq /\ (AskedAt(hq2, k, x) <=> AskedAt(hq, k, x))
    BY ONLY <1>h DEF AskedAt
  <2> QED BY ONLY <2>1 DEF Asks, AsksOnce
<1>r. Replies(sk, hq2, ho) /\ FromHost(hq2)
  <2>1. FromHost(hq2)
    BY <1>q, <1>h DEF FromHost
  <2>2. ASSUME NEW k \in 1..n
        PROVE  /\ hq2[k].cmd \in {"OKAY", "WRTE"} => ho[hq2[k].arg0].id = hq2[k].arg1
               /\ hq2[k].cmd = "WRTE" /\ sk[hq2[k].arg1].st = "waiting" =>
                    \E m \in 1..(k - 1) : hq2[m].cmd = "OKAY" /\ hq2[m].arg0 = hq2[k].arg0 /\ hq2[m].arg1 = hq2[k].arg1
    <3>1. hq2[k] = hq[k] /\ k \in DOMAIN hq /\ \A m \in 1..(k - 1) : hq2[m] = hq[m]
      BY <1>h
    <3> QED BY <3>1, <1>q DEF Replies
  <2>3. Replies(sk, hq2, ho)
    BY <1>h, <2>2 DEF Replies
  <2> QED BY <2>1, <2>3
<1>t. WireType(sk, dq2, hq2, ho, nx)
  BY <1>0, <1>d, <1>h, <1>r DEF WireType
<1>3. \A j \in Ids, g \in Hids : Tie(sk, dq2, ho, j, g) => Tie(sk, dq, ho, j, g)
  BY <1>d DEF Tie
<1>4. Matched(sk, dq2, ho)
  <2>1. Matched(sk, dq, ho)
    BY <1>0 DEF Wire
  <2> QED BY <2>1, <1>3 DEF Matched
<1>5. ASSUME NEW g \in Hids PROVE HostSide(sk, dq2, hq2, ho, g)
  <2>1. HostSide(sk, dq, hq, ho, g)
    BY <1>0 DEF Wire
  <2> QED BY <1>3, <1>d, <1>v, <2>1 DEF HostSide
<1>6. ASSUME NEW j \in Ids PROVE DeviceSide(sk, dq2, ho, nx, j)
  <2>1. DeviceSide(sk, dq, ho, nx, j)
    BY <1>0 DEF Wire
  <2> QED BY <1>3, <1>d, <2>1 DEF DeviceSide
<1>9. ASSUME NEW j \in Ids, NEW g \in Hids PROVE Credits(sk, dq2, hq2, ho, j, g)
  BY DEF Credits, Up
<1> QED BY <1>0, <1>t, <1>r, <1>d, <1>4, <1>5, <1>6, <1>9 DEF WireInv, Wire

-----------------------------------------------------------------------------
(* FlattenSeq, by its recursion.                                           *)

\* f[k] joins the first k sequences of q, for k up to n.
Joins(S, q, n, f) ==
  /\ f \in [1..n -> Seq(S)]
  /\ f[1] = q[1]
  /\ \A k \in 2..n : f[k] = f[k - 1] \o q[k]

\* The function by which FlattenSeq joins sequences exists, up to every length.
LEMMA JoinExists ==
  ASSUME NEW S, NEW q \in Seq(Seq(S)), NEW n \in 1..Len(q)
  PROVE  \E f : Joins(S, q, n, f)
<1>0. Len(q) \in Nat /\ \A k \in 1..Len(q) : q[k] \in Seq(S)
  BY Shape
<1> DEFINE T == {m \in 1..Len(q) : ~\E f : Joins(S, q, m, f)}
<1> SUFFICES ASSUME T # {} PROVE FALSE
  OBVIOUS
<1>1. PICK m \in T : \A y \in T : m <= y
  <2>1. T \subseteq Nat
    BY <1>0
  <2> HIDE DEF T
  <2> QED BY <2>1, LeastElement
<1>2. m # 1
  <2>1. Joins(S, q, 1, [k \in 1..1 |-> q[1]])
    BY <1>0 DEF Joins
  <2> QED BY <2>1, <1>1
<1>3. m \in Nat /\ m - 1 \in 1..Len(q) /\ m \in 1..Len(q) /\ m - 1 \notin T
  <2>1. m \in Nat /\ m - 1 \in 1..Len(q) /\ m \in 1..Len(q) /\ ~(m <= m - 1)
    BY <1>0, <1>1, <1>2
  <2> HIDE DEF T
  <2> QED BY <2>1, <1>1
<1>4. PICK f : Joins(S, q, m - 1, f)
  BY <1>3
<1> DEFINE e == f[m - 1] \o q[m]
           g == [k \in 1..m |-> IF k = m THEN e ELSE f[k]]
<1>5. /\ f \in [1..(m - 1) -> Seq(S)] /\ f[1] = q[1]
      /\ \A k \in 2..(m - 1) : f[k] = f[k - 1] \o q[k]
  BY <1>4 DEF Joins
<1>6. e \in Seq(S)
  <2>1. f[m - 1] \in Seq(S) /\ q[m] \in Seq(S)
    BY <1>0, <1>3, <1>5
  <2> QED BY <2>1, ConcatProperties
<1> HIDE DEF e
<1>7. g \in [1..m -> Seq(S)] /\ g[1] = q[1]
  BY <1>2, <1>3, <1>5, <1>6
<1>8. ASSUME NEW k \in 2..m PROVE g[k] = g[k - 1] \o q[k]
  <2>1. CASE k = m
    <3>1. g[k] = e /\ g[k - 1] = f[m - 1]
      BY <1>3, <2>1
    <3> QED BY <2>1, <3>1 DEF e
  <2>2. CASE k # m
    <3>1. g[k] = f[k] /\ g[k - 1] = f[k - 1] /\ k \in 2..(m - 1)
      BY <1>3, <2>2
    <3> QED BY <1>5, <3>1
  <2> QED BY <2>1, <2>2
<1>9. Joins(S, q, m, g)
  BY <1>7, <1>8 DEF Joins
<1> QED BY <1>1, <1>9

\* FlattenSeq is the last of them.
LEMMA Flattened ==
  ASSUME NEW S, NEW q \in Seq(Seq(S)), q # <<>>
  PROVE  \E f : Joins(S, q, Len(q), f) /\ FlattenSeq(q) = f[Len(q)]
<1> DEFINE n == Len(q)
           F(f) == [i \in 1..n |-> IF i = 1 THEN q[i] ELSE f[i - 1] \o q[i]]
           f == CHOOSE f : f = F(f)
<1>0. n \in Nat /\ n # 0 /\ n \in 1..n /\ \A k \in 1..n : q[k] \in Seq(S)
  BY Shape
<1>1. PICK g : Joins(S, q, n, g)
  BY <1>0, JoinExists
<1>2. g = F(g)
  <2>1. g \in [1..n -> Seq(S)] /\ g[1] = q[1] /\ \A k \in 2..n : g[k] = g[k - 1] \o q[k]
    BY <1>1 DEF Joins
  <2>2. ASSUME NEW k \in 1..n PROVE g[k] = F(g)[k]
    <3>1. CASE k = 1
      BY <2>1, <3>1
    <3>2. CASE k # 1
      <4>1. k \in 2..n
        BY <1>0, <3>2
      <4> QED BY <2>1, <3>2, <4>1, Zenon
    <3> QED BY <3>1, <3>2
  <2> HIDE DEF n
  <2> QED BY <2>1, <2>2
<1>3. f = F(f)
  BY <1>2, Zenon
<1>4. FlattenSeq(q) = f[n]
  BY <1>0 DEF FlattenSeq
<1> HIDE DEF n
<1>5. f[1] = q[1] /\ \A k \in 2..n : f[k] = f[k - 1] \o q[k]
  <2> HIDE DEF f
  <2>1. 1 \in 1..n
    BY <1>0
  <2>2. F(f)[1] = q[1]
    BY <2>1
  <2>3. ASSUME NEW k \in 2..n PROVE F(f)[k] = f[k - 1] \o q[k]
    <3>1. k \in 1..n /\ k # 1
      BY <1>0
    <3> QED BY <3>1
  <2> HIDE DEF F
  <2> QED BY <1>3, <2>2, <2>3
<1>6. f = [k \in 1..n |-> f[k]]
  <2> HIDE DEF f
  <2>1. F(f) = [k \in 1..n |-> F(f)[k]]
    OBVIOUS
  <2> HIDE DEF F
  <2> QED BY ONLY <1>3, <2>1
<1> HIDE DEF f, F
<1>7. \A k \in 1..n : f[k] \in Seq(S)
  <2> DEFINE T == {k \in 1..n : f[k] \notin Seq(S)}
  <2> SUFFICES ASSUME T # {} PROVE FALSE
    OBVIOUS
  <2>1. PICK m \in T : \A y \in T : m <= y
    <3>1. T \subseteq Nat
      BY <1>0
    <3> HIDE DEF T
    <3> QED BY <3>1, LeastElement
  <2>2. m # 1
    BY <1>0, <1>5, <2>1
  <2>3. m - 1 \in 1..n /\ m - 1 \notin T /\ m \in 2..n
    BY <1>0, <2>1, <2>2
  <2>4. f[m - 1] \in Seq(S) /\ q[m] \in Seq(S)
    BY <1>0, <2>1, <2>3
  <2>5. f[m - 1] \o q[m] \in Seq(S)
    BY <2>4, ConcatProperties
  <2> QED BY <1>5, <2>1, <2>3, <2>5
<1>8. Joins(S, q, n, f)
  BY <1>5, <1>6, <1>7 DEF Joins
<1> QED BY <1>4, <1>8 DEF n

\* Sequences of bytes, joined, are a sequence of bytes.
LEMMA FlattenType ==
  ASSUME NEW S, NEW q \in Seq(Seq(S))
  PROVE  FlattenSeq(q) \in Seq(S)
<1>1. CASE q = <<>>
  <2>1. Len(q) = 0
    BY <1>1
  <2>2. FlattenSeq(q) = q
    BY <2>1 DEF FlattenSeq
  <2> QED BY <1>1, <2>2, EmptySeq
<1>2. CASE q # <<>>
  <2>1. PICK f : Joins(S, q, Len(q), f) /\ FlattenSeq(q) = f[Len(q)]
    BY <1>2, Flattened
  <2>2. Len(q) \in 1..Len(q)
    BY <1>2, Shape
  <2> QED BY <2>1, <2>2 DEF Joins
<1> QED BY <1>1, <1>2

-----------------------------------------------------------------------------
(* A local socket, by itself.                                              *)

\* Sockets that are linked before and after.
Stays(s, t) == s.st = "open" /\ s.peer \in Hids /\ t.st = "open" /\ t.peer = s.peer

\* What the functions of a local socket s do to it, and what they send: nothing
\* that the host can see; part of the queue, or all of it, is written; data is
\* read; a linked socket closes; a client's request is good.
Moves(i, s, t, pk) ==
  \/ pk = <<>> /\ (Alike(s, t) \/ Off(s, t))
  \/ /\ pk = <<>>
     /\ Stays(s, t) /\ (R \in t.mask <=> R \in s.mask) /\ s.queue # <<>> /\ Len(t.queue) = 1
  \/ /\ pk = <<Pkt("OKAY", i, s.peer, <<>>)>>
     /\ Stays(s, t) /\ (R \in t.mask <=> R \in s.mask) /\ s.queue # <<>> /\ Len(t.queue) = 0
  \/ /\ \E data \in Seq(Nat) : pk = <<Pkt("WRTE", i, s.peer, data)>>
     /\ Stays(s, t) /\ R \in s.mask /\ R \notin t.mask /\ t.queue = s.queue
  \/ /\ pk = <<Pkt("CLSE", 0, s.peer, <<>>)>>
     /\ s.st = "open" /\ s.peer \in Hids /\ t.st \in {"closing", "gone"}
  \/ /\ pk = <<Pkt("OPEN", i, 0, <<>>)>>
     /\ s.st = "smart" /\ t.st = "waiting"

\* A local socket that moves, with the packets it sends, leaves the wire in step.
LEMMA Moved ==
  ASSUME NEW sk, NEW dq, NEW hq, NEW ho, NEW nx, WireInv(sk, dq, hq, ho, nx),
         NEW i \in Ids, NEW t \in LocalSockets, NEW pk, Moves(i, sk[i], t, pk)
  PROVE  WireInv([sk EXCEPT ![i] = t], dq \o pk, hq, ho, nx)
<1>0. WireType(sk, dq, hq, ho, nx) /\ Wire(sk, dq, hq, ho, nx)
  BY DEF WireInv
<1> PICK s : s = sk[i]
  OBVIOUS
<1> PICK sk2 : sk2 = [sk EXCEPT ![i] = t]
  OBVIOUS
<1>1. dq \in Seq(Packets) /\ sk \in [Ids -> LocalSockets] /\ s \in LocalSockets
  BY <1>0 DEF WireType
<1>2. sk2 \in [Ids -> LocalSockets] /\ \A j \in Ids : sk2[j] = IF j = i THEN t ELSE sk[j]
  BY <1>1
<1>e. dq \o <<>> = dq /\ \A p \in Packets : dq \o <<p>> = Append(dq, p)
  BY <1>1, ConcatEmptySeq, AppendIsConcat
<1>q. Len(s.queue) \in Nat /\ Len(t.queue) \in Nat /\ (s.queue = <<>> <=> Len(s.queue) = 0)
  BY <1>1, Shape DEF LocalSockets
<1>p. \A a, b \in Ends, data \in Seq(Nat), c \in Cmds :
        LET p == Pkt(c, a, b, data)
        IN  p \in Packets /\ p.cmd = c /\ p.arg0 = a /\ p.arg1 = b
  BY DEF Pkt, Packets, Ends
<1>c. ASSUME NEW h \in Hids, NEW dq2, Stays(s, t), s.peer = h,
             dq2 = dq \/ \E p \in Packets : /\ p.cmd \in {"OKAY", "WRTE"} /\ p.arg0 = i /\ p.arg1 = h
                                            /\ dq2 = Append(dq, p),
             ASSUME Up(sk, ho, i, h)
             PROVE  /\ Bool(R \in t.mask) + Count(dq2, "WRTE", i, h) = Bool(R \in s.mask) + Count(dq, "WRTE", i, h)
                    /\ Len(t.queue) + Count(dq2, "OKAY", i, h) = Len(s.queue) + Count(dq, "OKAY", i, h)
      PROVE  WireInv(sk2, dq2, hq, ho, nx)
  <2>1. Linked(sk, i, h) /\ t.st = "open" /\ t.peer = h
    BY <1>c DEF Linked, Stays
  <2>2. Credits(sk2, dq2, hq, ho, i, h)
    <3>1. Up(sk2, ho, i, h) => Up(sk, ho, i, h)
      BY <2>1 DEF Up
    <3>2. Credits(sk, dq, hq, ho, i, h)
      BY <1>0 DEF Wire
    <3>3. ASSUME Up(sk, ho, i, h)
          PROVE  /\ Bool(R \in s.mask) + Count(dq, "WRTE", i, h) + Bool(ho[h].owes) + Count(hq, "OKAY", h, i) = 1
                 /\ Bool(ho[h].ready) + Count(hq, "WRTE", h, i) + Len(s.queue) + Count(dq, "OKAY", i, h) = 1
      BY <3>2, <3>3 DEF Credits
    <3>4. dq2 \in Seq(Packets) /\ hq \in Seq(Packets)
      <4>1. hq \in Seq(Packets)
        BY <1>0 DEF WireType
      <4>2. dq2 = dq \/ \E p \in Packets : dq2 = Append(dq, p)
        BY <1>c
      <4>3. dq2 \in Seq(Packets)
        BY ONLY <1>1, <4>2
      <4> QED BY <4>1, <4>3
    <3>5. /\ Count(dq2, "WRTE", i, h) \in Nat /\ Count(dq2, "OKAY", i, h) \in Nat
          /\ Count(dq, "WRTE", i, h) \in Nat /\ Count(dq, "OKAY", i, h) \in Nat
          /\ Count(hq, "WRTE", h, i) \in Nat /\ Count(hq, "OKAY", h, i) \in Nat
      BY <1>1, <3>4, CountSome
    <3>6. /\ Bool(ho[h].owes) \in Nat /\ Bool(ho[h].ready) \in Nat
          /\ Bool(R \in s.mask) \in Nat /\ Bool(R \in t.mask) \in Nat
      BY DEF Bool
    <3>7. ASSUME Up(sk, ho, i, h)
          PROVE  /\ Bool(R \in t.mask) + Count(dq2, "WRTE", i, h) + Bool(ho[h].owes) + Count(hq, "OKAY", h, i) = 1
                 /\ Bool(ho[h].ready) + Count(hq, "WRTE", h, i) + Len(t.queue) + Count(dq2, "OKAY", i, h) = 1
      <4>1. /\ Bool(R \in t.mask) + Count(dq2, "WRTE", i, h) = Bool(R \in s.mask) + Count(dq, "WRTE", i, h)
            /\ Len(t.queue) + Count(dq2, "OKAY", i, h) = Len(s.queue) + Count(dq, "OKAY", i, h)
        BY <1>c, <3>7
      <4>2. /\ Bool(R \in s.mask) + Count(dq, "WRTE", i, h) + Bool(ho[h].owes) + Count(hq, "OKAY", h, i) = 1
            /\ Bool(ho[h].ready) + Count(hq, "WRTE", h, i) + Len(s.queue) + Count(dq, "OKAY", i, h) = 1
        BY <3>3, <3>7
      <4>3. Bool(R \in t.mask) + Count(dq2, "WRTE", i, h) + Bool(ho[h].owes) + Count(hq, "OKAY", h, i) = 1
        BY <4>1, <4>2, <3>5, <3>6
      <4>4. Bool(ho[h].ready) + Count(hq, "WRTE", h, i) + Len(t.queue) + Count(dq2, "OKAY", i, h) = 1
        <5>1. PICK k \in Nat, l \in Nat : k = Len(s.queue) /\ l = Len(t.queue)
          BY <1>q
        <5>2. l + Count(dq2, "OKAY", i, h) = k + Count(dq, "OKAY", i, h)
          BY <4>1, <5>1
        <5>3. Bool(ho[h].ready) + Count(hq, "WRTE", h, i) + k + Count(dq, "OKAY", i, h) = 1
          BY <4>2, <5>1
        <5>4. Bool(ho[h].ready) + Count(hq, "WRTE", h, i) + l + Count(dq2, "OKAY", i, h) = 1
          BY <5>2, <5>3, <3>5, <3>6
        <5> QED BY <5>1, <5>4
      <4> QED BY <4>3, <4>4
    <3>8. sk2[i] = t
      BY <1>2
    <3> QED BY <3>1, <3>7, <3>8 DEF Credits
  <2> QED BY <1>c, <2>1, <2>2, Exchange
<1>n. ASSUME NEW h \in Hids, Up(sk, ho, i, h), s.queue # <<>>
      PROVE  Len(s.queue) = 1
  <2>1. Bool(ho[h].ready) + Count(hq, "WRTE", h, i) + Len(s.queue) + Count(dq, "OKAY", i, h) = 1
    BY <1>0, <1>n DEF Wire, Credits
  <2>2. /\ Count(hq, "WRTE", h, i) \in Nat /\ Count(dq, "OKAY", i, h) \in Nat
        /\ Bool(ho[h].ready) \in Nat
    BY <1>0, CountSome DEF WireType, Bool
  <2>3. Len(s.queue) # 0
    BY <1>q, <1>n
  <2>4. PICK k \in Nat : k = Len(s.queue)
    BY <1>q
  <2>5. Bool(ho[h].ready) + Count(hq, "WRTE", h, i) + k + Count(dq, "OKAY", i, h) = 1 /\ k # 0
    BY <2>1, <2>3, <2>4
  <2>6. k = 1
    BY <2>2, <2>5
  <2> QED BY <2>4, <2>6
<1>3. CASE pk = <<>> /\ (Alike(s, t) \/ Off(s, t))
  <2>1. \A j \in Ids : Alike(sk[j], sk2[j]) \/ Off(sk[j], sk2[j])
    BY <1>2, <1>3 DEF Alike
  <2> QED BY <1>2, <1>3, <1>e, <2>1, Settle
<1>4. CASE /\ pk = <<>>
           /\ Stays(s, t) /\ (R \in t.mask <=> R \in s.mask) /\ s.queue # <<>> /\ Len(t.queue) = 1
  <2>1. PICK h \in Hids : s.peer = h
    BY <1>4 DEF Stays
  <2>2. Bool(R \in t.mask) = Bool(R \in s.mask)
    BY <1>4 DEF Bool
  <2>3. Up(sk, ho, i, h) => Len(s.queue) = Len(t.queue)
    BY <1>4, <1>n
  <2>4. WireInv(sk2, dq, hq, ho, nx)
    BY <2>1, <2>2, <2>3, <1>4, <1>c, Zenon
  <2> QED BY <2>4, <1>4, <1>e
<1>5. CASE /\ pk = <<Pkt("OKAY", i, s.peer, <<>>)>>
           /\ Stays(s, t) /\ (R \in t.mask <=> R \in s.mask) /\ s.queue # <<>> /\ Len(t.queue) = 0
  <2>1. PICK h \in Hids : s.peer = h
    BY <1>5 DEF Stays
  <2> DEFINE p == Pkt("OKAY", i, h, <<>>)
  <2>2. p \in Packets /\ p.cmd = "OKAY" /\ p.arg0 = i /\ p.arg1 = h
    BY DEF Pkt, Packets, Cmds
  <2> HIDE DEF p
  <2>3. Bool(R \in t.mask) = Bool(R \in s.mask)
    BY <1>5 DEF Bool
  <2>4. /\ Count(Append(dq, p), "OKAY", i, h) = Count(dq, "OKAY", i, h) + 1
        /\ Count(Append(dq, p), "WRTE", i, h) = Count(dq, "WRTE", i, h)
        /\ Count(dq, "OKAY", i, h) \in Nat
    <3>1. Bool(Fits(p, "OKAY", i, h)) = 1 /\ Bool(Fits(p, "WRTE", i, h)) = 0
      BY <2>2 DEF Fits, Bool
    <3> QED BY <2>2, <3>1, <1>1, CountSent
  <2>5. ASSUME Up(sk, ho, i, h)
        PROVE  Len(t.queue) + Count(Append(dq, p), "OKAY", i, h) = Len(s.queue) + Count(dq, "OKAY", i, h)
    <3>1. Len(s.queue) = 1 /\ Len(t.queue) = 0
      BY <1>5, <1>n, <2>5
    <3> QED BY <3>1, <2>4
  <2>6. WireInv(sk2, Append(dq, p), hq, ho, nx)
    <3>1. Stays(s, t) /\ \E x \in Packets : /\ x.cmd \in {"OKAY", "WRTE"} /\ x.arg0 = i /\ x.arg1 = h
                                           /\ Append(dq, p) = Append(dq, x)
      BY <1>5, <2>2
    <3> QED BY <2>1, <2>3, <2>4, <2>5, <3>1, <1>c, Zenon
  <2>7. pk = <<p>>
    BY <1>5, <2>1 DEF p
  <2> QED BY <2>2, <2>6, <2>7, <1>e
<1>6. CASE /\ \E data \in Seq(Nat) : pk = <<Pkt("WRTE", i, s.peer, data)>>
           /\ Stays(s, t) /\ R \in s.mask /\ R \notin t.mask /\ t.queue = s.queue
  <2>1. PICK h \in Hids : s.peer = h
    BY <1>6 DEF Stays
  <2>0. PICK data \in Seq(Nat) : pk = <<Pkt("WRTE", i, s.peer, data)>>
    BY <1>6
  <2> DEFINE p == Pkt("WRTE", i, h, data)
  <2>2. p \in Packets /\ p.cmd = "WRTE" /\ p.arg0 = i /\ p.arg1 = h
    BY DEF Pkt, Packets, Cmds
  <2> HIDE DEF p
  <2>3. Bool(R \in t.mask) = 0 /\ Bool(R \in s.mask) = 1
    BY <1>6 DEF Bool
  <2>4. /\ Count(Append(dq, p), "OKAY", i, h) = Count(dq, "OKAY", i, h)
        /\ Count(Append(dq, p), "WRTE", i, h) = Count(dq, "WRTE", i, h) + 1
        /\ Count(dq, "WRTE", i, h) \in Nat
    <3>1. Bool(Fits(p, "OKAY", i, h)) = 0 /\ Bool(Fits(p, "WRTE", i, h)) = 1
      BY <2>2 DEF Fits, Bool
    <3> QED BY <2>2, <3>1, <1>1, CountSent
  <2>5. /\ Bool(R \in t.mask) + Count(Append(dq, p), "WRTE", i, h) = Bool(R \in s.mask) + Count(dq, "WRTE", i, h)
        /\ Len(t.queue) + Count(Append(dq, p), "OKAY", i, h) = Len(s.queue) + Count(dq, "OKAY", i, h)
    BY <2>3, <2>4, <1>6
  <2>6. WireInv(sk2, Append(dq, p), hq, ho, nx)
    <3>1. Stays(s, t) /\ \E x \in Packets : /\ x.cmd \in {"OKAY", "WRTE"} /\ x.arg0 = i /\ x.arg1 = h
                                           /\ Append(dq, p) = Append(dq, x)
      BY <1>6, <2>2
    <3> QED BY <2>1, <2>5, <3>1, <1>c, Zenon
  <2>7. pk = <<p>>
    BY <2>0, <2>1 DEF p
  <2> QED BY <2>2, <2>6, <2>7, <1>e
<1>7. CASE /\ pk = <<Pkt("CLSE", 0, s.peer, <<>>)>>
           /\ s.st = "open" /\ s.peer \in Hids /\ t.st \in {"closing", "gone"}
  <2>1. PICK h \in Hids : s.peer = h
    BY <1>7
  <2>2. Linked(sk, i, h)
    BY <1>7, <2>1 DEF Linked
  <2>3. WireInv(sk2, Append(dq, Pkt("CLSE", 0, h, <<>>)), hq, ho, nx)
    BY <1>7, <2>2, SendClose
  <2>4. Pkt("CLSE", 0, h, <<>>) \in Packets
    BY DEF Pkt, Packets, Cmds
  <2> QED BY <1>7, <2>1, <2>3, <2>4, <1>e
<1>8. CASE /\ pk = <<Pkt("OPEN", i, 0, <<>>)>>
           /\ s.st = "smart" /\ t.st = "waiting"
  <2>3. WireInv(sk2, Append(dq, Pkt("OPEN", i, 0, <<>>)), hq, ho, nx)
    BY <1>8, Ask
  <2>4. Pkt("OPEN", i, 0, <<>>) \in Packets
    BY DEF Pkt, Packets, Cmds
  <2> QED BY <1>8, <2>3, <2>4, <1>e
<1> QED BY <1>3, <1>4, <1>5, <1>6, <1>7, <1>8 DEF Moves

\* Packets that a socket sends.
LEMMA MovesType ==
  ASSUME NEW i \in Ids, NEW s, NEW t, NEW pk, Moves(i, s, t, pk)
  PROVE  pk \in Seq(Packets) /\ \A k \in DOMAIN pk : pk[k].cmd # "CNXN"
<1>1. <<>> \in Seq(Packets) /\ DOMAIN <<>> = {}
  OBVIOUS
<1>2. \A p \in Packets : p.cmd # "CNXN" => <<p>> \in Seq(Packets) /\ \A k \in DOMAIN <<p>> : <<p>>[k].cmd # "CNXN"
  OBVIOUS
<1>3. ASSUME NEW a \in Ends, NEW b \in Ends, NEW data \in Seq(Nat),
             NEW c \in {"OKAY", "WRTE", "CLSE", "OPEN"}
      PROVE  Pkt(c, a, b, data) \in Packets /\ Pkt(c, a, b, data).cmd # "CNXN"
  BY DEF Pkt, Packets, Ends, Cmds
<1>4. i \in Ends /\ 0 \in Ends /\ Hids \subseteq Ends /\ <<>> \in Seq(Nat)
  BY DEF Ends
<1>5. CASE pk = <<>>
  BY <1>1, <1>5
<1>6. CASE pk # <<>>
  <2>1. PICK a \in Ends, b \in Ends, data \in Seq(Nat), c \in {"OKAY", "WRTE", "CLSE", "OPEN"} :
          pk = <<Pkt(c, a, b, data)>>
    BY <1>4, <1>6 DEF Moves, Stays
  <2> QED BY <2>1, <1>2, <1>3
<1> QED BY <1>5, <1>6

\* Fewer pending events are as good.
LEMMA WatchedLess ==
  ASSUME NEW s, NEW b, Watched(s, b), NEW c, c \subseteq b
  PROVE  Watched(s, c)
BY DEF Watched

\* Sockets that are not there.
LEMMA Blank ==
  /\ Unused \in LocalSockets /\ Unused.st = "none" /\ Unused.peer = None
  /\ Unused.queue = <<>> /\ Unused.mask = {}
  /\ Gone \in LocalSockets /\ Gone.st = "gone" /\ Gone.peer = None
  /\ Gone.queue = <<>> /\ Gone.mask = {}
<1>1. <<>> \in Seq(Seq(Nat))
  BY EmptySeq
<1>2. /\ Unused \in LocalSockets /\ Unused.st = "none" /\ Unused.peer = None
      /\ Unused.queue = <<>> /\ Unused.mask = {}
  BY <1>1 DEF Unused, LocalSockets
<1> QED BY <1>2 DEF Gone, LocalSockets

\* local_socket_close and remote_socket_close.
LEMMA Closing ==
  ASSUME NEW i \in Ids, NEW s \in LocalSockets, NEW b, Watched(s, b),
         s.st \in {"smart", "waiting", "open", "closing"}
  PROVE  LET t == local_socket_close(s) IN
         /\ t \in LocalSockets /\ t.st \in {"closing", "gone"}
         /\ Moves(i, s, t, remote_socket_close(s))
         /\ Watched(t, IF t.st = "gone" THEN {} ELSE b)
<1> DEFINE t == local_socket_close(s)
<1>0. Gone \in LocalSockets /\ Gone.st = "gone" /\ Gone.peer = None /\ Gone.queue = <<>> /\ Gone.mask = {}
  BY Blank
<1>1. CASE s.st = "closing" \/ s.queue = <<>>
  <2>1. t = Gone
    BY <1>1 DEF local_socket_close
  <2>2. Watched(Gone, {})
    BY <1>0 DEF Watched
  <2>3. Moves(i, s, Gone, remote_socket_close(s))
    <3>1. CASE s.st = "open"
      <4>1. s.peer \in Hids
        BY <3>1 DEF Watched, LocalSockets
      <4> QED BY <3>1, <4>1, <1>0 DEF Moves, remote_socket_close
    <3>2. CASE s.st # "open"
      BY <3>2, <1>0 DEF Moves, remote_socket_close, Off
    <3> QED BY <3>1, <3>2
  <2> HIDE DEF t
  <2> QED BY <2>1, <2>2, <2>3, <1>0 DEF t
<1>2. CASE ~(s.st = "closing" \/ s.queue = <<>>)
  <2>1. t = [s EXCEPT !.st = "closing", !.peer = None, !.mask = @ \ {R}]
    BY <1>2 DEF local_socket_close
  <2>2. /\ t \in LocalSockets /\ t.st = "closing" /\ t.peer = None /\ t.queue = s.queue
        /\ t.mask = s.mask \ {R}
    BY <2>1 DEF LocalSockets
  <2> HIDE DEF t
  <2>3. s.st = "open" /\ s.peer \in Hids /\ W \in s.mask
    BY <1>2 DEF Watched, LocalSockets
  <2>4. Moves(i, s, t, remote_socket_close(s))
    BY <2>2, <2>3 DEF Moves, remote_socket_close
  <2>5. Watched(t, b)
    <3>1. W \in t.mask /\ R \notin t.mask
      BY <2>2, <2>3 DEF R, W
    <3> QED BY <1>2, <2>2, <3>1 DEF Watched
  <2> QED BY <2>2, <2>4, <2>5 DEF t
<1> QED BY <1>1, <1>2

\* How much is written, and what is left.
LEMMA Written ==
  ASSUME prog \in [Ids -> Programs], NEW i \in Ids, NEW data \in Seq(Nat)
  PROVE  LET n == adb_write(i, data) IN
         /\ n \in 0..Len(data) /\ n <= room(i) /\ room(i) \in 0..FdCap
         /\ SubSeq(data, 1, n) \in Seq(Nat) /\ Len(SubSeq(data, 1, n)) = n
         /\ rest(data, n) \in Seq(Nat)
<1> DEFINE n == adb_write(i, data)
<1>1. Len(data) \in Nat /\ \A k \in 1..Len(data) : data[k] \in Nat
  BY Shape
<1>2. prog[i].unread \in 0..FdCap /\ FdCap \in Nat
  BY SocketsAssumption DEF Programs
<1>3. room(i) \in 0..FdCap
  BY <1>2 DEF room
<1>4. n \in 0..Len(data) /\ n <= room(i)
  BY <1>1, <1>2, <1>3 DEF adb_write, Smaller
<1> HIDE DEF n
<1>5. \A k \in 1..n : data[k] \in Nat
  BY <1>1, <1>4
<1>6. \A k \in (n + 1)..Len(data) : data[k] \in Nat
  BY <1>1, <1>4
<1>7. 1 \in Int /\ n \in Int /\ n + 1 \in Int /\ Len(data) \in Int
  BY <1>1, <1>4
<1>8. SubSeq(data, 1, n) \in Seq(Nat) /\ Len(SubSeq(data, 1, n)) = IF 1 <= n THEN n - 1 + 1 ELSE 0
  BY <1>5, <1>7, SubSeqProperties
<1>9. Len(SubSeq(data, 1, n)) = n
  BY <1>4, <1>8
<1>10. rest(data, n) \in Seq(Nat)
  BY <1>6, <1>7, SubSeqProperties DEF rest
<1> QED BY <1>3, <1>4, <1>8, <1>9, <1>10 DEF n

\* local_socket_event_func on FDE_WRITE.
LEMMA WriteEvent ==
  ASSUME TypeOK, Local, NEW i \in Ids, W \in batch[i]
  PROVE  LET s == sock[i]
             w == event_write(i)
         IN  /\ s.st \in {"open", "closing"}
             /\ w.s \in LocalSockets /\ w.s.st \in {"open", "closing", "gone"}
             /\ Moves(i, s, w.s, w.pkts)
             /\ Watched(w.s, IF w.ret THEN {} ELSE batch[i] \ {W})
             /\ w.wrote \in Seq(Nat) /\ Len(w.wrote) <= room(i)
             /\ w.took = 0 /\ w.told = <<>> /\ w.why \in Whys
             /\ w.ret \in BOOLEAN /\ (~w.ret => w.s.st = "open")
<1> DEFINE w == event_write(i)
           b == batch[i]
<1> PICK s : s = sock[i]
  OBVIOUS
<1> PICK all : all = FlattenSeq(s.queue)
  OBVIOUS
<1> PICK n : n = adb_write(i, all)
  OBVIOUS
<1>1. s \in LocalSockets /\ Watched(s, b) /\ prog \in [Ids -> Programs]
  BY DEF TypeOK, Local
<1>2. W \in s.mask /\ s.queue # <<>> /\ s.st \in {"open", "closing"} /\ (s.st = "open" => s.peer \in Hids)
  BY <1>1 DEF Watched, LocalSockets
<1>3. all \in Seq(Nat)
  BY <1>1, FlattenType DEF LocalSockets
<1>4. /\ n \in 0..Len(all) /\ n <= room(i) /\ room(i) \in 0..FdCap /\ Len(all) \in Nat
      /\ SubSeq(all, 1, n) \in Seq(Nat) /\ Len(SubSeq(all, 1, n)) = n
      /\ rest(all, n) \in Seq(Nat)
  BY <1>1, <1>3, Written, Shape
<1>5. CASE Broken(i)
  <2>1. w = Closed(s, "error")
    BY <1>2, <1>5 DEF event_write
  <2>2. /\ w.s = local_socket_close(s) /\ w.pkts = remote_socket_close(s) /\ w.wrote = <<>>
        /\ w.took = 0 /\ w.told = <<>> /\ w.why = "error" /\ w.ret = TRUE
    <3>1. close_told(s) = <<>>
      BY <1>2 DEF close_told
    <3> HIDE DEF w
    <3>2. PICK c, p, d : c = local_socket_close(s) /\ p = remote_socket_close(s) /\ d = close_told(s)
      OBVIOUS
    <3>3. w = [Nothing(s) EXCEPT !.s = c, !.pkts = p, !.told = d, !.why = "error", !.ret = TRUE]
      BY <2>1, <3>2 DEF Closed
    <3> QED BY <3>1, <3>2, <3>3 DEF Nothing
  <2>3. /\ w.s \in LocalSockets /\ w.s.st \in {"closing", "gone"} /\ Moves(i, s, w.s, w.pkts)
        /\ Watched(w.s, IF w.s.st = "gone" THEN {} ELSE b)
    BY <2>2, <1>1, <1>2, Closing
  <2>4. Watched(w.s, {})
    BY <2>3, WatchedLess
  <2>5. w.wrote \in Seq(Nat) /\ Len(w.wrote) <= room(i)
    BY <2>2, <1>4, EmptySeq
  <2> HIDE DEF w
  <2> QED BY <2>2, <2>3, <2>4, <2>5, <1>2 DEF w, Whys
<1>6. CASE ~Broken(i) /\ n < Len(all)
  <2> DEFINE t == [s EXCEPT !.queue = <<rest(all, n)>>]
  <2>1. w = [Nothing(s) EXCEPT !.s.queue = <<rest(all, n)>>, !.wrote = SubSeq(all, 1, n), !.ret = TRUE]
    BY <1>6 DEF event_write
  <2>2. /\ w.s = t /\ w.pkts = <<>> /\ w.wrote = SubSeq(all, 1, n)
        /\ w.took = 0 /\ w.told = <<>> /\ w.why = "none" /\ w.ret = TRUE
    BY <2>1 DEF Nothing
  <2>3. <<rest(all, n)>> \in Seq(Seq(Nat)) /\ Len(<<rest(all, n)>>) = 1 /\ <<rest(all, n)>> # <<>>
    BY <1>4
  <2>4. /\ t \in LocalSockets /\ t.st = s.st /\ t.peer = s.peer /\ t.mask = s.mask
        /\ t.queue = <<rest(all, n)>>
    BY <2>3, <1>1 DEF LocalSockets
  <2> HIDE DEF t, w
  <2>5. Watched(t, {})
    <3>1. t.queue # <<>>
      BY <2>3, <2>4
    <3> QED BY <3>1, <2>4, <1>1, <1>2 DEF Watched
  <2>6. Moves(i, s, t, <<>>)
    <3>1. CASE s.st = "open"
      <4>1. Stays(s, t)
        BY <3>1, <2>4, <1>2 DEF Stays
      <4>2. Len(t.queue) = 1
        BY <2>3, <2>4
      <4> QED BY <4>1, <4>2, <2>4, <1>2 DEF Moves
    <3>2. CASE s.st = "closing"
      <4>1. Off(s, t)
        BY <3>2, <2>4 DEF Off
      <4> QED BY <4>1 DEF Moves
    <3> QED BY <3>1, <3>2, <1>2
  <2> QED BY <2>2, <2>4, <2>5, <2>6, <1>2, <1>4 DEF w, Whys
<1>7. CASE ~Broken(i) /\ ~(n < Len(all)) /\ s.st = "closing"
  <2>1. w = [Nothing(s) EXCEPT !.s = Gone, !.wrote = all, !.ret = TRUE]
    BY <1>7 DEF event_write
  <2>2. /\ w.s = Gone /\ w.pkts = <<>> /\ w.wrote = all
        /\ w.took = 0 /\ w.told = <<>> /\ w.why = "none" /\ w.ret = TRUE
    BY <2>1 DEF Nothing
  <2> HIDE DEF w
  <2>3. Watched(Gone, {}) /\ Off(s, Gone)
    BY <1>7, Blank DEF Watched, Off
  <2>4. Moves(i, s, Gone, <<>>)
    BY <2>3 DEF Moves
  <2>5. Len(all) <= room(i)
    BY <1>4, <1>7
  <2> QED BY <2>2, <2>3, <2>4, <2>5, <1>2, <1>3, Blank DEF w, Whys
<1>8. CASE ~Broken(i) /\ ~(n < Len(all)) /\ s.st = "open"
  <2> DEFINE t == [s EXCEPT !.queue = <<>>, !.mask = @ \ {W}]
  <2>1. w = [Nothing(s) EXCEPT !.s.queue = <<>>, !.s.mask = @ \ {W}, !.wrote = all,
                               !.pkts = remote_socket_ready(i, s.peer)]
    BY <1>8 DEF event_write
  <2>2. /\ w.s = t /\ w.pkts = remote_socket_ready(i, s.peer) /\ w.wrote = all
        /\ w.took = 0 /\ w.told = <<>> /\ w.why = "none" /\ w.ret = FALSE
    BY <2>1 DEF Nothing
  <2>3. <<>> \in Seq(Seq(Nat)) /\ Len(<<>>) = 0
    BY EmptySeq
  <2>4. /\ t \in LocalSockets /\ t.st = s.st /\ t.peer = s.peer /\ t.mask = s.mask \ {W}
        /\ t.queue = <<>>
    BY <2>3, <1>1 DEF LocalSockets
  <2> HIDE DEF t, w
  <2>5. Watched(t, b \ {W})
    <3>1. W \notin t.mask /\ (R \in t.mask <=> R \in s.mask)
      BY <2>4 DEF R, W
    <3>2. W \notin b \ {W} /\ (R \in b \ {W} => R \in b)
      OBVIOUS
    <3> HIDE DEF b
    <3> QED BY <1>8, <3>1, <3>2, <2>4, <1>1, <1>2 DEF Watched
  <2>6. Moves(i, s, t, remote_socket_ready(i, s.peer))
    <3>1. Stays(s, t) /\ Len(t.queue) = 0 /\ (R \in t.mask <=> R \in s.mask)
      BY <1>8, <2>3, <2>4, <1>2 DEF Stays, R, W
    <3> QED BY <3>1, <1>2 DEF Moves, remote_socket_ready
  <2>7. Len(all) <= room(i)
    BY <1>4, <1>8
  <2> QED BY <2>2, <2>4, <2>5, <2>6, <2>7, <1>2, <1>3, <1>8 DEF w, Whys
<1> QED BY <1>2, <1>5, <1>6, <1>7, <1>8

\* local_socket_event_func on FDE_READ, up to the end of file.
Reads(i, s, n) ==
  CASE s.st = "smart" -> smart_socket_enqueue(i, s)
    [] s.st = "open" /\ n > 0 ->
         [Nothing(s) EXCEPT !.s = stop_reading(s), !.took = n,
                            !.pkts = <<Pkt("WRTE", i, s.peer, SubSeq(prog[i].out, 1, n))>>]
    [] OTHER -> [Nothing(s) EXCEPT !.took = n]

\* What it returns, for the socket s before it.
Fields == {"s", "pkts", "wrote", "took", "told", "why", "ret"}
ReadResult(i, s, r) ==
  /\ DOMAIN r = Fields
  /\ r.s \in LocalSockets /\ Moves(i, s, r.s, r.pkts) /\ Watched(r.s, {})
  /\ r.wrote = <<>> /\ r.took \in Nat /\ r.told \in {<<>>, <<"FAIL">>} /\ r.why \in Whys
  /\ r.ret \in BOOLEAN
  /\ r.told # <<>> => r.ret
  /\ r.ret => s.st = "smart" /\ r.s.st = "gone"
  /\ ~r.ret => IF s.st = "smart" THEN r.s.st \in {"smart", "waiting"} ELSE r.s.st = s.st

\* What smart_socket_enqueue does with a client's request.
LEMMA RequestEvent ==
  ASSUME prog \in [Ids -> Programs], online \in BOOLEAN, NEW i \in Ids,
         NEW s \in LocalSockets, s.st = "smart", NEW b, Watched(s, b)
  PROVE  ReadResult(i, s, smart_socket_enqueue(i, s))
<1> PICK req : req = ToSet(prog[i].req)
  OBVIOUS
<1> PICK n : n = Len(prog[i].req)
  OBVIOUS
<1> DEFINE r == smart_socket_enqueue(i, s)
<1>0. n \in Nat
  BY Shape DEF Programs
<1>1. s.queue = <<>> /\ s.mask \subseteq {R} /\ s.peer = None
  BY DEF Watched, LocalSockets
<1>2. /\ local_socket_close(s) = Gone /\ remote_socket_close(s) = <<>> /\ close_told(s) = <<>>
  BY <1>1 DEF local_socket_close, remote_socket_close, close_told
<1>3. Moves(i, s, Gone, <<>>) /\ Watched(Gone, {})
  <2>1. Off(s, Gone) /\ Watched(Gone, {})
    BY Blank DEF Off, Watched
  <2> QED BY <2>1 DEF Moves
<1>4. CASE "BAD" \in req
  <2>1. r = [Closed(s, "request") EXCEPT !.took = n]
    BY <1>4 DEF smart_socket_enqueue
  <2> HIDE DEF r
  <2>2. Closed(s, "request") = [Nothing(s) EXCEPT !.s = Gone, !.pkts = <<>>, !.told = <<>>,
                                                  !.why = "request", !.ret = TRUE]
    BY <1>2 DEF Closed
  <2>3. /\ DOMAIN r = Fields
        /\ r.s = Gone /\ r.pkts = <<>> /\ r.wrote = <<>> /\ r.took = n /\ r.told = <<>>
        /\ r.why = "request" /\ r.ret = TRUE
    BY <2>1, <2>2 DEF Nothing, Fields
  <2>4. ReadResult(i, s, r)
    BY <2>3, <1>0, <1>3, Blank DEF ReadResult, Whys
  <2> QED BY <2>4 DEF r
<1>5. CASE "BAD" \notin req /\ "REQ" \in req /\ ~online
  <2>1. r = [Closed(s, "request") EXCEPT !.took = n, !.told = <<"FAIL">>]
    BY <1>5 DEF smart_socket_enqueue
  <2> HIDE DEF r
  <2>2. Closed(s, "request") = [Nothing(s) EXCEPT !.s = Gone, !.pkts = <<>>, !.told = <<>>,
                                                  !.why = "request", !.ret = TRUE]
    BY <1>2 DEF Closed
  <2>3. /\ DOMAIN r = Fields
        /\ r.s = Gone /\ r.pkts = <<>> /\ r.wrote = <<>> /\ r.took = n /\ r.told = <<"FAIL">>
        /\ r.why = "request" /\ r.ret = TRUE
    BY <2>1, <2>2 DEF Nothing, Fields
  <2>4. ReadResult(i, s, r)
    BY <2>3, <1>0, <1>3, Blank DEF ReadResult, Whys
  <2> QED BY <2>4 DEF r
<1>6. CASE "BAD" \notin req /\ "REQ" \in req /\ online
  <2> DEFINE t == stop_reading([s EXCEPT !.st = "waiting"])
  <2>1. r = [Nothing(s) EXCEPT !.s = t, !.took = n, !.pkts = connect_to_remote(i)]
    BY <1>6 DEF smart_socket_enqueue
  <2>2. /\ t \in LocalSockets /\ t.st = "waiting" /\ t.queue = <<>> /\ t.peer = None
        /\ t.mask = s.mask \ {R}
    BY <1>1 DEF stop_reading, LocalSockets
  <2> HIDE DEF r, t
  <2>3. /\ DOMAIN r = Fields
        /\ r.s = t /\ r.pkts = connect_to_remote(i) /\ r.wrote = <<>> /\ r.took = n
        /\ r.told = <<>> /\ r.why = "none" /\ r.ret = FALSE
    BY <2>1 DEF Nothing, Fields
  <2>4. Moves(i, s, t, connect_to_remote(i))
    BY <2>2 DEF Moves, connect_to_remote
  <2>5. Watched(t, {})
    <3>1. t.mask = {}
      BY <2>2, <1>1
    <3> QED BY <2>2, <3>1 DEF Watched
  <2>6. ReadResult(i, s, r)
    BY <2>2, <2>3, <2>4, <2>5, <1>0 DEF ReadResult, Whys
  <2> QED BY <2>6 DEF r
<1>7. CASE "BAD" \notin req /\ "REQ" \notin req
  <2>1. r = [Nothing(s) EXCEPT !.took = n]
    BY <1>7 DEF smart_socket_enqueue
  <2> HIDE DEF r
  <2>3. /\ DOMAIN r = Fields
        /\ r.s = s /\ r.pkts = <<>> /\ r.wrote = <<>> /\ r.took = n
        /\ r.told = <<>> /\ r.why = "none" /\ r.ret = FALSE
    BY <2>1 DEF Nothing, Fields
  <2>4. Moves(i, s, s, <<>>)
    BY DEF Moves, Alike
  <2>5. Watched(s, {})
    BY WatchedLess
  <2>6. ReadResult(i, s, r)
    BY <2>3, <2>4, <2>5, <1>0 DEF ReadResult, Whys
  <2> QED BY <2>6 DEF r
<1> QED BY <1>4, <1>5, <1>6, <1>7

\* What the reading half of local_socket_event_func does.
LEMMA ReadsEvent ==
  ASSUME prog \in [Ids -> Programs], online \in BOOLEAN, NEW i \in Ids,
         NEW s \in LocalSockets, s.st \in {"smart", "open", "closing"},
         NEW b, Watched(s, b), R \in b,
         NEW n \in Nat, n <= Len(prog[i].out)
  PROVE  ReadResult(i, s, Reads(i, s, n))
<1> DEFINE r == Reads(i, s, n)
<1>0. Watched(s, {})
  BY WatchedLess
<1>1. CASE s.st = "smart"
  <2>1. r = smart_socket_enqueue(i, s)
    BY <1>1 DEF Reads
  <2> QED BY <2>1, <1>1, RequestEvent
<1>2. CASE s.st = "open" /\ n > 0
  <2> DEFINE data == SubSeq(prog[i].out, 1, n)
             t == stop_reading(s)
  <2>1. r = [Nothing(s) EXCEPT !.s = t, !.took = n, !.pkts = <<Pkt("WRTE", i, s.peer, data)>>]
    BY <1>2 DEF Reads
  <2>2. /\ t \in LocalSockets /\ t.st = "open" /\ t.queue = s.queue /\ t.peer = s.peer
        /\ t.mask = s.mask \ {R}
    BY <1>2 DEF stop_reading, LocalSockets
  <2>3. data \in Seq(Nat)
    <3>1. prog[i].out \in Seq(Nat)
      BY DEF Programs
    <3>2. \A k \in 1..n : prog[i].out[k] \in Nat
      BY <3>1, Shape
    <3> QED BY <3>2, SubSeqProperties
  <2> HIDE DEF r, t, data
  <2>4. PICK pk : pk = <<Pkt("WRTE", i, s.peer, data)>>
    OBVIOUS
  <2>5. /\ DOMAIN r = Fields
        /\ r.s = t /\ r.pkts = pk /\ r.wrote = <<>> /\ r.took = n
        /\ r.told = <<>> /\ r.why = "none" /\ r.ret = FALSE
    BY <2>1, <2>4 DEF Nothing, Fields
  <2>6. s.peer \in Hids /\ R \in s.mask
    BY <1>2 DEF Watched, LocalSockets
  <2>7. Moves(i, s, t, pk)
    <3>1. Stays(s, t) /\ R \notin t.mask
      BY <1>2, <2>2, <2>6 DEF Stays
    <3> QED BY <3>1, <2>2, <2>3, <2>4, <2>6 DEF Moves
  <2>8. Watched(t, {})
    <3>1. W \in t.mask <=> W \in s.mask
      BY <2>2 DEF R, W
    <3> QED BY <1>0, <1>2, <2>2, <3>1 DEF Watched
  <2>9. ReadResult(i, s, r)
    BY <1>2, <2>2, <2>5, <2>7, <2>8 DEF ReadResult, Whys
  <2> QED BY <2>9 DEF r
<1>3. CASE s.st # "smart" /\ ~(s.st = "open" /\ n > 0)
  <2>1. r = [Nothing(s) EXCEPT !.took = n]
    BY <1>3 DEF Reads
  <2> HIDE DEF r
  <2>3. /\ DOMAIN r = Fields
        /\ r.s = s /\ r.pkts = <<>> /\ r.wrote = <<>> /\ r.took = n
        /\ r.told = <<>> /\ r.why = "none" /\ r.ret = FALSE
    BY <2>1 DEF Nothing, Fields
  <2>4. Moves(i, s, s, <<>>)
    BY DEF Moves, Alike
  <2>6. ReadResult(i, s, r)
    BY <2>3, <2>4, <1>0, <1>3 DEF ReadResult, Whys
  <2> QED BY <2>6 DEF r
<1> QED BY <1>1, <1>2, <1>3

\* What it returns in the end.
ReadDone(i, s, r) ==
  /\ \E t \in LocalSockets : \E p1, p2 \in Seq(Packets) :
       Moves(i, s, t, p1) /\ Moves(i, t, r.s, p2) /\ r.pkts = p1 \o p2
  /\ DOMAIN r = Fields /\ r.s \in LocalSockets /\ Watched(r.s, {})
  /\ r.took \in Nat /\ r.told \in {<<>>, <<"FAIL">>} /\ r.why \in Whys
  /\ r.told # <<>> => s.st = "smart" /\ r.s.st = "gone"
  /\ IF s.st = "smart" THEN r.s.st \in {"smart", "waiting", "gone"}
     ELSE r.s.st \in {"open", "closing", "gone"}

\* local_socket_event_func on FDE_READ: data or a request is read, then the
\* socket may close.
LEMMA ReadEvent ==
  ASSUME prog \in [Ids -> Programs], online \in BOOLEAN, NEW i \in Ids,
         NEW s \in LocalSockets, s.st \in {"smart", "open", "closing"},
         NEW b, Watched(s, b), R \in b
  PROVE  ReadDone(i, s, event_read(i, s))
<1> PICK n : n = Smaller(Len(prog[i].out), MaxPayload)
  OBVIOUS
<1>1. n \in Nat /\ n <= Len(prog[i].out)
  BY SocketsAssumption, Shape DEF Smaller, Programs
<1> PICK u : u = Reads(i, s, n)
  OBVIOUS
<1> DEFINE r == event_read(i, s)
<1>2. r = IF at_eof(i, n) /\ ~u.ret
            THEN [Closed(u.s, "eof") EXCEPT !.pkts = u.pkts \o @, !.took = u.took]
            ELSE u
  BY DEF event_read, Reads
<1>3. ReadResult(i, s, u)
  BY <1>1, ReadsEvent
<1>4. u.pkts \in Seq(Packets)
  BY <1>3, MovesType DEF ReadResult
<1> HIDE DEF r
<1>5. CASE ~(at_eof(i, n) /\ ~u.ret)
  <2>1. r = u
    BY <1>2, <1>5
  <2>2. Moves(i, u.s, u.s, <<>>)
    BY DEF Moves, Alike
  <2>3. u.pkts \o <<>> = u.pkts /\ <<>> \in Seq(Packets)
    BY <1>4, ConcatEmptySeq, EmptySeq
  <2>4. \E t \in LocalSockets : \E p1, p2 \in Seq(Packets) :
              Moves(i, s, t, p1) /\ Moves(i, t, r.s, p2) /\ r.pkts = p1 \o p2
    BY <2>1, <2>2, <2>3, <1>3, <1>4 DEF ReadResult
  <2>5. /\ DOMAIN r = Fields /\ r.s \in LocalSockets /\ Watched(r.s, {})
        /\ r.took \in Nat /\ r.told \in {<<>>, <<"FAIL">>} /\ r.why \in Whys
        /\ r.told # <<>> => s.st = "smart" /\ r.s.st = "gone"
        /\ IF s.st = "smart" THEN r.s.st \in {"smart", "waiting", "gone"}
           ELSE r.s.st \in {"open", "closing", "gone"}
    BY <2>1, <1>3 DEF ReadResult
  <2>6. ReadDone(i, s, r)
    BY <2>4, <2>5 DEF ReadDone
  <2> QED BY <2>6 DEF r
<1>6. CASE at_eof(i, n) /\ ~u.ret
  <2>1. PICK c, p, d : c = local_socket_close(u.s) /\ p = remote_socket_close(u.s) /\ d = close_told(u.s)
    OBVIOUS
  <2>2. r = [[Nothing(u.s) EXCEPT !.s = c, !.pkts = p, !.told = d, !.why = "eof", !.ret = TRUE]
               EXCEPT !.pkts = u.pkts \o @, !.took = u.took]
    BY <1>2, <1>6, <2>1 DEF Closed
  <2>3. DOMAIN r = Fields /\ r.s = c /\ r.pkts = u.pkts \o p /\ r.took = u.took /\ r.told = d /\ r.why = "eof"
    BY <2>2, Zenon DEF Nothing, Fields
  <2>4. /\ u.s \in LocalSockets /\ Watched(u.s, {})
        /\ u.s.st \in {"smart", "waiting", "open", "closing"}
        /\ (s.st = "smart" <=> u.s.st \in {"smart", "waiting"})
    BY <1>3, <1>6 DEF ReadResult
  <2>5. /\ c \in LocalSockets /\ c.st \in {"closing", "gone"} /\ Moves(i, u.s, c, p)
        /\ Watched(c, {})
    BY <2>1, <2>4, Closing
  <2>6. p \in Seq(Packets)
    BY <2>5, MovesType
  <2>7. /\ d \in {<<>>, <<"FAIL">>} /\ (d # <<>> => u.s.st = "waiting")
    BY <2>1 DEF close_told
  <2>8. u.s.st \in {"smart", "waiting"} => c.st = "gone"
    <3>1. u.s.st \in {"smart", "waiting"} => u.s.queue = <<>>
      BY <2>4 DEF Watched
    <3> QED BY <2>1, <3>1, Blank DEF local_socket_close
  <2>9. \E t \in LocalSockets : \E p1, p2 \in Seq(Packets) :
              Moves(i, s, t, p1) /\ Moves(i, t, r.s, p2) /\ r.pkts = p1 \o p2
    BY <2>3, <2>4, <2>5, <2>6, <1>3, <1>4 DEF ReadResult
  <2>10. r.took \in Nat
    BY <2>3, <1>3 DEF ReadResult
  <2>11. /\ DOMAIN r = Fields /\ r.s \in LocalSockets /\ Watched(r.s, {})
         /\ r.told \in {<<>>, <<"FAIL">>} /\ r.why \in Whys
         /\ r.told # <<>> => s.st = "smart" /\ r.s.st = "gone"
         /\ IF s.st = "smart" THEN r.s.st \in {"smart", "waiting", "gone"}
            ELSE r.s.st \in {"open", "closing", "gone"}
    BY <2>3, <2>4, <2>5, <2>7, <2>8 DEF Whys
  <2>12. ReadDone(i, s, r)
    BY <2>9, <2>10, <2>11 DEF ReadDone
  <2> QED BY <2>12 DEF r
<1> QED BY <1>5, <1>6

-----------------------------------------------------------------------------
(* The actions.                                                            *)

\* The inductive invariant has the type invariant in it.
LEMMA IInvType == IInv => TypeOK
BY DEF IInv, Others, WireInv, WireType, TypeOK, Whys

\* Greetings are not sent by sockets.
LEMMA NotGreeting ==
  ASSUME NEW q \in Seq(Packets), NEW pk \in Seq(Packets), \A k \in DOMAIN pk : pk[k].cmd # "CNXN"
  PROVE  Greets(q \o pk) => Greets(q)
<1> DEFINE n == Len(q)
           m == Len(pk)
<1>1. n \in Nat /\ m \in Nat /\ DOMAIN q = 1..n /\ DOMAIN pk = 1..m
  BY Shape
<1>2. /\ q \o pk \in Seq(Packets) /\ Len(q \o pk) = n + m
      /\ \A k \in 1..(n + m) : (q \o pk)[k] = IF k <= n THEN q[k] ELSE pk[k - n]
  BY ConcatProperties
<1>3. DOMAIN (q \o pk) = 1..(n + m)
  BY <1>2, Shape
<1> HIDE DEF n, m
<1>4. ASSUME NEW k \in 1..(n + m), (q \o pk)[k].cmd = "CNXN" PROVE Greets(q)
  <2>1. CASE k <= n
    <3>1. k \in 1..n /\ (q \o pk)[k] = q[k]
      BY <2>1, <1>1, <1>2
    <3> QED BY <3>1, <1>1, <1>4 DEF Greets
  <2>2. CASE ~(k <= n)
    <3>1. k - n \in 1..m /\ (q \o pk)[k] = pk[k - n]
      BY <2>2, <1>1, <1>2
    <3> QED BY <3>1, <1>1, <1>4
  <2> QED BY <2>1, <2>2
<1> QED BY <1>3, <1>4 DEF Greets

-----------------------------------------------------------------------------
(* Requests, readiness and what a step of an installed client does.        *)

Strings == {"OKAY", "FAIL"}

\* The end of a sequence.
LEMMA SubSeqType ==
  ASSUME NEW S, NEW q \in Seq(S), NEW n \in Nat
  PROVE  SubSeq(q, n + 1, Len(q)) \in Seq(S)
<1>1. Len(q) \in Nat /\ \A k \in 1..Len(q) : q[k] \in S
  BY Shape
<1>2. PICK m \in Nat : m = Len(q)
  BY <1>1
<1>3. \A k \in (n + 1)..m : q[k] \in S
  <2>1. \A k \in (n + 1)..m : k \in 1..m
    OBVIOUS
  <2> QED BY <2>1, <1>1, <1>2
<1>4. n + 1 \in Int /\ m \in Int
  OBVIOUS
<1>5. SubSeq(q, n + 1, m) \in Seq(S)
  BY <1>3, <1>4, SubSeqProperties
<1> QED BY <1>2, <1>5

\* What a client is told, if anything.
LEMMA ToldType ==
  /\ <<>> \in Seq(Strings) /\ <<"OKAY">> \in Seq(Strings) /\ <<"FAIL">> \in Seq(Strings)
  /\ Len(<<>>) = 0 /\ Len(<<"OKAY">>) = 1 /\ Len(<<"FAIL">>) = 1
  /\ <<>> # <<"OKAY">> /\ <<>> # <<"FAIL">> /\ <<"OKAY">> # <<"FAIL">>
<1>1. "OKAY" \in Strings /\ "FAIL" \in Strings
  BY DEF Strings
<1>2. <<"OKAY">> \in Seq(Strings) /\ <<"FAIL">> \in Seq(Strings) /\ <<>> \in Seq(Strings)
  BY <1>1
<1>3. Len(<<>>) = 0 /\ Len(<<"OKAY">>) = 1 /\ Len(<<"FAIL">>) = 1
  OBVIOUS
<1>4. <<"OKAY">>[1] = "OKAY" /\ <<"FAIL">>[1] = "FAIL"
  OBVIOUS
<1>5. <<"OKAY">> # <<"FAIL">>
  BY <1>4
<1>6. <<>> # <<"OKAY">> /\ <<>> # <<"FAIL">>
  BY <1>3
<1> QED BY <1>2, <1>3, <1>5, <1>6

Serves(p, x, y) ==
  /\ y \in Programs
  /\ y.inb = p.inb \o x.wrote /\ y.told = p.told \o x.told /\ y.client = p.client

\* The program behind a descriptor, after a function of its socket.
LEMMA ServedBy ==
  ASSUME prog \in [Ids -> Programs], NEW i \in Ids, NEW x,
         x.wrote \in Seq(Nat), Len(x.wrote) <= room(i), x.took \in Nat, x.told \in Seq(Strings)
  PROVE  Serves(prog[i], x, Served(i, x))
<1> PICK p : p = prog[i]
  OBVIOUS
<1> PICK y : y = Served(i, x)
  OBVIOUS
<1>1. p \in Programs
  OBVIOUS
<1>2. p.out \in Seq(Nat) /\ p.req \in Seq({"PART", "REQ", "BAD"}) /\ p.inb \in Seq(Nat)
      /\ p.told \in Seq(Strings) /\ p.unread \in 0..FdCap
  BY <1>1 DEF Programs, Strings
<1>3. PICK o, q, b, t, u :
        /\ o = IF sock[i].st = "smart" THEN p.out ELSE SubSeq(p.out, x.took + 1, Len(p.out))
        /\ q = IF sock[i].st = "smart" THEN SubSeq(p.req, x.took + 1, Len(p.req)) ELSE p.req
        /\ b = p.inb \o x.wrote /\ t = p.told \o x.told /\ u = p.unread + Len(x.wrote)
  OBVIOUS
<1>4. y = [p EXCEPT !.inb = b, !.unread = u, !.out = o, !.req = q, !.told = t]
  BY <1>1, <1>3 DEF Served, Programs
<1>5. SubSeq(p.out, x.took + 1, Len(p.out)) \in Seq(Nat)
  BY <1>2, SubSeqType
<1>6. SubSeq(p.req, x.took + 1, Len(p.req)) \in Seq({"PART", "REQ", "BAD"})
  BY <1>2, SubSeqType
<1>7. o \in Seq(Nat) /\ q \in Seq({"PART", "REQ", "BAD"})
  BY <1>2, <1>3, <1>5, <1>6
<1>8. b \in Seq(Nat) /\ t \in Seq(Strings)
  BY <1>2, <1>3, ConcatProperties
<1>9. u \in 0..FdCap
  <2>1. Len(x.wrote) \in Nat
    BY Shape
  <2>2. PICK n \in Nat : n = Len(x.wrote)
    BY <2>1
  <2>3. n <= FdCap - p.unread
    BY <2>2 DEF room
  <2>4. FdCap \in Nat /\ p.unread \in 0..FdCap /\ u = p.unread + n
    BY <2>2, <1>2, <1>3, SocketsAssumption
  <2> QED BY ONLY <2>3, <2>4, n \in Nat
<1>10. y \in Programs
  BY <1>1, <1>4, <1>7, <1>8, <1>9 DEF Programs, Strings
<1>11. y.inb = b /\ y.told = t /\ y.client = p.client
  BY <1>1, <1>4 DEF Programs
<1>12. Serves(p, x, y)
  BY <1>3, <1>10, <1>11 DEF Serves
<1> QED BY <1>12

\* local_socket_event_func keeps the invariant.
LEMMA EventFunc ==
  ASSUME IInv, NEW i \in Ids, local_socket_event_func(i)
  PROVE  IInv'
<1> PICK s : s = sock[i]
  OBVIOUS
<1> PICK ev : ev = batch[i]
  OBVIOUS
<1> PICK p : p = prog[i]
  OBVIOUS
<1> PICK w : w = IF W \in ev THEN event_write(i) ELSE Nothing(s)
  OBVIOUS
<1> PICK r : r = IF R \in ev /\ ~w.ret THEN event_read(i, w.s) ELSE Nothing(w.s)
  OBVIOUS
<1> PICK x : x = [r EXCEPT !.wrote = w.wrote, !.told = w.told \o @]
  OBVIOUS
<1>a. /\ ev # {}
      /\ sock' = [sock EXCEPT ![i] = r.s]
      /\ d2h' = d2h \o w.pkts \o r.pkts
      /\ prog' = [prog EXCEPT ![i] = Served(i, x)]
      /\ cause' = IF w.why # "none" THEN Because(i, w.why)
                  ELSE IF r.why # "none" THEN Because(i, r.why) ELSE cause
      /\ batch' = [batch EXCEPT ![i] = {}]
      /\ nextid' = nextid /\ online' = online /\ h2d' = h2d
      /\ host' = host /\ session' = session /\ cnxns' = cnxns
  BY DEF local_socket_event_func, hostVars
<1>t. TypeOK
  BY IInvType
<1>o. Others /\ Local /\ Connected /\ WireInv(sock, d2h, h2d, host, nextid)
  BY DEF IInv
<1>s. /\ s \in LocalSockets /\ ev \in SUBSET {R, W} /\ p \in Programs
      /\ Watched(s, ev) /\ Heard(s, p)
      /\ prog \in [Ids -> Programs] /\ online \in BOOLEAN
  BY <1>t, <1>o DEF TypeOK, Local
<1>w. /\ w.s \in LocalSockets /\ Moves(i, s, w.s, w.pkts)
      /\ Watched(w.s, IF w.ret THEN {} ELSE IF W \in ev THEN ev \ {W} ELSE ev)
      /\ w.wrote \in Seq(Nat) /\ Len(w.wrote) <= room(i)
      /\ w.told = <<>> /\ w.why \in Whys /\ w.ret \in BOOLEAN
      /\ IF s.st \in {"open", "closing"} THEN w.s.st \in {"open", "closing", "gone"}
         ELSE w.s = s /\ w.wrote = <<>> /\ ~w.ret
      /\ ~w.ret => w.s.st \in {"smart", "open", "closing"}
  <2>1. CASE W \in ev
    <3>1. w = event_write(i) /\ W \in batch[i]
      BY <2>1
    <3>2. /\ s.st \in {"open", "closing"}
          /\ w.s \in LocalSockets /\ w.s.st \in {"open", "closing", "gone"}
          /\ Moves(i, s, w.s, w.pkts)
          /\ Watched(w.s, IF w.ret THEN {} ELSE batch[i] \ {W})
          /\ w.wrote \in Seq(Nat) /\ Len(w.wrote) <= room(i)
          /\ w.told = <<>> /\ w.why \in Whys
          /\ w.ret \in BOOLEAN /\ (~w.ret => w.s.st = "open")
      BY <3>1, <1>t, <1>o, WriteEvent
    <3> QED BY <3>2, <2>1
  <2>2. CASE W \notin ev
    <3>1. w = Nothing(s)
      BY <2>2
    <3>2. w.s = s /\ w.pkts = <<>> /\ w.wrote = <<>> /\ w.told = <<>> /\ w.why = "none" /\ w.ret = FALSE
      BY <3>1 DEF Nothing
    <3>3. Moves(i, s, s, <<>>)
      BY DEF Moves, Alike
    <3>4. Len(w.wrote) <= room(i) /\ w.wrote \in Seq(Nat)
      <4>1. room(i) \in Nat
        BY <1>s, SocketsAssumption DEF room, Programs
      <4>2. Len(w.wrote) = 0
        BY <3>2, ToldType
      <4>3. w.wrote \in Seq(Nat)
        BY <3>2, EmptySeq
      <4> QED BY <4>1, <4>2, <4>3
    <3>5. s.st \in {"smart", "open", "closing"}
      BY ONLY <1>a, <1>s DEF Watched, LocalSockets
    <3> QED BY <2>2, <3>2, <3>3, <3>4, <3>5, <1>s DEF Whys
  <2> QED BY <2>1, <2>2
<1>r. /\ \E t \in LocalSockets : \E p1, p2 \in Seq(Packets) :
           Moves(i, w.s, t, p1) /\ Moves(i, t, r.s, p2) /\ r.pkts = p1 \o p2
      /\ DOMAIN r = Fields /\ r.s \in LocalSockets /\ Watched(r.s, {})
      /\ r.took \in Nat /\ r.told \in {<<>>, <<"FAIL">>} /\ r.why \in Whys
      /\ r.told # <<>> => w.s.st = "smart" /\ r.s.st = "gone"
      /\ w.s.st = "smart" => r.s.st \in {"smart", "waiting", "gone"}
      /\ w.s.st \in {"open", "closing", "gone"} => r.s.st \in {"open", "closing", "gone"}
  <2>1. CASE R \in ev /\ ~w.ret
    <3>1. PICK b : b = IF W \in ev THEN ev \ {W} ELSE ev
      OBVIOUS
    <3>2. Watched(w.s, b) /\ R \in b /\ w.s.st \in {"smart", "open", "closing"}
      <4>1. R \in b
        BY <2>1, <3>1 DEF R, W
      <4> QED BY <2>1, <3>1, <4>1, <1>w
    <3>3. r = event_read(i, w.s) /\ w.s \in LocalSockets
      BY <2>1, <1>w
    <3>4. ReadDone(i, w.s, r)
      <4>1. prog \in [Ids -> Programs] /\ online \in BOOLEAN
        BY <1>s
      <4>2. w.s \in LocalSockets /\ w.s.st \in {"smart", "open", "closing"}
        BY <3>2, <3>3
      <4>3. Watched(w.s, b) /\ R \in b
        BY <3>2
      <4>4. ReadDone(i, w.s, event_read(i, w.s))
        BY ONLY <4>1, <4>2, <4>3, ReadEvent
      <4> QED BY <4>4, <3>3
    <3> QED BY <3>4, <3>2 DEF ReadDone
  <2>2. CASE ~(R \in ev /\ ~w.ret)
    <3>1. r = Nothing(w.s)
      BY <2>2
    <3>2. /\ DOMAIN r = Fields /\ r.s = w.s /\ r.pkts = <<>> /\ r.took = 0 /\ r.told = <<>>
          /\ r.why = "none"
      BY <3>1 DEF Nothing, Fields
    <3>3. Moves(i, w.s, w.s, <<>>)
      BY DEF Moves, Alike
    <3>4. <<>> \in Seq(Packets) /\ <<>> \o <<>> = <<>>
      BY EmptySeq, ConcatEmptySeq
    <3>5. Watched(w.s, {})
      BY <1>w, WatchedLess
    <3>6. \E t \in LocalSockets : \E p1, p2 \in Seq(Packets) :
             Moves(i, w.s, t, p1) /\ Moves(i, t, r.s, p2) /\ r.pkts = p1 \o p2
      BY <3>2, <3>3, <3>4, <1>w
    <3>7. w.s.st \in {"open", "closing", "gone"} \/ w.s.st = "smart"
      <4>1. s.st \in {"smart", "open", "closing"}
        BY <1>a, <1>s DEF Watched, LocalSockets
      <4> QED BY <4>1, <1>w
    <3>8. r.s \in LocalSockets /\ r.took \in Nat /\ r.told \in {<<>>, <<"FAIL">>}
          /\ r.why \in Whys /\ ~(r.told # <<>>)
      BY <3>2, <1>w DEF Whys
    <3> QED BY <3>2, <3>5, <3>6, <3>7, <3>8
  <2> QED BY <2>1, <2>2
<1>1. WireInv(sock', d2h', h2d', host', nextid') /\ (Greets(d2h') => Greets(d2h))
  <2>1. PICK t \in LocalSockets, p1 \in Seq(Packets), p2 \in Seq(Packets) :
          Moves(i, w.s, t, p1) /\ Moves(i, t, r.s, p2) /\ r.pkts = p1 \o p2
    BY <1>r
  <2>2. PICK sk1 : sk1 = [sock EXCEPT ![i] = w.s]
    OBVIOUS
  <2>3. PICK sk2 : sk2 = [sk1 EXCEPT ![i] = t]
    OBVIOUS
  <2>4. sock \in [Ids -> LocalSockets] /\ d2h \in Seq(Packets)
    BY <1>t DEF TypeOK
  <2>5. w.pkts \in Seq(Packets) /\ (\A k \in DOMAIN w.pkts : w.pkts[k].cmd # "CNXN")
    BY <1>w, MovesType
  <2>6. (\A k \in DOMAIN p1 : p1[k].cmd # "CNXN") /\ (\A k \in DOMAIN p2 : p2[k].cmd # "CNXN")
    BY <2>1, MovesType
  <2>7. PICK d1 : d1 = d2h \o w.pkts
    OBVIOUS
  <2>8. PICK d2 : d2 = d1 \o p1
    OBVIOUS
  <2>9. d1 \in Seq(Packets) /\ d2 \in Seq(Packets)
    BY <2>1, <2>4, <2>5, <2>7, <2>8, ConcatProperties
  <2>10. d2h' = d2 \o p2
    <3>1. (d1 \o p1) \o p2 = d1 \o (p1 \o p2)
      BY ONLY <2>1, <2>9, ConcatAssociative, SMTT(30)
    <3> QED BY <3>1, <2>1, <2>7, <2>8, <1>a, Zenon
  <2>11. sk1[i] = w.s /\ sk2[i] = t /\ sock' = [sk2 EXCEPT ![i] = r.s]
    BY <2>2, <2>3, <2>4, <1>a
  <2>12. WireInv(sk1, d1, h2d, host, nextid)
    BY <2>2, <2>7, <1>o, <1>w, Moved
  <2>13. WireInv(sk2, d2, h2d, host, nextid)
    BY <2>1, <2>3, <2>8, <2>11, <2>12, Moved, Zenon
  <2>14. WireInv([sk2 EXCEPT ![i] = r.s], d2 \o p2, h2d, host, nextid)
    BY <2>1, <2>11, <2>13, <1>r, Moved, Zenon
  <2>15. (Greets(d1) => Greets(d2h)) /\ (Greets(d2) => Greets(d1)) /\ (Greets(d2 \o p2) => Greets(d2))
    BY <2>1, <2>4, <2>5, <2>6, <2>7, <2>8, <2>9, NotGreeting, Zenon
  <2> QED BY <2>10, <2>11, <2>14, <2>15, <1>a, Zenon
<1>2. Connected'
  BY <1>1, <1>a, <1>o, Zenon DEF Connected
<1>p. prog'[i] \in Programs /\ Heard(r.s, prog'[i])
  <2>1. x.wrote = w.wrote /\ x.took = r.took /\ x.told = w.told \o r.told
    BY <1>r, Zenon DEF Fields
  <2>2. r.told \in Seq(Strings) /\ w.told \o r.told = r.told
    <3>1. r.told \in Seq(Strings)
      <4>1. r.told \in {<<>>, <<"FAIL">>}
        BY <1>r
      <4> QED BY <4>1, ToldType
    <3> QED BY <3>1, <1>w, ConcatEmptySeq
  <2>3. PICK y : y = prog'[i]
    OBVIOUS
  <2>4. y = Served(i, x)
    BY <2>3, <1>a, <1>s, Zenon
  <2>5. x.wrote \in Seq(Nat) /\ Len(x.wrote) <= room(i) /\ x.took \in Nat /\ x.told \in Seq(Strings)
    BY <2>1, <2>2, <1>w, <1>r, Zenon
  <2>12. /\ y \in Programs
         /\ y.inb = prog[i].inb \o x.wrote
         /\ y.told = prog[i].told \o x.told
         /\ y.client = prog[i].client
    <3>1. prog \in [Ids -> Programs]
      BY <1>s
    <3>2. Serves(prog[i], x, Served(i, x))
      BY <3>1, <2>5, ServedBy, Zenon
    <3> QED BY <3>2, <2>4, Zenon DEF Serves
  <2>13. /\ y.inb = p.inb \o w.wrote /\ y.told = p.told \o r.told /\ y.client = p.client
         /\ p.inb \in Seq(Nat) /\ p.told \in Seq(Strings)
    BY <2>1, <2>2, <2>12, <1>s, Zenon DEF Programs, Strings
  <2>14. CASE s.st \in {"open", "closing"}
    <3>1. r.told = <<>> /\ r.s.st \in {"open", "closing", "gone"}
      BY <2>14, <1>w, <1>r
    <3>2. y.told = p.told
      BY <3>1, <2>13, ConcatEmptySeq
    <3>3. p.client => p.told = <<"OKAY">>
      BY ONLY <2>14, <1>s DEF Heard
    <3> QED BY <2>3, <2>12, <2>13, <2>14, <3>1, <3>2, <3>3, <1>s, Zenon DEF Heard
  <2>15. CASE s.st \notin {"open", "closing"}
    <3>1. s.st = "smart" /\ w.s = s /\ w.wrote = <<>>
      BY <2>15, <1>w
    <3>2. p.told = <<>> /\ p.inb = <<>> /\ p.client
      BY <3>1, <1>s DEF Heard
    <3>3. y.inb = <<>> /\ y.told = r.told /\ y.client
      <4>1. <<>> \o <<>> = <<>> /\ <<>> \o r.told = r.told
        BY <2>2, ToldType, ConcatEmptySeq
      <4> QED BY <4>1, <2>13, <3>1, <3>2
    <3>4. r.s.st \in {"smart", "waiting"} => r.told = <<>>
      BY ONLY <3>1, <1>r
    <3>5. r.s.st \in {"smart", "waiting", "gone"}
      BY <3>1, <1>r
    <3>6. Len(r.told) <= 1
      <4>1. r.told \in {<<>>, <<"FAIL">>}
        BY <1>r
      <4>2. PICK n \in {0, 1} : n = Len(r.told)
        BY <4>1, ToldType
      <4>3. n <= 1
        OBVIOUS
      <4> QED BY <4>2, <4>3
    <3> QED BY <2>3, <2>12, <3>3, <3>4, <3>5, <3>6 DEF Heard
  <2> QED BY <2>14, <2>15
<1>3. Others'
  <2>1. prog' \in [Ids -> Programs]
    BY <1>a, <1>p, <1>s, Zenon
  <2>2. batch' \in [Ids \cup {Trans} -> SUBSET {R, W}]
    BY <1>a, <1>o DEF Others
  <2>3. cause' \in [Ids -> Whys]
    <3>1. cause \in [Ids -> Whys]
      BY <1>o DEF Others
    <3>2. \A y \in Whys : Because(i, y) \in [Ids -> Whys]
      BY <3>1 DEF Because
    <3> QED BY <3>1, <3>2, <1>a, <1>w, <1>r, Zenon
  <2> QED BY <2>1, <2>2, <2>3, <1>a, <1>o, Zenon DEF Others
<1>4. Local'
  <2> SUFFICES ASSUME NEW j \in Ids PROVE Watched(sock'[j], batch'[j]) /\ Heard(sock'[j], prog'[j])
    BY DEF Local
  <2>0. /\ sock \in [Ids -> LocalSockets] /\ batch \in [Ids \cup {Trans} -> SUBSET {R, W}]
        /\ Watched(sock[j], batch[j]) /\ Heard(sock[j], prog[j])
    BY ONLY <1>t, <1>o DEF TypeOK, Local
  <2>1. CASE j = i
    <3>1. sock'[i] = r.s /\ batch'[i] = {}
      BY <2>0, <1>a
    <3> QED BY <2>1, <3>1, <1>p, <1>r
  <2>2. CASE j # i
    <3>1. sock'[j] = sock[j] /\ batch'[j] = batch[j] /\ prog'[j] = prog[j]
      BY <2>2, <2>0, <1>a, <1>s
    <3> QED BY <3>1, <2>0
  <2> QED BY <2>1, <2>2
<1> QED BY <1>1, <1>2, <1>3, <1>4 DEF IInv

-----------------------------------------------------------------------------
(* The order of the packets and the greetings.                             *)

\* The host's packets, in order.
LEMMA OrderedTaken ==
  ASSUME NEW q \in Seq(Packets), q # <<>>, NEW on, NEW lost, Ordered(q, on, lost)
  PROVE  /\ Ordered(Tail(q), on, lost)
         /\ Head(q).cmd \notin {"CNXN", "SYNC0"} => on
         /\ Head(q).cmd = "SYNC0" => Tail(q) = <<>> /\ lost
<1> PICK n : n = Len(q)
  OBVIOUS
<1> PICK t : t = Tail(q)
  OBVIOUS
<1>1. /\ Head(q) = q[1] /\ n \in Nat \ {0} /\ Len(t) = n - 1
      /\ DOMAIN t = 1..(n - 1) /\ (\A k \in 1..(n - 1) : t[k] = q[k + 1])
      /\ DOMAIN q = 1..n /\ t \in Seq(Packets)
  BY Taken, Shape
<1>2. 1 \in 1..n /\ \A k \in 1..(n - 1) : k + 1 \in 1..n /\ (k + 1 = n => k = n - 1)
  BY <1>1
<1>3. \A k \in DOMAIN q :
        /\ q[k].cmd \notin {"CNXN", "SYNC0"} => on
        /\ q[k].cmd = "SYNC0" => k = n /\ lost
  BY DEF Ordered
<1>4. Ordered(t, on, lost)
  <2>1. ASSUME NEW k \in 1..(n - 1)
        PROVE  /\ t[k].cmd \notin {"CNXN", "SYNC0"} => on
               /\ t[k].cmd = "SYNC0" => k = n - 1 /\ lost
    BY <1>1, <1>2, <1>3
  <2> QED BY <2>1, <1>1 DEF Ordered
<1>5. Head(q).cmd = "SYNC0" => n = 1 /\ lost
  BY <1>1, <1>2, <1>3
<1>6. n = 1 => t = <<>>
  BY <1>1, Shape
<1>7. Head(q).cmd \notin {"CNXN", "SYNC0"} => on
  BY <1>1, <1>2, <1>3
<1> QED BY <1>4, <1>5, <1>6, <1>7

\* The host sends a packet.
LEMMA OrderedSent ==
  ASSUME NEW q \in Seq(Packets), NEW on, NEW lost, ~lost, Ordered(q, on, lost),
         NEW p \in Packets, p.cmd # "SYNC0", p.cmd # "CNXN" => on
  PROVE  Ordered(Append(q, p), on, lost)
<1> PICK n : n = Len(q)
  OBVIOUS
<1> PICK a : a = Append(q, p)
  OBVIOUS
<1>1. /\ n \in Nat /\ DOMAIN q = 1..n /\ DOMAIN a = 1..(n + 1)
      /\ (\A k \in 1..n : a[k] = q[k]) /\ a[n + 1] = p
  BY Appended, Shape
<1>2. \A k \in 1..(n + 1) : k \in 1..n \/ k = n + 1
  BY <1>1
<1>3. \A k \in 1..n : (q[k].cmd \notin {"CNXN", "SYNC0"} => on) /\ q[k].cmd # "SYNC0"
  BY <1>1 DEF Ordered
<1>4. \A k \in 1..(n + 1) : (a[k].cmd \notin {"CNXN", "SYNC0"} => on) /\ a[k].cmd # "SYNC0"
  BY <1>1, <1>2, <1>3
<1> QED BY <1>1, <1>4 DEF Ordered

\* A lost link keeps a part of what the host sent and ends with SYNC(0).
LEMMA OrderedLost ==
  ASSUME NEW q \in Seq(Packets), NEW on, Ordered(q, on, FALSE), NEW n \in 0..Len(q),
         NEW p \in Packets, p.cmd = "SYNC0"
  PROVE  Ordered(Append(SubSeq(q, 1, n), p), on, TRUE)
<1> PICK b : b = SubSeq(q, 1, n)
  OBVIOUS
<1> PICK a : a = Append(b, p)
  OBVIOUS
<1>1. Len(q) \in Nat /\ DOMAIN q = 1..Len(q) /\ \A k \in 1..Len(q) : q[k] \in Packets
  BY Shape
<1>2. n \in Nat /\ \A k \in 1..n : k \in 1..Len(q)
  BY <1>1
<1>3. b \in Seq(Packets) /\ Len(b) = n /\ \A k \in 1..n : b[k] = q[k]
  <2>1. \A k \in 1..n : q[k] \in Packets
    BY <1>1, <1>2
  <2>2. 1 \in Int /\ n \in Int
    BY <1>2
  <2>3. /\ SubSeq(q, 1, n) \in Seq(Packets)
        /\ Len(SubSeq(q, 1, n)) = IF 1 <= n THEN n - 1 + 1 ELSE 0
        /\ \A k \in 1..(n - 1 + 1) : SubSeq(q, 1, n)[k] = q[1 + k - 1]
    BY <2>1, <2>2, SubSeqProperties
  <2>4. n - 1 + 1 = n /\ (IF 1 <= n THEN n - 1 + 1 ELSE 0) = n /\ \A k \in 1..n : 1 + k - 1 = k
    BY <1>2
  <2> QED BY <2>3, <2>4
<1>4. /\ DOMAIN a = 1..(n + 1) /\ Len(a) = n + 1
      /\ (\A k \in 1..n : a[k] = b[k]) /\ a[n + 1] = p
  BY <1>3, Appended
<1>5. \A k \in 1..(n + 1) : k \in 1..n \/ k = n + 1
  BY <1>2
<1>6. \A k \in 1..n : (q[k].cmd \notin {"CNXN", "SYNC0"} => on) /\ q[k].cmd # "SYNC0"
  BY <1>1, <1>2 DEF Ordered
<1>7. \A k \in 1..(n + 1) : (a[k].cmd \notin {"CNXN", "SYNC0"} => on) /\ (a[k].cmd = "SYNC0" => k = n + 1)
  BY <1>3, <1>4, <1>5, <1>6
<1> QED BY <1>4, <1>7 DEF Ordered

\* Greetings under way.
LEMMA GreetsSent ==
  ASSUME NEW q \in Seq(Packets), NEW p \in Packets
  PROVE  Greets(Append(q, p)) <=> Greets(q) \/ p.cmd = "CNXN"
<1> PICK n : n = Len(q)
  OBVIOUS
<1> PICK a : a = Append(q, p)
  OBVIOUS
<1>1. /\ n \in Nat /\ DOMAIN q = 1..n /\ DOMAIN a = 1..(n + 1)
      /\ (\A k \in 1..n : a[k] = q[k]) /\ a[n + 1] = p
  BY Appended, Shape
<1>2. (\A k \in 1..(n + 1) : k \in 1..n \/ k = n + 1) /\ n + 1 \in 1..(n + 1)
      /\ \A k \in 1..n : k \in 1..(n + 1)
  BY <1>1
<1> QED BY <1>1, <1>2 DEF Greets

\* The host takes a packet: there are no more greetings than before.
LEMMA GreetsTaken ==
  ASSUME NEW q \in Seq(Packets), q # <<>>
  PROVE  (Greets(Tail(q)) => Greets(q)) /\ (Head(q).cmd = "CNXN" => Greets(q))
<1> PICK n : n = Len(q)
  OBVIOUS
<1> PICK t : t = Tail(q)
  OBVIOUS
<1>1. /\ Head(q) = q[1] /\ n \in Nat \ {0}
      /\ DOMAIN t = 1..(n - 1) /\ (\A k \in 1..(n - 1) : t[k] = q[k + 1])
      /\ DOMAIN q = 1..n
  BY Taken, Shape
<1>2. 1 \in 1..n /\ \A k \in 1..(n - 1) : k + 1 \in 1..n
  BY <1>1
<1> QED BY <1>1, <1>2 DEF Greets

\* The transport's fdevent is not one of a socket.
LEMMA NotTrans == \A i \in Ids : i # Trans
BY SocketsAssumption DEF Ids, Trans

\* A packet of the host is taken from the transport, and nothing else happens
\* to the wire.
LEMMA Fetch ==
  ASSUME IInv, NEW cmd, receive(cmd)
  PROVE  /\ h2d # <<>> /\ Head(h2d) \in Packets /\ Head(h2d).cmd = cmd
         /\ h2d' = Tail(h2d) /\ host' = host /\ session' = session /\ cnxns' = cnxns
         /\ cmd \notin {"CNXN", "SYNC0"} => online
         /\ cmd = "SYNC0" => Tail(h2d) = <<>> /\ session = "lost"
         /\ Ordered(Tail(h2d), online, session = "lost")
         /\ cmd \in {"OPEN", "OKAY", "WRTE"} => Head(h2d).arg0 \in Hids
         /\ cmd \in {"OKAY", "WRTE", "CLSE"} => Head(h2d).arg1 \in Ids
<1>1. /\ h2d # <<>> /\ Head(h2d).cmd = cmd
      /\ h2d' = Tail(h2d) /\ host' = host /\ session' = session /\ cnxns' = cnxns
  BY DEF receive, hostVars
<1>2. h2d \in Seq(Packets) /\ FromHost(h2d) /\ Ordered(h2d, online, session = "lost")
  BY DEF IInv, WireInv, WireType, Connected
<1>3. /\ Ordered(Tail(h2d), online, session = "lost")
      /\ cmd \notin {"CNXN", "SYNC0"} => online
      /\ cmd = "SYNC0" => Tail(h2d) = <<>> /\ session = "lost"
  <2>1. PICK lost : lost = (session = "lost")
    OBVIOUS
  <2>2. Ordered(h2d, online, lost)
    BY <2>1, <1>2
  <2>3. /\ Ordered(Tail(h2d), online, lost)
        /\ Head(h2d).cmd \notin {"CNXN", "SYNC0"} => online
        /\ Head(h2d).cmd = "SYNC0" => Tail(h2d) = <<>> /\ lost
    BY <2>2, <1>1, <1>2, OrderedTaken
  <2> QED BY <2>1, <2>3, <1>1
<1>4. Head(h2d) = h2d[1] /\ 1 \in DOMAIN h2d /\ Head(h2d) \in Packets
  BY <1>1, <1>2, Taken, Shape
<1>5. /\ cmd \in {"OPEN", "OKAY", "WRTE"} => Head(h2d).arg0 \in Hids
      /\ cmd \in {"OKAY", "WRTE", "CLSE"} => Head(h2d).arg1 \in Ids
  BY <1>1, <1>2, <1>4 DEF FromHost
<1> QED BY <1>1, <1>3, <1>4, <1>5

-----------------------------------------------------------------------------
(* The event loop, the programs and the end of the connection.             *)

\* fdevent_process collects the events of the sockets: it keeps the invariant.
LEMMA Process ==
  ASSUME IInv, fdevent_process
  PROVE  IInv'
<1>1. /\ batch' = [i \in DOMAIN batch |-> Ready(i)]
      /\ sock' = sock /\ nextid' = nextid /\ online' = online /\ d2h' = d2h /\ h2d' = h2d
      /\ prog' = prog /\ host' = host /\ session' = session /\ cnxns' = cnxns /\ cause' = cause
  BY DEF fdevent_process, envVars
<1>2. Others /\ Local /\ Connected /\ WireInv(sock, d2h, h2d, host, nextid)
  BY DEF IInv
<1>3. DOMAIN batch = Ids \cup {Trans}
  BY <1>2 DEF Others
<1>4. \A i \in Ids : batch'[i] = Ready(i) /\ Ready(i) \subseteq sock[i].mask
  BY <1>1, <1>3, NotTrans DEF Ready
<1>5. sock \in [Ids -> LocalSockets]
  BY <1>2 DEF WireInv, WireType
<1>6. batch' \in [Ids \cup {Trans} -> SUBSET {R, W}]
  <2>1. \A i \in Ids : Ready(i) \subseteq {R, W}
    BY <1>4, <1>5 DEF LocalSockets
  <2>2. Ready(Trans) \subseteq {R, W}
    BY DEF Ready
  <2> QED BY <1>1, <1>3, <2>1, <2>2
<1>7. Others'
  BY <1>1, <1>2, <1>6 DEF Others
<1>8. Local'
  <2> SUFFICES ASSUME NEW i \in Ids PROVE Watched(sock[i], batch'[i]) /\ Heard(sock[i], prog[i])
    BY <1>1 DEF Local
  <2>1. Watched(sock[i], batch[i]) /\ Heard(sock[i], prog[i])
    BY <1>2 DEF Local
  <2>2. batch'[i] \subseteq sock[i].mask
    BY <1>4
  <2> QED BY <2>1, <2>2 DEF Watched
<1>9. Connected'
  BY <1>1, <1>2 DEF Connected
<1> QED BY <1>1, <1>2, <1>7, <1>8, <1>9 DEF IInv

\* Nothing for a socket.
LEMMA Drop ==
  ASSUME IInv, drop_packet
  PROVE  IInv'
<1>1. PICK cmd \in {"OPEN", "OKAY", "CLSE", "WRTE"} : receive(cmd)
  BY DEF drop_packet
<1>2. /\ \/ ~online
         \/ Head(h2d).cmd # "OPEN" /\ ~ \E i \in Ids : find_local_socket(Head(h2d).arg1, i) /\ Known(i)
      /\ batch' = [batch EXCEPT ![Trans] = {}]
      /\ sock' = sock /\ nextid' = nextid /\ online' = online /\ d2h' = d2h
      /\ prog' = prog /\ cause' = cause
  BY DEF drop_packet
<1>3. /\ h2d # <<>> /\ Head(h2d) \in Packets /\ Head(h2d).cmd = cmd
      /\ h2d' = Tail(h2d) /\ host' = host /\ session' = session /\ cnxns' = cnxns
      /\ online
      /\ Ordered(Tail(h2d), online, session = "lost")
      /\ cmd \in {"OKAY", "WRTE", "CLSE"} => Head(h2d).arg1 \in Ids
  BY <1>1, Fetch
<1>4. Others /\ Local /\ Connected /\ WireInv(sock, d2h, h2d, host, nextid)
  BY DEF IInv
<1>5. Head(h2d).cmd \in {"OKAY", "WRTE"} => sock[Head(h2d).arg1].st \notin {"open", "waiting"}
  BY <1>2, <1>3 DEF find_local_socket, Known
<1>6. WireInv(sock, d2h, Tail(h2d), host, nextid)
  BY <1>3, <1>4, <1>5, Pop
<1>7. batch \in [Ids \cup {Trans} -> SUBSET {R, W}]
  BY <1>4 DEF Others
<1>8. Others'
  <2>1. batch' \in [Ids \cup {Trans} -> SUBSET {R, W}]
    BY <1>2, <1>7
  <2> QED BY <2>1, <1>2, <1>3, <1>4 DEF Others
<1>9. Local'
  <2>1. \A i \in Ids : batch'[i] = batch[i]
    BY <1>2, <1>7, NotTrans
  <2> QED BY <2>1, <1>2, <1>4 DEF Local
<1>10. Connected'
  BY <1>2, <1>3, <1>4 DEF Connected
<1> QED BY <1>2, <1>3, <1>6, <1>8, <1>9, <1>10 DEF IInv

\* A program does something that adbd has not seen yet.
LEMMA Elsewhere ==
  ASSUME IInv, UNCHANGED progOnly, NEW i \in Ids, NEW y \in Programs,
         y.told = prog[i].told, y.inb = prog[i].inb, y.client = prog[i].client,
         prog' = [prog EXCEPT ![i] = y]
  PROVE  IInv'
<1>1. /\ sock' = sock /\ nextid' = nextid /\ online' = online /\ batch' = batch /\ d2h' = d2h
      /\ h2d' = h2d /\ host' = host /\ session' = session /\ cnxns' = cnxns /\ cause' = cause
  BY DEF progOnly, hostVars
<1>2. Others /\ Local /\ Connected /\ WireInv(sock, d2h, h2d, host, nextid)
  BY DEF IInv
<1>3. prog \in [Ids -> Programs]
  BY <1>2 DEF Others
<1>4. Others'
  <2>1. prog' \in [Ids -> Programs]
    BY <1>3
  <2> QED BY <2>1, <1>1, <1>2 DEF Others
<1>5. Local'
  <2> SUFFICES ASSUME NEW j \in Ids PROVE Watched(sock[j], batch[j]) /\ Heard(sock[j], prog'[j])
    BY <1>1 DEF Local
  <2>1. Watched(sock[j], batch[j]) /\ Heard(sock[j], prog[j])
    BY <1>2 DEF Local
  <2>2. CASE j = i
    <3>1. prog'[j] = y
      BY <2>2, <1>3
    <3> QED BY <2>1, <2>2, <3>1 DEF Heard
  <2>3. CASE j # i
    BY <2>1, <2>3, <1>3
  <2> QED BY <2>2, <2>3
<1>6. Connected'
  BY <1>1, <1>2 DEF Connected
<1> QED BY <1>1, <1>2, <1>4, <1>5, <1>6 DEF IInv

\* A program that writes, reads or closes its end keeps the invariant.
LEMMA ProgSteps ==
  ASSUME IInv, NEW i \in Ids,
         prog_write(i) \/ prog_request(i) \/ prog_read(i) \/ prog_close(i)
  PROVE  IInv'
<1>1. prog \in [Ids -> Programs]
  BY DEF IInv, Others
<1> PICK p \in Programs : p = prog[i]
  BY <1>1
<1>2. CASE prog_write(i)
  <2>1. UNCHANGED progOnly
        /\ prog' = [prog EXCEPT ![i].out = Append(@, prog[i].made + 1), ![i].made = @ + 1]
    BY <1>2 DEF prog_write
  <2>2. PICK o : o = Append(p.out, p.made + 1)
    OBVIOUS
  <2>3. PICK y : y = [p EXCEPT !.out = o, !.made = p.made + 1]
    OBVIOUS
  <2>4. prog' = [prog EXCEPT ![i] = y]
    BY <2>1, <2>2, <2>3, <1>1 DEF Programs
  <2>5. p.out \in Seq(Nat) /\ p.made + 1 \in Nat
    BY DEF Programs
  <2>6. o \in Seq(Nat)
    BY <2>2, <2>5, Appended
  <2>7. y \in Programs /\ y.told = p.told /\ y.inb = p.inb /\ y.client = p.client
    BY <2>3, <2>5, <2>6 DEF Programs
  <2> QED BY <2>1, <2>4, <2>7, Elsewhere
<1>3. CASE prog_request(i)
  <2>1. PICK part \in {"PART", "REQ", "BAD"} : prog' = [prog EXCEPT ![i].req = Append(@, part)]
    BY <1>3 DEF prog_request
  <2>2. UNCHANGED progOnly
    BY <1>3 DEF prog_request
  <2>3. PICK o : o = Append(p.req, part)
    OBVIOUS
  <2>4. PICK y : y = [p EXCEPT !.req = o]
    OBVIOUS
  <2>5. prog' = [prog EXCEPT ![i] = y]
    BY <2>1, <2>3, <2>4, <1>1
  <2>6. p.req \in Seq({"PART", "REQ", "BAD"})
    BY DEF Programs
  <2>7. o \in Seq({"PART", "REQ", "BAD"})
    BY <2>3, <2>6, Appended
  <2>8. y \in Programs /\ y.told = p.told /\ y.inb = p.inb /\ y.client = p.client
    BY <2>4, <2>7 DEF Programs
  <2> QED BY <2>2, <2>5, <2>8, Elsewhere
<1>4. CASE prog_read(i)
  <2>1. UNCHANGED progOnly /\ prog' = [prog EXCEPT ![i].unread = 0]
    BY <1>4 DEF prog_read
  <2>2. PICK y : y = [p EXCEPT !.unread = 0]
    OBVIOUS
  <2>3. prog' = [prog EXCEPT ![i] = y]
    BY <2>1, <2>2, <1>1
  <2>4. 0 \in 0..FdCap
    BY SocketsAssumption
  <2>5. y \in Programs /\ y.told = p.told /\ y.inb = p.inb /\ y.client = p.client
    BY <2>2, <2>4 DEF Programs
  <2> QED BY <2>1, <2>3, <2>5, Elsewhere
<1>5. CASE prog_close(i)
  <2>1. PICK e \in {"half", "closed"} \ {prog[i].end} : prog' = [prog EXCEPT ![i].end = e]
    BY <1>5 DEF prog_close
  <2>2. UNCHANGED progOnly
    BY <1>5 DEF prog_close
  <2>3. PICK y : y = [p EXCEPT !.end = e]
    OBVIOUS
  <2>4. prog' = [prog EXCEPT ![i] = y]
    BY <2>1, <2>3, <1>1
  <2>5. y \in Programs /\ y.told = p.told /\ y.inb = p.inb /\ y.client = p.client
    BY <2>1, <2>3 DEF Programs
  <2> QED BY <2>2, <2>4, <2>5, Elsewhere
<1> QED BY <1>2, <1>3, <1>4, <1>5

\* A client that the smart socket accepts keeps the invariant.
LEMMA Listen ==
  ASSUME IInv, ss_listener_event_func
  PROVE  IInv'
<1> PICK n : n = nextid
  OBVIOUS
<1> PICK s : s = create_local_socket("smart", None)
  OBVIOUS
<1>1. /\ n <= MaxId
      /\ prog' = [prog EXCEPT ![n].client = TRUE]
      /\ sock' = [sock EXCEPT ![n] = s]
      /\ nextid' = n + 1 /\ online' = online /\ batch' = batch /\ d2h' = d2h /\ h2d' = h2d
      /\ host' = host /\ session' = session /\ cnxns' = cnxns /\ cause' = cause
  BY DEF ss_listener_event_func, hostVars
<1>2. Others /\ Local /\ Connected /\ WireInv(sock, d2h, h2d, host, nextid)
  BY DEF IInv
<1>3. n \in Ids /\ n + 1 \in 1..(MaxId + 1)
  <2>1. n \in 1..(MaxId + 1)
    BY <1>2 DEF Others
  <2> QED BY <2>1, <1>1, SocketsAssumption DEF Ids
<1>4. prog \in [Ids -> Programs] /\ sock \in [Ids -> LocalSockets]
  BY <1>2 DEF Others, WireInv, WireType
<1>5. /\ s \in LocalSockets /\ s.st = "smart" /\ s.peer = None /\ s.queue = <<>> /\ s.mask = {R}
  BY Blank DEF create_local_socket, LocalSockets
<1>6. WireInv([sock EXCEPT ![n] = s], d2h, h2d, host, n + 1)
  BY <1>2, <1>3, <1>5, Accept
<1>7. sock[n].st = "none"
  <2>1. DeviceSide(sock, d2h, host, n, n)
    BY <1>2, <1>3 DEF WireInv, Wire
  <2>2. n \in Nat
    BY <1>3 DEF Ids
  <2> QED BY <2>1, <2>2 DEF DeviceSide
<1>8. Watched(sock[n], batch[n]) /\ Heard(sock[n], prog[n])
  BY <1>2, <1>3 DEF Local
<1>9. PICK y : y = [prog[n] EXCEPT !.client = TRUE]
  OBVIOUS
<1>10. y \in Programs /\ y.client /\ y.told = prog[n].told /\ y.inb = prog[n].inb
  BY <1>3, <1>4, <1>9 DEF Programs
<1>11. prog' = [prog EXCEPT ![n] = y]
  BY <1>1, <1>3, <1>4, <1>9
<1>12. Watched(s, batch[n]) /\ Heard(s, y)
  <2>1. batch[n] = {}
    BY <1>7, <1>8 DEF Watched
  <2>2. Watched(s, {})
    BY <1>5 DEF Watched, R, W
  <2>3. y.told = <<>> /\ y.inb = <<>>
    BY <1>7, <1>8, <1>10 DEF Heard
  <2>4. Len(y.told) <= 1
    BY <2>3, ToldType
  <2>5. Heard(s, y)
    BY <2>3, <2>4, <1>5, <1>10 DEF Heard
  <2> QED BY <2>1, <2>2, <2>5
<1>13. Others'
  <2>1. prog' \in [Ids -> Programs]
    BY <1>3, <1>4, <1>10, <1>11
  <2> QED BY <2>1, <1>1, <1>2, <1>3 DEF Others
<1>14. Local'
  <2> SUFFICES ASSUME NEW j \in Ids PROVE Watched(sock'[j], batch[j]) /\ Heard(sock'[j], prog'[j])
    BY <1>1 DEF Local
  <2>1. CASE j = n
    <3>1. sock'[j] = s /\ prog'[j] = y
      BY <2>1, <1>1, <1>3, <1>4, <1>11
    <3> QED BY <2>1, <3>1, <1>12
  <2>2. CASE j # n
    <3>1. sock'[j] = sock[j] /\ prog'[j] = prog[j]
      BY <2>2, <1>1, <1>4, <1>11
    <3> QED BY <3>1, <1>2 DEF Local
  <2> QED BY <2>1, <2>2
<1>15. Connected'
  BY <1>1, <1>2 DEF Connected
<1> QED BY <1>1, <1>6, <1>13, <1>14, <1>15 DEF IInv

\* close_all_sockets keeps the invariant.
LEMMA CloseAll ==
  ASSUME IInv, close_all_sockets
  PROVE  IInv'
<1>1. /\ sock' = [i \in Ids |-> IF sock[i].st = "waiting" THEN Gone ELSE sock[i]]
      /\ cause' = [i \in Ids |-> IF sock[i].st = "waiting" THEN "session" ELSE cause[i]]
      /\ nextid' = nextid /\ online' = online /\ batch' = batch /\ d2h' = d2h /\ h2d' = h2d
      /\ prog' = prog /\ host' = host /\ session' = session /\ cnxns' = cnxns
  BY DEF close_all_sockets, envVars
<1>2. Others /\ Local /\ Connected /\ WireInv(sock, d2h, h2d, host, nextid)
  BY DEF IInv
<1>3. sock \in [Ids -> LocalSockets]
  BY <1>2 DEF WireInv, WireType
<1>4. \A i \in Ids : IF sock[i].st = "waiting" THEN sock'[i] = Gone ELSE sock'[i] = sock[i]
  BY <1>1
<1>5. sock' \in [Ids -> LocalSockets]
  BY <1>1, <1>3, Blank
<1>6. \A i \in Ids : Alike(sock[i], sock'[i]) \/ Off(sock[i], sock'[i])
  BY <1>4, Blank DEF Alike, Off
<1>7. WireInv(sock', d2h, h2d, host, nextid)
  <2>1. PICK sk : sk = sock'
    OBVIOUS
  <2>2. sk \in [Ids -> LocalSockets] /\ \A i \in Ids : Alike(sock[i], sk[i]) \/ Off(sock[i], sk[i])
    BY <2>1, <1>5, <1>6
  <2>3. WireInv(sk, d2h, h2d, host, nextid)
    BY <2>2, <1>2, Settle
  <2> QED BY <2>1, <2>3
<1>8. Others'
  <2>1. cause' \in [Ids -> Whys]
    BY <1>1, <1>2 DEF Others, Whys
  <2> QED BY <2>1, <1>1, <1>2 DEF Others
<1>9. Local'
  <2> SUFFICES ASSUME NEW i \in Ids PROVE Watched(sock'[i], batch[i]) /\ Heard(sock'[i], prog[i])
    BY <1>1 DEF Local
  <2>1. Watched(sock[i], batch[i]) /\ Heard(sock[i], prog[i])
    BY <1>2 DEF Local
  <2>2. CASE sock[i].st = "waiting"
    <3>1. sock'[i] = Gone
      BY <2>2, <1>4
    <3>2. Watched(Gone, batch[i])
      BY <2>1, <2>2, Blank DEF Watched
    <3>3. Heard(Gone, prog[i])
      BY <2>1, <2>2, Blank DEF Heard
    <3> QED BY <3>1, <3>2, <3>3
  <2>3. CASE sock[i].st # "waiting"
    BY <2>1, <2>3, <1>4
  <2> QED BY <2>2, <2>3
<1>10. Connected'
  BY <1>1, <1>2 DEF Connected
<1> QED BY <1>1, <1>7, <1>8, <1>9, <1>10 DEF IInv

-----------------------------------------------------------------------------
(* Connecting, and a stream that is opened or refused.                     *)

\* Every packet is sent by itself.
LEMMA SendOne ==
  ASSUME NEW q \in Seq(Packets), NEW p \in Packets
  PROVE  q \o <<p>> = Append(q, p)
BY AppendIsConcat

\* The events that stay pending for a socket that changes.
LEMMA PendingLess ==
  ASSUME NEW i, NEW t
  PROVE  Pending(i, t) \subseteq IF t.st = "gone" THEN {} ELSE batch[i]
BY DEF Pending

\* A socket that was linked or refused closes: its client has heard all.
LEMMA HeardOff ==
  ASSUME NEW s, NEW p, Heard(s, p), s.st \in {"open", "closing"},
         NEW t, t.st \in {"open", "closing", "gone"}
  PROVE  Heard(t, p)
BY DEF Heard

\* run_transport_disconnects closes the sockets of the transport or leaves them
\* alone, and what stays is in step.
LEMMA Disconnects ==
  ASSUME IInv, run_transport_disconnects
  PROVE  /\ sock' \in [Ids -> LocalSockets]
         /\ \A i \in Ids : Alike(sock[i], sock'[i]) \/ Off(sock[i], sock'[i])
         /\ cause' \in [Ids -> Whys]
         /\ batch' \in [Ids \cup {Trans} -> SUBSET {R, W}]
         /\ \A i \in Ids : Watched(sock'[i], batch'[i]) /\ Heard(sock'[i], prog[i])
<1> DEFINE S == {i \in Ids : sock[i].st = "open"}
<1>1. /\ sock' = [i \in Ids |-> IF i \in S THEN local_socket_close(sock[i]) ELSE sock[i]]
      /\ cause' = [i \in Ids |-> IF i \in S THEN "session" ELSE cause[i]]
      /\ batch' = [i \in DOMAIN batch |->
                     IF i = Trans THEN {}
                     ELSE IF i \in S THEN Pending(i, local_socket_close(sock[i])) ELSE batch[i]]
  BY DEF run_transport_disconnects
<1>2. Others /\ Local /\ sock \in [Ids -> LocalSockets]
  BY DEF IInv, WireInv, WireType
<1>3. /\ cause \in [Ids -> Whys] /\ batch \in [Ids \cup {Trans} -> SUBSET {R, W}]
      /\ DOMAIN batch = Ids \cup {Trans}
  BY <1>2 DEF Others
<1>4. ASSUME NEW i \in Ids, sock[i].st = "open"
      PROVE  LET t == local_socket_close(sock[i]) IN
             /\ t \in LocalSockets /\ t.st \in {"closing", "gone"}
             /\ Watched(t, Pending(i, t)) /\ Pending(i, t) \subseteq {R, W} /\ Heard(t, prog[i])
  <2> PICK t : t = local_socket_close(sock[i])
    OBVIOUS
  <2>1. Watched(sock[i], batch[i]) /\ Heard(sock[i], prog[i]) /\ sock[i] \in LocalSockets
        /\ batch[i] \subseteq {R, W}
    BY <1>2, <1>3 DEF Local
  <2>2. /\ t \in LocalSockets /\ t.st \in {"closing", "gone"}
        /\ Watched(t, IF t.st = "gone" THEN {} ELSE batch[i])
    BY <2>1, <1>4, Closing
  <2>3. Pending(i, t) \subseteq IF t.st = "gone" THEN {} ELSE batch[i]
    BY PendingLess
  <2>4. Watched(t, Pending(i, t))
    BY <2>2, <2>3, WatchedLess
  <2>5. Heard(t, prog[i])
    BY <2>1, <2>2, <1>4, HeardOff
  <2>6. Pending(i, t) \subseteq {R, W}
    BY <2>1, <2>3
  <2> QED BY <2>2, <2>4, <2>5, <2>6
<1>5. ASSUME NEW i \in Ids
      PROVE  /\ sock[i].st = "open" => /\ sock'[i] = local_socket_close(sock[i])
                                       /\ batch'[i] = Pending(i, local_socket_close(sock[i]))
             /\ sock[i].st # "open" => sock'[i] = sock[i] /\ batch'[i] = batch[i]
  <2>1. i \in S <=> sock[i].st = "open"
    OBVIOUS
  <2> HIDE DEF S
  <2> QED BY <2>1, <1>1, <1>3, NotTrans
<1>6. batch'[Trans] = {} /\ DOMAIN batch' = Ids \cup {Trans}
  BY <1>1, <1>3
<1>7. sock' \in [Ids -> LocalSockets]
  <2>1. \A i \in Ids : sock'[i] \in LocalSockets
    BY <1>2, <1>4, <1>5
  <2>2. DOMAIN sock' = Ids /\ sock' = [i \in Ids |-> sock'[i]]
    BY <1>1
  <2> QED BY <2>1, <2>2
<1>8. batch' \in [Ids \cup {Trans} -> SUBSET {R, W}]
  <2>1. \A i \in Ids : batch'[i] \subseteq {R, W}
    BY <1>3, <1>4, <1>5
  <2>2. batch' = [i \in Ids \cup {Trans} |-> batch'[i]]
    BY <1>1, <1>3
  <2> QED BY <2>1, <2>2, <1>6
<1>9. cause' \in [Ids -> Whys]
  BY <1>1, <1>3 DEF Whys
<1>10. ASSUME NEW i \in Ids
       PROVE  /\ Alike(sock[i], sock'[i]) \/ Off(sock[i], sock'[i])
              /\ Watched(sock'[i], batch'[i]) /\ Heard(sock'[i], prog[i])
  <2>1. CASE sock[i].st = "open"
    <3>1. sock'[i].st \in {"closing", "gone"} /\ Watched(sock'[i], batch'[i]) /\ Heard(sock'[i], prog[i])
      BY <2>1, <1>4, <1>5
    <3> QED BY <3>1, <2>1 DEF Off
  <2>2. CASE sock[i].st # "open"
    <3>1. sock'[i] = sock[i] /\ batch'[i] = batch[i]
      BY <2>2, <1>5
    <3>2. Watched(sock[i], batch[i]) /\ Heard(sock[i], prog[i])
      BY <1>2 DEF Local
    <3>3. Alike(sock[i], sock'[i])
      BY <3>1 DEF Alike
    <3> QED BY <3>1, <3>2, <3>3
  <2> QED BY <2>1, <2>2
<1> QED BY <1>7, <1>8, <1>9, <1>10

\* handle_packet of a CNXN keeps the invariant.
LEMMA Cnxn ==
  ASSUME IInv, handle_CNXN
  PROVE  IInv'
<1> PICK k : k = Pkt("CNXN", 0, 0, <<>>)
  OBVIOUS
<1>1. /\ receive("CNXN")
      /\ IF online THEN run_transport_disconnects
         ELSE batch' = [batch EXCEPT ![Trans] = {}] /\ sock' = sock /\ cause' = cause
      /\ online' = TRUE /\ d2h' = d2h \o <<k>> /\ nextid' = nextid /\ prog' = prog
  BY DEF handle_CNXN, send_connect
<1>2. /\ h2d # <<>> /\ Head(h2d) \in Packets /\ Head(h2d).cmd = "CNXN"
      /\ h2d' = Tail(h2d) /\ host' = host /\ session' = session /\ cnxns' = cnxns
      /\ Ordered(Tail(h2d), online, session = "lost")
  BY <1>1, Fetch
<1>3. Others /\ Local /\ Connected /\ WireInv(sock, d2h, h2d, host, nextid)
  BY DEF IInv
<1>4. d2h \in Seq(Packets) /\ k \in Packets /\ k.cmd = "CNXN" /\ sock \in [Ids -> LocalSockets]
  <2>1. k \in Packets /\ k.cmd = "CNXN"
    BY EmptySeq DEF Pkt, Packets, Cmds
  <2> QED BY <2>1, <1>3 DEF WireInv, WireType
<1>5. d2h' = Append(d2h, k)
  BY <1>1, <1>4, SendOne
<1>6. /\ sock' \in [Ids -> LocalSockets]
      /\ \A i \in Ids : Alike(sock[i], sock'[i]) \/ Off(sock[i], sock'[i])
      /\ cause' \in [Ids -> Whys]
      /\ batch' \in [Ids \cup {Trans} -> SUBSET {R, W}]
      /\ \A i \in Ids : Watched(sock'[i], batch'[i]) /\ Heard(sock'[i], prog[i])
  <2>1. CASE online
    BY <2>1, <1>1, Disconnects
  <2>2. CASE ~online
    <3>1. /\ sock' = sock /\ cause' = cause /\ batch' = [batch EXCEPT ![Trans] = {}]
          /\ batch \in [Ids \cup {Trans} -> SUBSET {R, W}] /\ cause \in [Ids -> Whys]
      BY <2>2, <1>1, <1>3 DEF Others
    <3>2. \A i \in Ids : batch'[i] = batch[i]
      BY <3>1, NotTrans
    <3>3. batch' \in [Ids \cup {Trans} -> SUBSET {R, W}]
      BY <3>1
    <3>4. \A i \in Ids : Alike(sock[i], sock'[i])
      BY <3>1 DEF Alike
    <3> QED BY <3>1, <3>2, <3>3, <3>4, <1>3, <1>4 DEF Local
  <2> QED BY <2>1, <2>2
<1>7. WireInv(sock', d2h', h2d', host', nextid')
  <2>1. WireInv(sock, d2h, Tail(h2d), host, nextid)
    BY <1>2, <1>3, Pop
  <2>2. PICK sk : sk = sock'
    OBVIOUS
  <2>3. sk \in [Ids -> LocalSockets] /\ \A i \in Ids : Alike(sock[i], sk[i]) \/ Off(sock[i], sk[i])
    BY <2>2, <1>6
  <2>4. WireInv(sk, d2h, Tail(h2d), host, nextid)
    BY <2>1, <2>3, Settle
  <2>5. WireInv(sk, Append(d2h, k), Tail(h2d), host, nextid)
    BY <2>4, SendCnxn
  <2> QED BY <2>2, <2>5, <1>1, <1>2, <1>5
<1>8. Connected'
  <2>1. Ordered(Tail(h2d), TRUE, session = "lost")
    BY <1>2 DEF Ordered
  <2> QED BY <2>1, <1>1, <1>2, <1>3 DEF Connected
<1>9. Others'
  BY <1>1, <1>2, <1>3, <1>6 DEF Others
<1>10. Local'
  BY <1>1, <1>6 DEF Local
<1> QED BY <1>7, <1>8, <1>9, <1>10 DEF IInv

\* handle_packet of the SYNC(0) of a lost link keeps the invariant.
LEMMA Sync0 ==
  ASSUME IInv, handle_SYNC0
  PROVE  IInv'
<1>1. /\ receive("SYNC0") /\ run_transport_disconnects
      /\ online' = FALSE /\ nextid' = nextid /\ d2h' = d2h /\ prog' = prog
  BY DEF handle_SYNC0
<1>2. /\ h2d # <<>> /\ Head(h2d) \in Packets /\ Head(h2d).cmd = "SYNC0"
      /\ h2d' = Tail(h2d) /\ host' = host /\ session' = session /\ cnxns' = cnxns
      /\ Tail(h2d) = <<>> /\ session = "lost"
  BY <1>1, Fetch
<1>3. Others /\ Local /\ Connected /\ WireInv(sock, d2h, h2d, host, nextid)
  BY DEF IInv
<1>4. /\ sock' \in [Ids -> LocalSockets]
      /\ \A i \in Ids : Alike(sock[i], sock'[i]) \/ Off(sock[i], sock'[i])
      /\ cause' \in [Ids -> Whys]
      /\ batch' \in [Ids \cup {Trans} -> SUBSET {R, W}]
      /\ \A i \in Ids : Watched(sock'[i], batch'[i]) /\ Heard(sock'[i], prog[i])
  BY <1>1, Disconnects
<1>5. WireInv(sock', d2h', h2d', host', nextid')
  <2>1. WireInv(sock, d2h, Tail(h2d), host, nextid)
    BY <1>2, <1>3, Pop
  <2>2. PICK sk : sk = sock'
    OBVIOUS
  <2>3. sk \in [Ids -> LocalSockets] /\ \A i \in Ids : Alike(sock[i], sk[i]) \/ Off(sock[i], sk[i])
    BY <2>2, <1>4
  <2>4. WireInv(sk, d2h, Tail(h2d), host, nextid)
    BY <2>1, <2>3, Settle
  <2> QED BY <2>2, <2>4, <1>1, <1>2
<1>6. Connected'
  <2>1. Ordered(<<>>, FALSE, session = "lost")
    BY DEF Ordered
  <2> QED BY <2>1, <1>1, <1>2, <1>3 DEF Connected
<1>7. Others'
  BY <1>1, <1>2, <1>3, <1>4 DEF Others
<1>8. Local'
  BY <1>1, <1>4 DEF Local
<1> QED BY <1>5, <1>6, <1>7, <1>8 DEF IInv

\* handle_packet of an OPEN that a service answers keeps the invariant.
LEMMA Open ==
  ASSUME IInv, handle_OPEN
  PROVE  IInv'
<1> PICK n : n = nextid
  OBVIOUS
<1> PICK h : h = Head(h2d).arg0
  OBVIOUS
<1> PICK s : s = create_local_socket("open", h)
  OBVIOUS
<1> PICK k : k = Pkt("OKAY", n, h, <<>>)
  OBVIOUS
<1>1. /\ receive("OPEN") /\ n <= MaxId
      /\ sock' = [sock EXCEPT ![n] = s] /\ nextid' = n + 1 /\ d2h' = d2h \o <<k>>
      /\ batch' = [batch EXCEPT ![Trans] = {}]
      /\ online' = online /\ prog' = prog /\ cause' = cause
  BY DEF handle_OPEN, send_ready
<1>2. /\ h2d # <<>> /\ Head(h2d) \in Packets /\ Head(h2d).cmd = "OPEN" /\ h \in Hids
      /\ h2d' = Tail(h2d) /\ host' = host /\ session' = session /\ cnxns' = cnxns
      /\ Ordered(Tail(h2d), online, session = "lost")
  BY <1>1, Fetch
<1>3. Others /\ Local /\ Connected /\ WireInv(sock, d2h, h2d, host, nextid)
  BY DEF IInv
<1>4. n \in Ids /\ n + 1 \in 1..(MaxId + 1)
  <2>1. n \in 1..(MaxId + 1)
    BY <1>3 DEF Others
  <2> QED BY <2>1, <1>1, SocketsAssumption DEF Ids
<1>5. /\ d2h \in Seq(Packets) /\ sock \in [Ids -> LocalSockets]
      /\ batch \in [Ids \cup {Trans} -> SUBSET {R, W}]
  BY <1>3 DEF WireInv, WireType, Others
<1>6. k \in Packets /\ k.cmd = "OKAY" /\ d2h' = Append(d2h, k)
  <2>1. k \in Packets /\ k.cmd = "OKAY"
    BY <1>2, <1>4, EmptySeq DEF Pkt, Packets, Cmds
  <2> QED BY <2>1, <1>1, <1>5, SendOne
<1>7. /\ s \in LocalSockets /\ s.st = "open" /\ s.peer = h /\ s.queue = <<>> /\ s.mask = {R}
  BY <1>2, Blank DEF create_local_socket, LocalSockets
<1>8. WireInv([sock EXCEPT ![n] = s], Append(d2h, k), Tail(h2d), host, n + 1)
  <2>1. R \in s.mask
    BY <1>7
  <2> QED BY <2>1, <1>2, <1>3, <1>4, <1>7, OpenStream
<1>9. sock[n].st = "none"
  <2>1. DeviceSide(sock, d2h, host, n, n)
    BY <1>3, <1>4 DEF WireInv, Wire
  <2>2. n \in Nat
    BY <1>4 DEF Ids
  <2> QED BY <2>1, <2>2 DEF DeviceSide
<1>10. Watched(sock[n], batch[n]) /\ Heard(sock[n], prog[n])
  BY <1>3, <1>4 DEF Local
<1>11. Watched(s, batch[n]) /\ Heard(s, prog[n])
  <2>1. batch[n] = {}
    BY <1>9, <1>10 DEF Watched
  <2>2. Watched(s, {})
    BY <1>2, <1>7, SocketsAssumption DEF Watched, R, W
  <2>3. Heard(s, prog[n])
    BY <1>7, <1>9, <1>10 DEF Heard
  <2> QED BY <2>1, <2>2, <2>3
<1>12. Others'
  <2>1. batch' \in [Ids \cup {Trans} -> SUBSET {R, W}]
    BY <1>1, <1>5
  <2> QED BY <2>1, <1>1, <1>2, <1>3, <1>4 DEF Others
<1>13. Local'
  <2> SUFFICES ASSUME NEW j \in Ids PROVE Watched(sock'[j], batch'[j]) /\ Heard(sock'[j], prog[j])
    BY <1>1 DEF Local
  <2>0. batch'[j] = batch[j]
    BY <1>1, <1>5, NotTrans
  <2>1. CASE j = n
    <3>1. sock'[j] = s
      BY <2>1, <1>1, <1>5
    <3> QED BY <2>0, <2>1, <3>1, <1>11
  <2>2. CASE j # n
    <3>1. sock'[j] = sock[j]
      BY <2>2, <1>1, <1>5
    <3> QED BY <2>0, <3>1, <1>3 DEF Local
  <2> QED BY <2>1, <2>2
<1>14. Connected'
  <2>1. Greets(d2h') => Greets(d2h)
    BY <1>5, <1>6, GreetsSent
  <2> QED BY <2>1, <1>1, <1>2, <1>3 DEF Connected
<1>15. WireInv(sock', d2h', h2d', host', nextid')
  BY <1>1, <1>2, <1>6, <1>8
<1> QED BY <1>12, <1>13, <1>14, <1>15 DEF IInv

\* handle_packet of an OPEN that no service answers keeps the invariant.
LEMMA RefuseOpen ==
  ASSUME IInv, refuse_OPEN
  PROVE  IInv'
<1> PICK h : h = Head(h2d).arg0
  OBVIOUS
<1> PICK k : k = Pkt("CLSE", 0, h, <<>>)
  OBVIOUS
<1>1. /\ receive("OPEN") /\ d2h' = d2h \o <<k>>
      /\ batch' = [batch EXCEPT ![Trans] = {}]
      /\ sock' = sock /\ nextid' = nextid /\ online' = online /\ prog' = prog /\ cause' = cause
  BY DEF refuse_OPEN, send_close
<1>2. /\ h2d # <<>> /\ Head(h2d) \in Packets /\ Head(h2d).cmd = "OPEN" /\ h \in Hids
      /\ h2d' = Tail(h2d) /\ host' = host /\ session' = session /\ cnxns' = cnxns
      /\ Ordered(Tail(h2d), online, session = "lost")
  BY <1>1, Fetch
<1>3. Others /\ Local /\ Connected /\ WireInv(sock, d2h, h2d, host, nextid)
  BY DEF IInv
<1>4. d2h \in Seq(Packets) /\ batch \in [Ids \cup {Trans} -> SUBSET {R, W}]
  BY <1>3 DEF WireInv, WireType, Others
<1>5. k \in Packets /\ k.cmd = "CLSE" /\ d2h' = Append(d2h, k)
  <2>1. k \in Packets /\ k.cmd = "CLSE"
    BY <1>2, EmptySeq DEF Pkt, Packets, Cmds
  <2> QED BY <2>1, <1>1, <1>4, SendOne
<1>6. WireInv(sock, Append(d2h, k), Tail(h2d), host, nextid)
  BY <1>2, <1>3, Refuse
<1>7. Others'
  <2>1. batch' \in [Ids \cup {Trans} -> SUBSET {R, W}]
    BY <1>1, <1>4
  <2> QED BY <2>1, <1>1, <1>2, <1>3 DEF Others
<1>8. Local'
  <2>1. \A i \in Ids : batch'[i] = batch[i]
    BY <1>1, <1>4, NotTrans
  <2> QED BY <2>1, <1>1, <1>3 DEF Local
<1>9. Connected'
  <2>1. Greets(d2h') => Greets(d2h)
    BY <1>4, <1>5, GreetsSent
  <2> QED BY <2>1, <1>1, <1>2, <1>3 DEF Connected
<1>10. WireInv(sock', d2h', h2d', host', nextid')
  BY <1>1, <1>2, <1>5, <1>6
<1> QED BY <1>7, <1>8, <1>9, <1>10 DEF IInv

-----------------------------------------------------------------------------
(* A packet of a linked stream is taken.                                   *)

\* adbd takes an acknowledgement of a stream that is linked.
LEMMA TakeOkay ==
  ASSUME NEW sk, NEW dq, NEW hq, NEW ho, NEW nx, WireInv(sk, dq, hq, ho, nx),
         NEW i \in Ids, NEW h \in Hids, Linked(sk, i, h),
         hq # <<>>, Head(hq).cmd = "OKAY", Head(hq).arg0 = h, Head(hq).arg1 = i,
         NEW s \in LocalSockets, s.st = "open", s.peer = h, s.queue = sk[i].queue, R \in s.mask
  PROVE  WireInv([sk EXCEPT ![i] = s], dq, Tail(hq), ho, nx)
<1>0. WireType(sk, dq, hq, ho, nx) /\ Wire(sk, dq, hq, ho, nx)
  BY DEF WireInv
<1> PICK sk2 : sk2 = [sk EXCEPT ![i] = s]
  OBVIOUS
<1> PICK hq2 : hq2 = Tail(hq)
  OBVIOUS
<1>1. sk2[i] = s
  BY <1>0 DEF WireType
<1>2. /\ Count(hq2, "WRTE", h, i) = Count(hq, "WRTE", h, i)
      /\ Count(hq, "OKAY", h, i) = Count(hq2, "OKAY", h, i) + 1 /\ Count(hq2, "OKAY", h, i) \in Nat
      /\ Count(hq, "WRTE", h, i) \in Nat
  <2>1. Bool(Fits(Head(hq), "WRTE", h, i)) = 0 /\ Bool(Fits(Head(hq), "OKAY", h, i)) = 1
    BY DEF Fits, Bool
  <2>2. hq \in Seq(Packets)
    BY <1>0 DEF WireType
  <2> QED BY <2>1, <2>2, CountTaken
<1>3. /\ Count(dq, "WRTE", i, h) \in Nat /\ Bool(ho[h].owes) \in Nat
      /\ Bool(R \in s.mask) = 1 /\ Bool(R \in sk[i].mask) \in Nat
  BY <1>0, CountSome DEF WireType, Bool
<1>4. Up(sk2, ho, i, h) => Up(sk, ho, i, h)
  BY <1>1 DEF Up
<1>5. ASSUME Up(sk, ho, i, h)
      PROVE  /\ Bool(R \in sk[i].mask) + Count(dq, "WRTE", i, h) + Bool(ho[h].owes)
                  + Count(hq, "OKAY", h, i) = 1
             /\ Bool(ho[h].ready) + Count(hq, "WRTE", h, i) + Len(sk[i].queue)
                  + Count(dq, "OKAY", i, h) = 1
  BY <1>0, <1>5 DEF Wire, Credits
<1>6. ASSUME Up(sk, ho, i, h)
      PROVE  /\ Bool(R \in sk2[i].mask) + Count(dq, "WRTE", i, h) + Bool(ho[h].owes)
                  + Count(hq2, "OKAY", h, i) = 1
             /\ Bool(ho[h].ready) + Count(hq2, "WRTE", h, i) + Len(sk2[i].queue)
                  + Count(dq, "OKAY", i, h) = 1
  <2>1. Bool(R \in sk2[i].mask) = 1 /\ sk2[i].queue = sk[i].queue
    BY <1>1, <1>3
  <2> QED BY <2>1, <1>2, <1>3, <1>5, <1>6
<1>7. Credits(sk2, dq, hq2, ho, i, h)
  BY <1>4, <1>6 DEF Credits
<1> QED BY <1>7, Exchange

\* adbd takes data of a stream that is linked: it is written and acknowledged,
\* or some of it is queued.
LEMMA TakeData ==
  ASSUME NEW sk, NEW dq, NEW hq, NEW ho, NEW nx, WireInv(sk, dq, hq, ho, nx),
         NEW i \in Ids, NEW h \in Hids, Linked(sk, i, h),
         hq # <<>>, Head(hq).cmd = "WRTE", Head(hq).arg0 = h, Head(hq).arg1 = i,
         NEW s \in LocalSockets, s.st = "open", s.peer = h, R \in s.mask <=> R \in sk[i].mask,
         NEW dq2,
         \/ sk[i].queue = <<>> /\ s.queue = <<>> /\ dq2 = Append(dq, Pkt("OKAY", i, h, <<>>))
         \/ sk[i].queue = <<>> /\ Len(s.queue) = 1 /\ dq2 = dq
         \/ sk[i].queue # <<>> /\ dq2 = dq
  PROVE  WireInv([sk EXCEPT ![i] = s], dq2, Tail(hq), ho, nx)
<1>0. WireType(sk, dq, hq, ho, nx) /\ Wire(sk, dq, hq, ho, nx)
  BY DEF WireInv
<1> PICK sk2 : sk2 = [sk EXCEPT ![i] = s]
  OBVIOUS
<1> PICK hq2 : hq2 = Tail(hq)
  OBVIOUS
<1> PICK p : p = Pkt("OKAY", i, h, <<>>)
  OBVIOUS
<1>1. sk2[i] = s /\ sk[i] \in LocalSockets /\ dq \in Seq(Packets) /\ hq \in Seq(Packets)
  BY <1>0 DEF WireType
<1>p. p \in Packets /\ p.cmd = "OKAY" /\ p.arg0 = i /\ p.arg1 = h
  BY EmptySeq DEF Pkt, Packets, Cmds
<1>2. /\ Count(hq2, "OKAY", h, i) = Count(hq, "OKAY", h, i)
      /\ Count(hq, "WRTE", h, i) = Count(hq2, "WRTE", h, i) + 1 /\ Count(hq2, "WRTE", h, i) \in Nat
  <2>1. Bool(Fits(Head(hq), "WRTE", h, i)) = 1 /\ Bool(Fits(Head(hq), "OKAY", h, i)) = 0
    BY DEF Fits, Bool
  <2>2. \A c : Count(hq, c, h, i) = Count(hq2, c, h, i) + Bool(Fits(Head(hq), c, h, i))
               /\ Count(hq, c, h, i) \in Nat /\ Count(hq2, c, h, i) \in Nat
    BY <1>1, CountTaken
  <2>3. /\ Count(hq, "OKAY", h, i) = Count(hq2, "OKAY", h, i) + Bool(Fits(Head(hq), "OKAY", h, i))
        /\ Count(hq2, "OKAY", h, i) \in Nat
    BY <2>2
  <2>4. /\ Count(hq, "WRTE", h, i) = Count(hq2, "WRTE", h, i) + Bool(Fits(Head(hq), "WRTE", h, i))
        /\ Count(hq2, "WRTE", h, i) \in Nat
    BY <2>2
  <2> QED BY <2>1, <2>3, <2>4
<1>3. /\ Count(dq, "OKAY", i, h) \in Nat /\ Bool(ho[h].ready) \in Nat
      /\ Bool(R \in s.mask) = Bool(R \in sk[i].mask)
  BY <1>1, CountSome DEF Bool
<1>4. Up(sk2, ho, i, h) => Up(sk, ho, i, h)
  BY <1>1 DEF Up
<1>5. ASSUME Up(sk, ho, i, h)
      PROVE  /\ Bool(R \in sk[i].mask) + Count(dq, "WRTE", i, h) + Bool(ho[h].owes)
                  + Count(hq, "OKAY", h, i) = 1
             /\ Bool(ho[h].ready) + Count(hq, "WRTE", h, i) + Len(sk[i].queue)
                  + Count(dq, "OKAY", i, h) = 1
  BY <1>0, <1>5 DEF Wire, Credits
<1>l. Len(sk[i].queue) \in Nat /\ Len(s.queue) \in Nat /\ (sk[i].queue = <<>> <=> Len(sk[i].queue) = 0)
      /\ (s.queue = <<>> => Len(s.queue) = 0)
  BY <1>1, Shape DEF LocalSockets
<1>6. ASSUME Up(sk, ho, i, h)
      PROVE  /\ Len(s.queue) + Count(dq2, "OKAY", i, h) = 1 /\ Bool(ho[h].ready) = 0
             /\ Count(hq2, "WRTE", h, i) = 0 /\ Count(dq2, "WRTE", i, h) = Count(dq, "WRTE", i, h)
  <2>1. PICK k \in Nat, l \in Nat : k = Len(sk[i].queue) /\ l = Len(s.queue)
    BY <1>l
  <2>2. Bool(ho[h].ready) + Count(hq, "WRTE", h, i) + k + Count(dq, "OKAY", i, h) = 1
    BY <1>5, <1>6, <2>1
  <2>3. /\ k = 0 /\ Count(dq, "OKAY", i, h) = 0 /\ Bool(ho[h].ready) = 0
        /\ Count(hq2, "WRTE", h, i) = 0
    BY <2>2, <1>2, <1>3
  <2>4. sk[i].queue = <<>>
    BY <2>1, <2>3, <1>l
  <2>5. CASE s.queue = <<>> /\ dq2 = Append(dq, p)
    <3>1. Bool(Fits(p, "WRTE", i, h)) = 0 /\ Bool(Fits(p, "OKAY", i, h)) = 1
      BY <1>p DEF Fits, Bool
    <3>2. \A c : Count(dq2, c, i, h) = Count(dq, c, i, h) + Bool(Fits(p, c, i, h))
                 /\ Count(dq, c, i, h) \in Nat
      BY <2>5, <1>1, <1>p, CountSent
    <3>3. Count(dq2, "WRTE", i, h) = Count(dq, "WRTE", i, h) + Bool(Fits(p, "WRTE", i, h))
          /\ Count(dq, "WRTE", i, h) \in Nat
      BY <3>2
    <3>4. Count(dq2, "OKAY", i, h) = Count(dq, "OKAY", i, h) + Bool(Fits(p, "OKAY", i, h))
      BY <3>2
    <3>5. Len(s.queue) = 0
      BY <2>5, <1>l
    <3> QED BY <3>1, <3>3, <3>4, <3>5, <2>3
  <2>6. CASE Len(s.queue) = 1 /\ dq2 = dq
    BY <2>6, <2>3
  <2> QED BY <2>4, <2>5, <2>6
<1>7. ASSUME Up(sk, ho, i, h)
      PROVE  /\ Bool(R \in sk2[i].mask) + Count(dq2, "WRTE", i, h) + Bool(ho[h].owes)
                  + Count(hq2, "OKAY", h, i) = 1
             /\ Bool(ho[h].ready) + Count(hq2, "WRTE", h, i) + Len(sk2[i].queue)
                  + Count(dq2, "OKAY", i, h) = 1
  <2>1. Bool(R \in sk2[i].mask) + Count(dq2, "WRTE", i, h) + Bool(ho[h].owes)
                  + Count(hq2, "OKAY", h, i) = 1
    BY <1>1, <1>2, <1>3, <1>5, <1>6, <1>7
  <2>2. PICK l \in Nat : l = Len(sk2[i].queue)
    BY <1>1, <1>l
  <2>3. l + Count(dq2, "OKAY", i, h) = 1 /\ Bool(ho[h].ready) = 0 /\ Count(hq2, "WRTE", h, i) = 0
    BY <2>2, <1>1, <1>6, <1>7
  <2>4. 0 + 0 + l + Count(dq2, "OKAY", i, h) = 1
    BY <2>3
  <2> QED BY <2>1, <2>2, <2>3, <2>4
<1>8. Credits(sk2, dq2, hq2, ho, i, h)
  BY <1>4, <1>7 DEF Credits
<1>9. \/ dq2 = dq
      \/ \E x \in Packets : /\ x.cmd \in {"OKAY", "WRTE"} /\ x.arg0 = i /\ x.arg1 = h
                            /\ dq2 = Append(dq, x)
  BY <1>p
<1>10. \/ hq2 = hq
       \/ /\ hq # <<>> /\ hq2 = Tail(hq)
          /\ Head(hq).cmd \in {"OKAY", "WRTE"} /\ Head(hq).arg0 = h /\ Head(hq).arg1 = i
  OBVIOUS
<1>11. Credits([sk EXCEPT ![i] = s], dq2, hq2, ho, i, h)
  BY <1>8
<1>12. WireInv([sk EXCEPT ![i] = s], dq2, hq2, ho, nx)
  <2>1. CASE dq2 = dq
    BY <2>1, <1>10, <1>11, Exchange
  <2>2. CASE \E x \in Packets : /\ x.cmd \in {"OKAY", "WRTE"} /\ x.arg0 = i /\ x.arg1 = h
                                /\ dq2 = Append(dq, x)
    <3>1. Linked(sk, i, h) /\ s.st = "open" /\ s.peer = h
      OBVIOUS
    <3>2. WireInv(sk, dq, hq, ho, nx)
      OBVIOUS
    <3> QED BY ONLY <3>1, <3>2, <1>9, <1>10, <1>11, i \in Ids, h \in Hids, s \in LocalSockets, Exchange
  <2> QED BY <2>1, <2>2, <1>9
<1> QED BY <1>12

\* A packet with data or an acknowledgement is of the stream of its socket.
LEMMA SamePeer ==
  ASSUME NEW sk, NEW dq, NEW hq, NEW ho, NEW nx, WireInv(sk, dq, hq, ho, nx),
         NEW i \in Ids, NEW h \in Hids,
         hq # <<>>, Head(hq).cmd \in {"OKAY", "WRTE"}, Head(hq).arg0 = h, Head(hq).arg1 = i,
         sk[i].st = "open" => sk[i].peer \in Hids
  PROVE  /\ sk[i].st = "open" => Linked(sk, i, h)
         /\ Head(hq).cmd = "WRTE" => sk[i].st # "waiting"
<1>1. /\ Matched(sk, dq, ho) /\ Replies(sk, hq, ho) /\ hq \in Seq(Packets)
  BY DEF WireInv, Wire, WireType
<1>2. Head(hq) = hq[1] /\ 1 \in DOMAIN hq
  BY <1>1, Taken, Shape
<1>3. ho[h].id = i /\ (hq[1].cmd = "WRTE" => sk[i].st # "waiting")
  <2>1. \A m \in 1..(1 - 1) : FALSE
    OBVIOUS
  <2> QED BY <2>1, <1>1, <1>2 DEF Replies
<1>4. ASSUME sk[i].st = "open" PROVE Linked(sk, i, h)
  <2>1. PICK g \in Hids : g = sk[i].peer
    BY <1>4
  <2>2. Tie(sk, dq, ho, i, g) /\ Tie(sk, dq, ho, i, h)
    BY <1>3, <1>4, <2>1 DEF Tie, Linked
  <2>3. g = h
    BY <2>2, <1>1 DEF Matched
  <2> QED BY <2>1, <2>3, <1>4 DEF Linked
<1> QED BY <1>2, <1>3, <1>4

\* A packet is handled by one socket.
LEMMA Handled ==
  ASSUME IInv, NEW cmd, receive(cmd), NEW i \in Ids, NEW t \in LocalSockets, NEW y \in Programs,
         sock' = [sock EXCEPT ![i] = t], prog' = [prog EXCEPT ![i] = y],
         batch' = [batch EXCEPT ![Trans] = {}, ![i] = Pending(i, t)],
         cause' \in [Ids -> Whys], nextid' = nextid, online' = online,
         Watched(t, Pending(i, t)), Heard(t, y), Greets(d2h') => Greets(d2h),
         WireInv([sock EXCEPT ![i] = t], d2h', Tail(h2d), host, nextid)
  PROVE  IInv'
<1>1. /\ h2d' = Tail(h2d) /\ host' = host /\ session' = session /\ cnxns' = cnxns
      /\ Ordered(Tail(h2d), online, session = "lost")
  BY Fetch
<1>2. Others /\ Local /\ Connected
  BY DEF IInv
<1>3. /\ batch \in [Ids \cup {Trans} -> SUBSET {R, W}] /\ prog \in [Ids -> Programs]
      /\ sock \in [Ids -> LocalSockets]
  BY DEF IInv, Others, WireInv, WireType
<1>4. Pending(i, t) \subseteq {R, W}
  <2>1. batch[i] \subseteq {R, W}
    BY <1>3
  <2> QED BY <2>1, PendingLess
<1>5. PICK b : b = [batch EXCEPT ![Trans] = {}]
  OBVIOUS
<1>6. b \in [Ids \cup {Trans} -> SUBSET {R, W}] /\ \A j \in Ids : b[j] = batch[j]
  BY <1>3, <1>5, NotTrans
<1>7. batch' = [b EXCEPT ![i] = Pending(i, t)]
  BY <1>5
<1>8. /\ batch' \in [Ids \cup {Trans} -> SUBSET {R, W}] /\ batch'[i] = Pending(i, t)
      /\ \A j \in Ids : j # i => batch'[j] = batch[j]
  BY <1>4, <1>6, <1>7
<1>9. Others'
  <2>1. prog' \in [Ids -> Programs]
    BY <1>3
  <2> QED BY <2>1, <1>1, <1>2, <1>8 DEF Others
<1>10. Local'
  <2> SUFFICES ASSUME NEW j \in Ids PROVE Watched(sock'[j], batch'[j]) /\ Heard(sock'[j], prog'[j])
    BY DEF Local
  <2>1. CASE j = i
    <3>1. sock'[j] = t /\ prog'[j] = y /\ batch'[j] = Pending(i, t)
      BY <2>1, <1>3, <1>8
    <3> QED BY <3>1
  <2>2. CASE j # i
    <3>1. sock'[j] = sock[j] /\ prog'[j] = prog[j] /\ batch'[j] = batch[j]
      BY <2>2, <1>3, <1>8
    <3> QED BY <3>1, <1>2 DEF Local
  <2> QED BY <2>1, <2>2
<1>11. Connected'
  BY <1>1, <1>2 DEF Connected
<1>12. WireInv(sock', d2h', h2d', host', nextid')
  BY <1>1
<1> QED BY <1>9, <1>10, <1>11, <1>12 DEF IInv

-----------------------------------------------------------------------------
(* handle_OKAY and handle_CLSE.                                            *)

\* handle_packet of an OKAY keeps the invariant.
LEMMA Okay ==
  ASSUME IInv, handle_OKAY
  PROVE  IInv'
<1> PICK h : h = Head(h2d).arg0
  OBVIOUS
<1>1. PICK i \in Ids :
        LET s == local_socket_ready([sock[i] EXCEPT !.st = "open",
                                       !.peer = IF @ = None THEN h ELSE @])
        IN  /\ receive("OKAY")
            /\ find_local_socket(Head(h2d).arg1, i) /\ Known(i)
            /\ sock' = [sock EXCEPT ![i] = s]
            /\ prog' = [prog EXCEPT ![i].told = @ \o ready_told(sock[i])]
            /\ batch' = [batch EXCEPT ![Trans] = {}, ![i] = Pending(i, s)]
            /\ nextid' = nextid /\ online' = online /\ d2h' = d2h /\ cause' = cause
  BY Zenon DEF handle_OKAY
<1> PICK o : o = sock[i]
  OBVIOUS
<1> PICK p : p = prog[i]
  OBVIOUS
<1> PICK g : g = IF o.peer = None THEN h ELSE o.peer
  OBVIOUS
<1> PICK m : m = o.mask \cup {R}
  OBVIOUS
<1> PICK s : s = local_socket_ready([sock[i] EXCEPT !.st = "open",
                                       !.peer = IF @ = None THEN h ELSE @])
  OBVIOUS
<1> PICK told : told = p.told \o ready_told(o)
  OBVIOUS
<1> PICK y : y = [p EXCEPT !.told = told]
  BY Zenon
<1>2. /\ receive("OKAY") /\ Head(h2d).arg1 = i /\ o.st \in {"waiting", "open"}
      /\ sock' = [sock EXCEPT ![i] = s]
      /\ prog' = [prog EXCEPT ![i].told = @ \o ready_told(sock[i])]
      /\ batch' = [batch EXCEPT ![Trans] = {}, ![i] = Pending(i, s)]
      /\ nextid' = nextid /\ online' = online /\ d2h' = d2h /\ cause' = cause
  BY <1>1, Zenon DEF find_local_socket, Known
<1>3. Others /\ Local /\ WireInv(sock, d2h, h2d, host, nextid)
  BY DEF IInv
<1>4. /\ sock \in [Ids -> LocalSockets] /\ prog \in [Ids -> Programs] /\ cause \in [Ids -> Whys]
      /\ o \in LocalSockets /\ p \in Programs /\ Watched(o, batch[i]) /\ Heard(o, p)
  BY <1>3 DEF Others, Local, WireInv, WireType
<1>5. /\ h2d # <<>> /\ Head(h2d).cmd = "OKAY" /\ h \in Hids
  BY <1>2, Fetch
<1>6. /\ g \in Hids /\ (o.st = "waiting" => g = h /\ o.mask = {} /\ o.queue = <<>> /\ batch[i] = {})
      /\ (o.st = "open" => g = o.peer)
  BY <1>2, <1>4, <1>5 DEF Watched, LocalSockets
<1>7. s = [o EXCEPT !.st = "open", !.peer = g, !.mask = m] /\ m \in SUBSET {R, W}
  <2>1. PICK z : z = [o EXCEPT !.st = "open", !.peer = g]
    OBVIOUS
  <2>2. s = [z EXCEPT !.mask = @ \cup {R}]
    BY <2>1, <1>4 DEF local_socket_ready, LocalSockets
  <2>3. z.mask = o.mask
    BY <2>1, <1>4 DEF LocalSockets
  <2>4. s = [z EXCEPT !.mask = m]
    BY <2>2, <2>3
  <2> QED BY <2>1, <2>4, <1>4 DEF LocalSockets
<1>8. /\ s \in LocalSockets /\ s.st = "open" /\ s.peer = g /\ s.queue = o.queue /\ s.mask = m
  BY <1>4, <1>6, <1>7 DEF LocalSockets
<1>9. R \in s.mask /\ (W \in s.mask <=> W \in o.mask)
  BY <1>8 DEF R, W
<1>10. Watched(s, Pending(i, s))
  <2>1. Pending(i, s) \subseteq batch[i]
    BY PendingLess, <1>8
  <2>2. g # None
    BY <1>6, SocketsAssumption
  <2>3. s.queue # <<>> <=> W \in s.mask
    BY <1>4, <1>8, <1>9 DEF Watched
  <2>4. W \in Pending(i, s) => W \in s.mask
    BY <2>1, <1>4, <1>9 DEF Watched
  <2> QED BY <2>2, <2>3, <2>4, <1>8, <1>9 DEF Watched
<1>11. prog' = [prog EXCEPT ![i] = y]
  BY <1>2, <1>4
<1>12. y \in Programs /\ Heard(s, y)
  <2>1. ready_told(o) = IF o.st = "waiting" THEN <<"OKAY">> ELSE <<>>
    BY DEF ready_told
  <2>2. p.told \in Seq(Strings)
    BY <1>4 DEF Programs, Strings
  <2>3. CASE o.st = "waiting"
    <3>1. p.told = <<>> /\ p.client
      BY <2>3, <1>4 DEF Heard
    <3>2. told = <<"OKAY">>
      BY <2>1, <2>3, <3>1, ToldType, ConcatEmptySeq
    <3>3. told \in Seq(Strings) /\ Len(told) <= 1
      BY <3>2, ToldType
    <3>4. y \in Programs /\ y.told = told
      BY <3>3, <1>4 DEF Programs, Strings
    <3> QED BY <3>2, <3>3, <3>4, <1>8 DEF Heard
  <2>4. CASE o.st = "open"
    <3>1. told = p.told
      BY <2>1, <2>2, <2>4, ConcatEmptySeq
    <3>2. y = p
      BY <3>1, <1>4 DEF Programs
    <3> QED BY <3>2, <2>4, <1>4, <1>8 DEF Heard
  <2> QED BY <2>3, <2>4, <1>2
<1>13. WireInv([sock EXCEPT ![i] = s], d2h, Tail(h2d), host, nextid)
  <2>1. CASE o.st = "waiting"
    <3>1. s.peer = h /\ s.queue = sock[i].queue /\ R \notin sock[i].mask /\ sock[i].st = "waiting"
      BY <2>1, <1>6, <1>8
    <3> QED BY <3>1, <1>2, <1>3, <1>5, <1>8, <1>9, LinkUp
  <2>2. CASE o.st = "open"
    <3>1. sock[i].st = "open" /\ sock[i].peer = g
      BY <2>2, <1>6
    <3>2. Linked(sock, i, h)
      <4>1. sock[i].st = "open" => sock[i].peer \in Hids
        BY <3>1, <1>6
      <4>2. Head(h2d).cmd \in {"OKAY", "WRTE"} /\ Head(h2d).arg0 = h /\ Head(h2d).arg1 = i
        BY <1>2, <1>5
      <4>3. sock[i].st = "open" => Linked(sock, i, h)
        BY <4>1, <4>2, <1>3, <1>5, SamePeer
      <4> QED BY <4>3, <3>1
    <3>3. s.peer = h /\ s.queue = sock[i].queue
      BY <3>1, <3>2, <1>8 DEF Linked
    <3> QED BY <3>2, <3>3, <1>2, <1>3, <1>5, <1>8, <1>9, TakeOkay
  <2> QED BY <2>1, <2>2, <1>2
<1>14. (Greets(d2h') => Greets(d2h)) /\ WireInv([sock EXCEPT ![i] = s], d2h', Tail(h2d), host, nextid)
  BY <1>2, <1>13
<1>15. cause' \in [Ids -> Whys]
  BY <1>2, <1>4
<1> QED BY <1>2, <1>8, <1>10, <1>11, <1>12, <1>14, <1>15, Handled

\* handle_packet of a CLSE keeps the invariant.
LEMMA Clse ==
  ASSUME IInv, handle_CLSE
  PROVE  IInv'
<1>1. PICK i \in Ids :
        LET r == Closed(sock[i], "host")
        IN  /\ receive("CLSE")
            /\ find_local_socket(Head(h2d).arg1, i) /\ Known(i)
            /\ sock' = [sock EXCEPT ![i] = r.s]
            /\ d2h' = d2h \o r.pkts
            /\ prog' = [prog EXCEPT ![i].told = @ \o r.told]
            /\ cause' = Because(i, "host")
            /\ batch' = [batch EXCEPT ![Trans] = {}, ![i] = Pending(i, r.s)]
            /\ nextid' = nextid /\ online' = online
  BY DEF handle_CLSE
<1> PICK o : o = sock[i]
  OBVIOUS
<1> PICK p : p = prog[i]
  OBVIOUS
<1>2. PICK t, pk, d : t = local_socket_close(o) /\ pk = remote_socket_close(o) /\ d = close_told(o)
  OBVIOUS
<1>3. Closed(o, "host").s = t /\ Closed(o, "host").pkts = pk /\ Closed(o, "host").told = d
  BY <1>2 DEF Closed, Nothing
<1> PICK told : told = p.told \o d
  OBVIOUS
<1> PICK y : y = [p EXCEPT !.told = told]
  OBVIOUS
<1>4. /\ receive("CLSE") /\ o.st \in {"waiting", "open"}
      /\ sock' = [sock EXCEPT ![i] = t] /\ d2h' = d2h \o pk
      /\ prog' = [prog EXCEPT ![i].told = @ \o d]
      /\ cause' = Because(i, "host")
      /\ batch' = [batch EXCEPT ![Trans] = {}, ![i] = Pending(i, t)]
      /\ nextid' = nextid /\ online' = online
  BY <1>1, <1>3 DEF Known
<1>5. Others /\ Local /\ WireInv(sock, d2h, h2d, host, nextid)
  BY DEF IInv
<1>6. /\ sock \in [Ids -> LocalSockets] /\ prog \in [Ids -> Programs] /\ cause \in [Ids -> Whys]
      /\ o \in LocalSockets /\ p \in Programs /\ Watched(o, batch[i]) /\ Heard(o, p)
      /\ d2h \in Seq(Packets)
  BY <1>5 DEF Others, Local, WireInv, WireType
<1>7. h2d # <<>> /\ Head(h2d).cmd = "CLSE"
  BY <1>4, Fetch
<1>8. /\ t \in LocalSockets /\ t.st \in {"closing", "gone"} /\ Moves(i, o, t, pk)
      /\ Watched(t, IF t.st = "gone" THEN {} ELSE batch[i])
  BY <1>2, <1>4, <1>6, Closing
<1>9. Watched(t, Pending(i, t))
  BY <1>8, PendingLess, WatchedLess
<1>10. WireInv([sock EXCEPT ![i] = t], d2h', Tail(h2d), host, nextid)
  <2>1. WireInv(sock, d2h, Tail(h2d), host, nextid)
    BY <1>5, <1>7, Pop
  <2>2. Moves(i, sock[i], t, pk)
    BY <1>8
  <2> QED BY <2>1, <2>2, <1>4, <1>8, Moved
<1>11. Greets(d2h') => Greets(d2h)
  <2>1. pk \in Seq(Packets) /\ \A k \in DOMAIN pk : pk[k].cmd # "CNXN"
    BY <1>8, MovesType
  <2> QED BY <2>1, <1>4, <1>6, NotGreeting
<1>12. prog' = [prog EXCEPT ![i] = y]
  BY <1>4, <1>6
<1>13. cause' \in [Ids -> Whys]
  BY <1>4, <1>6 DEF Because, Whys
<1>14. y \in Programs /\ Heard(t, y)
  <2>1. d = IF o.st = "waiting" THEN <<"FAIL">> ELSE <<>>
    BY <1>2 DEF close_told
  <2>2. p.told \in Seq(Strings)
    BY <1>6 DEF Programs, Strings
  <2>3. CASE o.st = "waiting"
    <3>1. p.told = <<>> /\ p.inb = <<>> /\ o.queue = <<>>
      BY <2>3, <1>6 DEF Heard, Watched
    <3>2. told = <<"FAIL">>
      BY <2>1, <2>3, <3>1, ToldType, ConcatEmptySeq
    <3>3. told \in Seq(Strings) /\ Len(told) <= 1
      BY <3>2, ToldType
    <3>4. y \in Programs /\ y.told = told /\ y.inb = <<>>
      BY <3>1, <3>3, <1>6 DEF Programs, Strings
    <3>5. t.st = "gone"
      BY <3>1, <1>2, Blank DEF local_socket_close
    <3> QED BY <3>3, <3>4, <3>5 DEF Heard
  <2>4. CASE o.st = "open"
    <3>1. told = p.told
      BY <2>1, <2>2, <2>4, ConcatEmptySeq
    <3>2. y = p
      BY <3>1, <1>6 DEF Programs
    <3>3. Heard(t, p)
      BY <2>4, <1>6, <1>8 DEF Heard
    <3> QED BY <3>2, <3>3, <1>6
  <2> QED BY <2>3, <2>4, <1>4
<1> QED BY <1>4, <1>8, <1>9, <1>10, <1>11, <1>12, <1>13, <1>14, Handled

-----------------------------------------------------------------------------
(* handle_WRTE and local_socket_enqueue.                                   *)

\* What local_socket_enqueue returns for a linked socket s: the socket, the
\* packets, and what the program gets.
Enqueues(i, h, s, data, r) ==
  /\ r.s \in LocalSockets /\ r.told = <<>> /\ r.took = 0 /\ r.why \in Whys
  /\ r.wrote \in Seq(Nat) /\ Len(r.wrote) <= room(i)
  /\ Watched(r.s, IF r.s.st = "gone" THEN {} ELSE batch[i])
  /\ \/ r.s.st \in {"closing", "gone"} /\ Moves(i, s, r.s, r.pkts)
     \/ /\ r.s.st = "open" /\ r.s.peer = h /\ (R \in r.s.mask <=> R \in s.mask)
        /\ \/ s.queue = <<>> /\ r.s.queue = <<>> /\ r.pkts = <<Pkt("OKAY", i, h, <<>>)>>
           \/ s.queue = <<>> /\ Len(r.s.queue) = 1 /\ r.pkts = <<>>
           \/ s.queue # <<>> /\ r.pkts = <<>>

\* What local_socket_enqueue returns for a linked socket.
LEMMA Enqueue ==
  ASSUME prog \in [Ids -> Programs], NEW i \in Ids, NEW h \in Hids, NEW data \in Seq(Nat),
         sock[i] \in LocalSockets, Watched(sock[i], batch[i]), sock[i].st = "open",
         sock[i].peer = h, Head(h2d).arg0 = h
  PROVE  Enqueues(i, h, sock[i], data, local_socket_enqueue(i, data))
<1> PICK s : s = sock[i]
  OBVIOUS
<1> PICK n : n = adb_write(i, data)
  OBVIOUS
<1> PICK r : r = local_socket_enqueue(i, data)
  OBVIOUS
<1>1. r = CASE s.queue = <<>> /\ Broken(i) -> Closed(s, "error")
            [] s.queue = <<>> /\ ~Broken(i) /\ n = Len(data) ->
                 [Nothing(s) EXCEPT !.wrote = data, !.pkts = send_ready(i, h)]
            [] s.queue = <<>> /\ ~Broken(i) /\ n < Len(data) ->
                 [Nothing(s) EXCEPT !.wrote = SubSeq(data, 1, n),
                                    !.s = watch_write([s EXCEPT !.queue = <<rest(data, n)>>])]
            [] OTHER -> [Nothing(s) EXCEPT !.s = watch_write([s EXCEPT !.queue = Append(@, data)])]
  BY DEF local_socket_enqueue
<1>2. /\ n \in 0..Len(data) /\ n <= room(i) /\ room(i) \in 0..FdCap
      /\ SubSeq(data, 1, n) \in Seq(Nat) /\ Len(SubSeq(data, 1, n)) = n
      /\ rest(data, n) \in Seq(Nat)
  BY Written
<1>3. s \in LocalSockets /\ Watched(s, batch[i]) /\ s.st = "open" /\ s.peer = h
      /\ s.queue \in Seq(Seq(Nat)) /\ s.mask \subseteq {R, W}
  BY DEF LocalSockets
<1>e. <<>> \in Seq(Nat) /\ Len(<<>>) <= room(i)
  <2>1. room(i) >= 0
    BY <1>2, SocketsAssumption
  <2>2. Len(<<>>) = 0
    BY ToldType
  <2> QED BY <2>1, <2>2, EmptySeq
<1>f. Len(data) \in Nat /\ ~(n = Len(data) /\ n < Len(data)) /\ (n = Len(data) \/ n < Len(data))
  <2>1. PICK k \in Nat : k = Len(data)
    BY Shape
  <2> QED BY <2>1, <1>2
\* A socket with a queue.
<1>w. ASSUME NEW q \in Seq(Seq(Nat)), q # <<>>
      PROVE  LET t == watch_write([s EXCEPT !.queue = q]) IN
             /\ t \in LocalSockets /\ t.st = "open" /\ t.peer = h /\ t.queue = q
             /\ (R \in t.mask <=> R \in s.mask) /\ Watched(t, batch[i])
  <2> PICK u : u = [s EXCEPT !.queue = q]
    OBVIOUS
  <2> PICK m : m = s.mask \cup {W}
    OBVIOUS
  <2> PICK t : t = watch_write([s EXCEPT !.queue = q])
    OBVIOUS
  <2>1. t = [u EXCEPT !.mask = m] /\ m \in SUBSET {R, W}
    BY <1>3 DEF watch_write, LocalSockets
  <2>2. u \in LocalSockets /\ u.st = "open" /\ u.peer = h /\ u.queue = q
    BY <1>3 DEF LocalSockets
  <2>3. t \in LocalSockets /\ t.st = "open" /\ t.peer = h /\ t.queue = q /\ t.mask = m
    BY <2>1, <2>2 DEF LocalSockets
  <2>4. W \in m /\ (R \in m <=> R \in s.mask)
    BY DEF R, W
  <2>5. h # None
    BY SocketsAssumption
  <2>6. Watched(t, batch[i])
    BY <2>3, <2>4, <2>5, <1>3, <1>w DEF Watched
  <2> QED BY <2>3, <2>4, <2>6
<1>4. CASE s.queue = <<>> /\ Broken(i)
  <2>1. r = Closed(s, "error")
    BY <1>1, <1>4
  <2>2. PICK t, pk, d : t = local_socket_close(s) /\ pk = remote_socket_close(s) /\ d = close_told(s)
    OBVIOUS
  <2>3. /\ r.s = t /\ r.pkts = pk /\ r.told = d /\ r.why = "error" /\ r.took = 0 /\ r.wrote = <<>>
    BY <2>1, <2>2 DEF Closed, Nothing
  <2>4. d = <<>>
    BY <2>2, <1>3 DEF close_told
  <2>5. /\ t \in LocalSockets /\ t.st \in {"closing", "gone"} /\ Moves(i, s, t, pk)
        /\ Watched(t, IF t.st = "gone" THEN {} ELSE batch[i])
    BY <2>2, <1>3, Closing
  <2> QED BY <2>3, <2>4, <2>5, <1>e DEF Enqueues, Whys
<1>5. CASE s.queue = <<>> /\ ~Broken(i) /\ n = Len(data)
  <2>1. r = [Nothing(s) EXCEPT !.wrote = data, !.pkts = send_ready(i, h)]
    BY <1>1, <1>5, <1>f
  <2>2. /\ r.s = s /\ r.pkts = send_ready(i, h) /\ r.told = <<>> /\ r.why = "none" /\ r.took = 0
        /\ r.wrote = data
    BY <2>1 DEF Nothing
  <2>3. r.pkts = <<Pkt("OKAY", i, h, <<>>)>>
    BY <2>2 DEF send_ready
  <2>4. Len(r.wrote) <= room(i)
    BY <2>2, <1>2, <1>5
  <2> QED BY <2>2, <2>3, <2>4, <1>3, <1>5 DEF Enqueues, Whys
<1>6. CASE s.queue = <<>> /\ ~Broken(i) /\ n < Len(data)
  <2>1. PICK q : q = <<rest(data, n)>>
    OBVIOUS
  <2>2. PICK t : t = watch_write([s EXCEPT !.queue = q])
    OBVIOUS
  <2>3. r = [Nothing(s) EXCEPT !.wrote = SubSeq(data, 1, n), !.s = t]
    BY <1>1, <1>6, <1>f, <2>1, <2>2
  <2>4. /\ r.s = t /\ r.pkts = <<>> /\ r.told = <<>> /\ r.why = "none" /\ r.took = 0
        /\ r.wrote = SubSeq(data, 1, n)
    BY <2>3 DEF Nothing
  <2>5. q \in Seq(Seq(Nat)) /\ q # <<>> /\ Len(q) = 1
    BY <2>1, <1>2
  <2>6. /\ t \in LocalSockets /\ t.st = "open" /\ t.peer = h /\ t.queue = q
        /\ (R \in t.mask <=> R \in s.mask) /\ Watched(t, batch[i])
    BY <2>2, <2>5, <1>w
  <2>7. Len(r.wrote) <= room(i) /\ r.wrote \in Seq(Nat)
    BY <2>4, <1>2
  <2> QED BY <2>4, <2>5, <2>6, <2>7, <1>6 DEF Enqueues, Whys
<1>7. CASE s.queue # <<>>
  <2>1. PICK q : q = Append(s.queue, data)
    OBVIOUS
  <2>2. PICK t : t = watch_write([s EXCEPT !.queue = q])
    OBVIOUS
  <2>3. r = [Nothing(s) EXCEPT !.s = t]
    BY <1>1, <1>3, <1>7, <2>1, <2>2 DEF LocalSockets
  <2>4. /\ r.s = t /\ r.pkts = <<>> /\ r.told = <<>> /\ r.why = "none" /\ r.took = 0
        /\ r.wrote = <<>>
    BY <2>3 DEF Nothing
  <2>5. q \in Seq(Seq(Nat)) /\ q # <<>>
    BY <2>1, <1>3, Appended
  <2>6. /\ t \in LocalSockets /\ t.st = "open" /\ t.peer = h /\ t.queue = q
        /\ (R \in t.mask <=> R \in s.mask) /\ Watched(t, batch[i])
    BY <2>2, <2>5, <1>w
  <2> QED BY <2>4, <2>6, <1>7, <1>e DEF Enqueues, Whys
<1> QED BY <1>4, <1>5, <1>6, <1>7, <1>f

\* handle_packet of a WRTE keeps the invariant.
LEMMA Wrte ==
  ASSUME IInv, handle_WRTE
  PROVE  IInv'
<1> PICK h : h = Head(h2d).arg0
  OBVIOUS
<1> PICK data : data = Head(h2d).data
  OBVIOUS
<1>1. PICK i \in Ids :
        LET r == local_socket_enqueue(i, Head(h2d).data)
        IN  /\ receive("WRTE")
            /\ find_local_socket(Head(h2d).arg1, i) /\ Known(i)
            /\ sock' = [sock EXCEPT ![i] = r.s]
            /\ d2h' = d2h \o r.pkts
            /\ prog' = [prog EXCEPT ![i] = Served(i, r)]
            /\ cause' = IF r.why # "none" THEN Because(i, r.why) ELSE cause
            /\ batch' = [batch EXCEPT ![Trans] = {}, ![i] = Pending(i, r.s)]
            /\ nextid' = nextid /\ online' = online
  BY DEF handle_WRTE
<1> PICK r : r = local_socket_enqueue(i, data)
  OBVIOUS
<1> PICK o : o = sock[i]
  OBVIOUS
<1> PICK p : p = prog[i]
  OBVIOUS
<1> PICK t : t = r.s
  OBVIOUS
<1> PICK y : y = Served(i, r)
  OBVIOUS
<1>2. /\ receive("WRTE") /\ Head(h2d).arg1 = i /\ o.st \in {"waiting", "open"}
      /\ sock' = [sock EXCEPT ![i] = t] /\ d2h' = d2h \o r.pkts
      /\ prog' = [prog EXCEPT ![i] = y]
      /\ cause' = IF r.why # "none" THEN Because(i, r.why) ELSE cause
      /\ batch' = [batch EXCEPT ![Trans] = {}, ![i] = Pending(i, t)]
      /\ nextid' = nextid /\ online' = online
  BY <1>1 DEF find_local_socket, Known
<1>3. Others /\ Local /\ WireInv(sock, d2h, h2d, host, nextid)
  BY DEF IInv
<1>4. /\ sock \in [Ids -> LocalSockets] /\ prog \in [Ids -> Programs] /\ cause \in [Ids -> Whys]
      /\ o \in LocalSockets /\ p \in Programs /\ Watched(o, batch[i]) /\ Heard(o, p)
      /\ d2h \in Seq(Packets)
  BY <1>3 DEF Others, Local, WireInv, WireType
<1>5. h2d # <<>> /\ Head(h2d) \in Packets /\ Head(h2d).cmd = "WRTE" /\ h \in Hids
  BY <1>2, Fetch
<1>6. data \in Seq(Nat)
  BY <1>5 DEF Packets
<1>7. o.st = "open" /\ o.peer = h
  <2>1. sock[i].st = "open" => sock[i].peer \in Hids
    BY <1>4 DEF Watched, LocalSockets
  <2>2. Head(h2d).cmd \in {"OKAY", "WRTE"} /\ Head(h2d).arg0 = h /\ Head(h2d).arg1 = i
    BY <1>2, <1>5
  <2>3. (sock[i].st = "open" => Linked(sock, i, h)) /\ (Head(h2d).cmd = "WRTE" => sock[i].st # "waiting")
    BY <2>1, <2>2, <1>3, <1>5, SamePeer
  <2> QED BY <2>3, <1>2, <1>5 DEF Linked
<1>8. Enqueues(i, h, o, data, r)
  <2>1. /\ sock[i] \in LocalSockets /\ Watched(sock[i], batch[i]) /\ sock[i].st = "open"
        /\ sock[i].peer = h /\ Head(h2d).arg0 = h
    BY <1>4, <1>7
  <2>2. Enqueues(i, h, sock[i], data, local_socket_enqueue(i, data))
    BY <2>1, <1>4, <1>5, <1>6, Enqueue
  <2> QED BY <2>2
<1>9. /\ t \in LocalSockets /\ r.told = <<>> /\ r.took = 0 /\ r.why \in Whys
      /\ r.wrote \in Seq(Nat) /\ Len(r.wrote) <= room(i)
      /\ Watched(t, IF t.st = "gone" THEN {} ELSE batch[i])
      /\ t.st \in {"open", "closing", "gone"}
  BY <1>8 DEF Enqueues
<1>10. Watched(t, Pending(i, t))
  BY <1>9, PendingLess, WatchedLess
<1>11. y \in Programs /\ Heard(t, y)
  <2>1. r.told \in Seq(Strings) /\ r.took \in Nat
    <3>1. r.told = <<>> /\ r.took = 0
      BY <1>9
    <3>2. r.told \in Seq(Strings)
      BY <3>1, ToldType
    <3>3. r.took \in Nat
      BY <3>1
    <3> QED BY <3>2, <3>3
  <2>2. Serves(prog[i], r, Served(i, r))
    BY <2>1, <1>4, <1>9, ServedBy
  <2>3. y \in Programs /\ y.told = p.told \o <<>> /\ y.client = p.client
    BY <2>2, <1>9 DEF Serves
  <2>4. p.told \in Seq(Strings)
    BY <1>4 DEF Programs, Strings
  <2>5. y.told = p.told
    BY <2>3, <2>4, ConcatEmptySeq
  <2>6. (p.client => p.told = <<"OKAY">>) /\ Len(p.told) <= 1
    BY <1>4, <1>7 DEF Heard
  <2> QED BY <2>3, <2>5, <2>6, <1>9 DEF Heard
<1>12. WireInv([sock EXCEPT ![i] = t], d2h', Tail(h2d), host, nextid) /\ (Greets(d2h') => Greets(d2h))
  <2>1. CASE t.st \in {"closing", "gone"} /\ Moves(i, o, t, r.pkts)
    <3>1. PICK sk : sk = [sock EXCEPT ![i] = t]
      OBVIOUS
    <3>2. Moves(i, sock[i], t, r.pkts)
      BY <2>1
    <3>3. WireInv(sk, d2h \o r.pkts, h2d, host, nextid)
      BY <3>1, <3>2, <1>3, <1>9, Moved
    <3>4. Head(h2d).cmd \in {"OKAY", "WRTE"} => sk[Head(h2d).arg1].st \notin {"open", "waiting"}
      BY <3>1, <2>1, <1>2, <1>4
    <3>5. WireInv(sk, d2h \o r.pkts, Tail(h2d), host, nextid)
      BY <3>3, <3>4, <1>5, Pop
    <3>6. r.pkts \in Seq(Packets) /\ \A k \in DOMAIN r.pkts : r.pkts[k].cmd # "CNXN"
      BY <2>1, MovesType
    <3>7. Greets(d2h \o r.pkts) => Greets(d2h)
      BY <3>6, <1>4, NotGreeting
    <3> QED BY <3>1, <3>5, <3>7, <1>2
  <2>2. CASE /\ t.st = "open" /\ t.peer = h /\ (R \in t.mask <=> R \in o.mask)
             /\ \/ o.queue = <<>> /\ t.queue = <<>> /\ r.pkts = <<Pkt("OKAY", i, h, <<>>)>>
                \/ o.queue = <<>> /\ Len(t.queue) = 1 /\ r.pkts = <<>>
                \/ o.queue # <<>> /\ r.pkts = <<>>
    <3>1. PICK k : k = Pkt("OKAY", i, h, <<>>)
      OBVIOUS
    <3>2. k \in Packets /\ k.cmd = "OKAY"
      BY <3>1, <1>5, EmptySeq DEF Pkt, Packets, Cmds
    <3>3. d2h \o <<k>> = Append(d2h, k) /\ d2h \o <<>> = d2h
      BY <3>2, <1>4, SendOne, ConcatEmptySeq
    <3>4. \/ sock[i].queue = <<>> /\ t.queue = <<>> /\ d2h' = Append(d2h, k)
          \/ sock[i].queue = <<>> /\ Len(t.queue) = 1 /\ d2h' = d2h
          \/ sock[i].queue # <<>> /\ d2h' = d2h
      BY <2>2, <3>1, <3>3, <1>2
    <3>5. PICK dq2 : dq2 = d2h'
      OBVIOUS
    <3>6. Linked(sock, i, h) /\ t.st = "open" /\ t.peer = h /\ (R \in t.mask <=> R \in sock[i].mask)
      BY <2>2, <1>7 DEF Linked
    <3>7. \/ sock[i].queue = <<>> /\ t.queue = <<>> /\ dq2 = Append(d2h, Pkt("OKAY", i, h, <<>>))
          \/ sock[i].queue = <<>> /\ Len(t.queue) = 1 /\ dq2 = d2h
          \/ sock[i].queue # <<>> /\ dq2 = d2h
      BY <3>1, <3>4, <3>5
    <3>8. WireInv([sock EXCEPT ![i] = t], dq2, Tail(h2d), host, nextid)
      <4>1. /\ h2d # <<>> /\ Head(h2d).cmd = "WRTE" /\ Head(h2d).arg0 = h /\ Head(h2d).arg1 = i
            /\ t \in LocalSockets /\ WireInv(sock, d2h, h2d, host, nextid) /\ h \in Hids
        BY <1>2, <1>3, <1>5, <1>9
      <4> QED BY ONLY <4>1, <3>6, <3>7, i \in Ids, TakeData
    <3>9. Greets(d2h') => Greets(d2h)
      <4>1. Greets(Append(d2h, k)) => Greets(d2h)
        BY <3>2, <1>4, GreetsSent
      <4> QED BY <4>1, <3>4
    <3> QED BY <3>5, <3>8, <3>9
  <2> QED BY <2>1, <2>2, <1>8 DEF Enqueues
<1>13. cause' \in [Ids -> Whys]
  BY <1>2, <1>4, <1>9 DEF Because
<1> QED BY <1>2, <1>9, <1>10, <1>11, <1>12, <1>13, Handled

-----------------------------------------------------------------------------
(* The host connects, loses the connection, opens and closes.              *)

\* The host moves: adbd has not seen it yet.
LEMMA HostMoves ==
  ASSUME IInv, UNCHANGED hostOnly, WireInv(sock, d2h', h2d', host', nextid), Connected',
         session' \in {"off", "wait", "on", "lost"}, cnxns' \in 0..MaxCnxn
  PROVE  IInv'
<1>1. /\ sock' = sock /\ nextid' = nextid /\ online' = online /\ batch' = batch
      /\ prog' = prog /\ cause' = cause
  BY DEF hostOnly
<1>2. Others /\ Local
  BY DEF IInv
<1>3. Others'
  BY <1>1, <1>2 DEF Others
<1>4. Local'
  BY <1>1, <1>2 DEF Local
<1>5. WireInv(sock', d2h', h2d', host', nextid')
  BY <1>1
<1> QED BY <1>3, <1>4, <1>5 DEF IInv

\* The host forgets all its streams.
LEMMA Forgets ==
  ASSUME NEW sk, NEW dq, NEW hq, NEW ho, NEW nx, WireInv(sk, dq, hq, ho, nx), NEW ho2,
         ho2 = [h \in Hids |-> IF ho[h].st = "none" THEN ho[h]
                               ELSE [ho[h] EXCEPT !.st = "closed"]]
  PROVE  /\ WireInv(sk, dq, hq, ho2, nx)
         /\ \A h \in Hids : ho2[h].st \notin {"opening", "open"}
<1>1. ho \in [Hids -> HostStreams]
  BY DEF WireInv, WireType
<1>2. ASSUME NEW h \in Hids
      PROVE  /\ ho2[h] \in HostStreams /\ ho2[h].st \notin {"opening", "open"}
             /\ \/ ho2[h] = ho[h]
                \/ /\ ho[h].st # "none" /\ ho2[h].st \in {"closed", "ended"}
                   /\ ho2[h].id = ho[h].id
                   /\ ho2[h].ready = ho[h].ready /\ ho2[h].owes = ho[h].owes
  <2>1. PICK r \in HostStreams : r = ho[h]
    BY <1>1
  <2>2. CASE r.st = "none"
    BY <2>1, <2>2
  <2>3. CASE r.st # "none"
    <3>1. PICK z : z = [r EXCEPT !.st = "closed"]
      OBVIOUS
    <3>2. ho2[h] = z
      BY <2>1, <2>3, <3>1
    <3>3. z \in HostStreams /\ z.st = "closed" /\ z.id = r.id /\ z.ready = r.ready /\ z.owes = r.owes
      BY <3>1 DEF HostStreams
    <3> QED BY <2>1, <2>3, <3>2, <3>3
  <2> QED BY <2>2, <2>3
<1>3. ho2 \in [Hids -> HostStreams]
  BY <1>2
<1>4. \A h \in Hids : \/ ho2[h] = ho[h]
                      \/ /\ ho[h].st # "none" /\ ho2[h].st \in {"closed", "ended"}
                         /\ ho2[h].id = ho[h].id
                         /\ ho2[h].ready = ho[h].ready /\ ho2[h].owes = ho[h].owes
  BY <1>2
<1>5. WireInv(sk, dq, hq, ho2, nx)
  BY <1>3, <1>4, HostForgets
<1> QED BY <1>2, <1>5

\* The host's CNXN keeps the invariant.
LEMMA Connects ==
  ASSUME IInv, host_connect
  PROVE  IInv'
<1> PICK k : k = Pkt("CNXN", 0, 0, <<>>)
  OBVIOUS
<1>1. /\ session \in {"off", "on"} /\ cnxns < MaxCnxn /\ session' = "wait" /\ cnxns' = cnxns + 1
      /\ h2d' = Append(h2d, k)
      /\ host' = [h \in Hids |-> IF host[h].st = "none" THEN host[h]
                                 ELSE [host[h] EXCEPT !.st = "closed"]]
      /\ d2h' = d2h /\ online' = online
  BY DEF host_connect, hostOnly
<1>u. UNCHANGED hostOnly
  BY DEF host_connect
<1>2. Connected /\ WireInv(sock, d2h, h2d, host, nextid) /\ h2d \in Seq(Packets)
  BY DEF IInv, WireInv, WireType
<1>3. k \in Packets /\ k.cmd = "CNXN"
  BY EmptySeq DEF Pkt, Packets, Cmds
<1>4. PICK ho2 : ho2 = host'
  OBVIOUS
<1>5. WireInv(sock, d2h, h2d, ho2, nextid) /\ \A h \in Hids : ho2[h].st \notin {"opening", "open"}
  BY <1>1, <1>2, <1>4, Forgets
<1>6. WireInv(sock, d2h, Append(h2d, k), ho2, nextid)
  BY <1>3, <1>5, HostSends
<1>7. cnxns' \in 0..MaxCnxn
  <2>1. cnxns \in 0..MaxCnxn
    BY DEF IInv, Others
  <2> QED BY <2>1, <1>1, SocketsAssumption
<1>8. Connected'
  <2>1. Greets(d2h) => online
    BY <1>1, <1>2 DEF Connected
  <2>2. PICK lost : lost = FALSE
    OBVIOUS
  <2>3. Ordered(h2d, online, lost)
    BY <2>2, <1>1, <1>2 DEF Connected, Ordered
  <2>4. Ordered(Append(h2d, k), online, lost)
    BY <2>2, <2>3, <1>2, <1>3, OrderedSent
  <2>5. Ordered(h2d', online', (session = "lost")')
    BY <2>2, <2>4, <1>1 DEF Ordered
  <2> QED BY <2>1, <2>5, <1>1, <1>4, <1>5 DEF Connected
<1>9. WireInv(sock, d2h', h2d', host', nextid)
  BY <1>1, <1>4, <1>6
<1> QED BY <1>1, <1>u, <1>7, <1>8, <1>9, HostMoves

\* A link that is lost keeps the invariant.
LEMMA Loses ==
  ASSUME IInv, link_lost
  PROVE  IInv'
<1> PICK k : k = Pkt("SYNC0", 0, 0, <<>>)
  OBVIOUS
<1>1. /\ session \in {"wait", "on"} /\ session' = "lost" /\ cnxns' = cnxns
      /\ host' = [h \in Hids |-> IF host[h].st = "none" THEN host[h]
                                 ELSE [host[h] EXCEPT !.st = "closed"]]
      /\ d2h' = <<>> /\ online' = online
  BY DEF link_lost, hostOnly
<1>u. UNCHANGED hostOnly
  BY DEF link_lost
<1>n. PICK n \in 0..Len(h2d) : h2d' = Append(SubSeq(h2d, 1, n), k)
  BY DEF link_lost
<1>2. Connected /\ WireInv(sock, d2h, h2d, host, nextid) /\ h2d \in Seq(Packets)
  BY DEF IInv, WireInv, WireType
<1>3. k \in Packets /\ k.cmd = "SYNC0"
  BY EmptySeq DEF Pkt, Packets, Cmds
<1>4. PICK ho2 : ho2 = host'
  OBVIOUS
<1>5. WireInv(sock, d2h, h2d, ho2, nextid) /\ \A h \in Hids : ho2[h].st \notin {"opening", "open"}
  BY <1>1, <1>2, <1>4, Forgets
<1>6. WireInv(sock, <<>>, SubSeq(h2d, 1, n), ho2, nextid)
  BY <1>5, Lose
<1>7. WireInv(sock, <<>>, Append(SubSeq(h2d, 1, n), k), ho2, nextid)
  BY <1>3, <1>6, HostSends
<1>8. Connected'
  <2>1. Ordered(h2d, online, FALSE)
    BY <1>1, <1>2 DEF Connected, Ordered
  <2>2. Ordered(Append(SubSeq(h2d, 1, n), k), online, TRUE)
    BY <2>1, <1>2, <1>3, OrderedLost
  <2>3. Ordered(h2d', online', (session = "lost")')
    BY <2>2, <1>1, <1>n DEF Ordered
  <2>4. ~Greets(d2h')
    BY <1>1 DEF Greets
  <2> QED BY <2>3, <2>4, <1>1, <1>4, <1>5 DEF Connected
<1>9. WireInv(sock, d2h', h2d', host', nextid)
  BY <1>1, <1>n, <1>4, <1>7
<1>10. cnxns' \in 0..MaxCnxn
  BY <1>1 DEF IInv, Others
<1> QED BY <1>1, <1>u, <1>8, <1>9, <1>10, HostMoves

\* A packet of a host that is connected.
LEMMA Speaks ==
  ASSUME Connected, session = "on", h2d \in Seq(Packets),
         NEW k \in Packets, k.cmd # "SYNC0"
  PROVE  Ordered(Append(h2d, k), online, FALSE) /\ online
<1>1. online
  BY DEF Connected
<1>2. Ordered(h2d, online, FALSE)
  BY DEF Connected, Ordered
<1> QED BY <1>1, <1>2, OrderedSent

\* It speaks, and its connection stays.
LEMMA StaysConnected ==
  ASSUME Connected, session = "on", h2d \in Seq(Packets),
         NEW k \in Packets, k.cmd # "SYNC0",
         h2d' = h2d \/ h2d' = Append(h2d, k),
         online' = online, session' = session, Greets(d2h') => Greets(d2h)
  PROVE  Connected'
<1>1. Ordered(Append(h2d, k), online, FALSE) /\ online
  BY Speaks
<1>2. Ordered(h2d, online, FALSE)
  BY DEF Connected, Ordered
<1>3. Ordered(h2d', online', (session = "lost")')
  BY <1>1, <1>2 DEF Ordered
<1> QED BY <1>1, <1>3 DEF Connected

\* An OPEN of the host keeps the invariant.
LEMMA Opens ==
  ASSUME IInv, NEW h \in Hids, host_open(h)
  PROVE  IInv'
<1> PICK k : k = Pkt("OPEN", h, 0, <<>>)
  OBVIOUS
<1> PICK r : r = [host[h] EXCEPT !.st = "opening"]
  OBVIOUS
<1>1. /\ session = "on" /\ host[h].st = "none" /\ host' = [host EXCEPT ![h].st = "opening"]
      /\ h2d' = Append(h2d, k)
      /\ d2h' = d2h /\ session' = session /\ cnxns' = cnxns /\ online' = online
  BY DEF host_open, hostOnly
<1>u. UNCHANGED hostOnly
  BY DEF host_open
<1>2. Connected /\ WireInv(sock, d2h, h2d, host, nextid) /\ h2d \in Seq(Packets)
      /\ host \in [Hids -> HostStreams] /\ HostSide(sock, d2h, h2d, host, h)
  BY DEF IInv, WireInv, WireType, Wire
<1>3. k \in Packets /\ k.cmd = "OPEN"
  BY EmptySeq DEF Pkt, Packets, Cmds
<1>4. host' = [host EXCEPT ![h] = r]
  BY <1>1, <1>2
<1>5. host[h] = Silent
  BY <1>1, <1>2 DEF HostSide
<1>6. r \in HostStreams /\ r.st = "opening" /\ r.id = 0 /\ ~r.ready /\ ~r.owes
  <2>1. host[h] \in HostStreams
    BY <1>2
  <2>2. r \in HostStreams /\ r.st = "opening" /\ r.id = host[h].id /\ r.ready = host[h].ready
        /\ r.owes = host[h].owes
    BY <2>1 DEF HostStreams
  <2>3. host[h].id = 0 /\ host[h].ready = FALSE /\ host[h].owes = FALSE
    BY <1>5 DEF Silent
  <2> QED BY <2>2, <2>3
<1>7. WireInv(sock, d2h, Append(h2d, k), [host EXCEPT ![h] = r], nextid)
  BY <1>1, <1>2, <1>6, HostOpens
<1>8. Connected'
  BY <1>1, <1>2, <1>3, StaysConnected
<1>9. WireInv(sock, d2h', h2d', host', nextid)
  BY <1>1, <1>4, <1>7
<1>10. cnxns' \in 0..MaxCnxn /\ session' \in {"off", "wait", "on", "lost"}
  BY <1>1 DEF IInv, Others
<1> QED BY <1>u, <1>8, <1>9, <1>10, HostMoves

\* A CLSE of the host keeps the invariant.
LEMMA HostCloses ==
  ASSUME IInv, NEW h \in Hids, host_close(h)
  PROVE  IInv'
<1> PICK i : i = host[h].id
  OBVIOUS
<1> PICK k : k = Pkt("CLSE", h, i, <<>>)
  OBVIOUS
<1> PICK r : r = [host[h] EXCEPT !.st = "closed"]
  OBVIOUS
<1>1. /\ host[h].st = "open" /\ host' = [host EXCEPT ![h].st = "closed"]
      /\ h2d' = Append(h2d, k)
      /\ d2h' = d2h /\ session' = session /\ cnxns' = cnxns /\ online' = online
  BY DEF host_close, hostOnly
<1>u. UNCHANGED hostOnly
  BY DEF host_close
<1>2. Connected /\ WireInv(sock, d2h, h2d, host, nextid) /\ h2d \in Seq(Packets)
      /\ host \in [Hids -> HostStreams] /\ HostSide(sock, d2h, h2d, host, h)
  BY DEF IInv, WireInv, WireType, Wire
<1>3. i \in Ids
  <2>1. i \in Ids \cup {0} /\ i # 0
    BY <1>1, <1>2 DEF HostSide, HostStreams
  <2> QED BY <2>1
<1>4. k \in Packets /\ k.cmd = "CLSE" /\ k.arg1 = i
  BY <1>3, EmptySeq DEF Pkt, Packets, Cmds
<1>5. PICK ho2 : ho2 = [host EXCEPT ![h] = r]
  OBVIOUS
<1>6. host' = ho2
  BY <1>1, <1>2, <1>5
<1>7. r \in HostStreams /\ r.st = "closed" /\ r.id = host[h].id /\ r.ready = host[h].ready
      /\ r.owes = host[h].owes
  <2>1. host[h] \in HostStreams
    BY <1>2
  <2> QED BY <2>1 DEF HostStreams
<1>8. ho2 \in [Hids -> HostStreams]
  BY <1>2, <1>5, <1>7
<1>9. \A g \in Hids : \/ ho2[g] = host[g]
                      \/ /\ host[g].st # "none" /\ ho2[g].st \in {"closed", "ended"}
                         /\ ho2[g].id = host[g].id
                         /\ ho2[g].ready = host[g].ready /\ ho2[g].owes = host[g].owes
  BY <1>1, <1>2, <1>5, <1>7
<1>10. WireInv(sock, d2h, h2d, ho2, nextid)
  BY <1>2, <1>8, <1>9, HostForgets
<1>11. WireInv(sock, d2h, Append(h2d, k), ho2, nextid)
  BY <1>3, <1>4, <1>10, HostSends
<1>12. session = "on"
  BY <1>1, <1>2 DEF Connected
<1>13. Connected'
  BY <1>1, <1>2, <1>4, <1>12, StaysConnected
<1>14. WireInv(sock, d2h', h2d', host', nextid)
  BY <1>1, <1>6, <1>11
<1>15. cnxns' \in 0..MaxCnxn /\ session' \in {"off", "wait", "on", "lost"}
  BY <1>1 DEF IInv, Others
<1> QED BY <1>u, <1>13, <1>14, <1>15, HostMoves

-----------------------------------------------------------------------------
(* The host's acknowledgements, and what it receives.                      *)

\* Counts of a sequence that grows by a packet.
LEMMA CountWrite ==
  ASSUME NEW hq \in Seq(Packets), NEW p \in Packets, NEW h, NEW i, p.arg0 = h, p.arg1 = i
  PROVE  /\ Count(hq, "WRTE", h, i) \in Nat /\ Count(hq, "OKAY", h, i) \in Nat
         /\ p.cmd = "WRTE" => /\ Count(Append(hq, p), "WRTE", h, i) = Count(hq, "WRTE", h, i) + 1
                              /\ Count(Append(hq, p), "OKAY", h, i) = Count(hq, "OKAY", h, i)
         /\ p.cmd = "OKAY" => /\ Count(Append(hq, p), "OKAY", h, i) = Count(hq, "OKAY", h, i) + 1
                              /\ Count(Append(hq, p), "WRTE", h, i) = Count(hq, "WRTE", h, i)
<1>1. \A c : Count(hq, c, h, i) \in Nat
             /\ Count(Append(hq, p), c, h, i) = Count(hq, c, h, i) + Bool(Fits(p, c, h, i))
  BY CountSent
<1>2. Count(hq, "WRTE", h, i) \in Nat
      /\ Count(Append(hq, p), "WRTE", h, i) = Count(hq, "WRTE", h, i) + Bool(Fits(p, "WRTE", h, i))
  BY <1>1
<1>3. Count(hq, "OKAY", h, i) \in Nat
      /\ Count(Append(hq, p), "OKAY", h, i) = Count(hq, "OKAY", h, i) + Bool(Fits(p, "OKAY", h, i))
  BY <1>1
<1>4. /\ p.cmd = "WRTE" => Bool(Fits(p, "WRTE", h, i)) = 1 /\ Bool(Fits(p, "OKAY", h, i)) = 0
      /\ p.cmd = "OKAY" => Bool(Fits(p, "WRTE", h, i)) = 0 /\ Bool(Fits(p, "OKAY", h, i)) = 1
  BY DEF Fits, Bool
<1> QED BY <1>2, <1>3, <1>4

\* Counts of a sequence whose first packet is taken.
LEMMA CountRead ==
  ASSUME NEW dq \in Seq(Packets), dq # <<>>, NEW i, NEW h, Head(dq).arg0 = i, Head(dq).arg1 = h
  PROVE  /\ Count(Tail(dq), "WRTE", i, h) \in Nat /\ Count(Tail(dq), "OKAY", i, h) \in Nat
         /\ Head(dq).cmd = "WRTE" => /\ Count(dq, "WRTE", i, h) = Count(Tail(dq), "WRTE", i, h) + 1
                                     /\ Count(Tail(dq), "OKAY", i, h) = Count(dq, "OKAY", i, h)
         /\ Head(dq).cmd = "OKAY" => /\ Count(dq, "OKAY", i, h) = Count(Tail(dq), "OKAY", i, h) + 1
                                     /\ Count(Tail(dq), "WRTE", i, h) = Count(dq, "WRTE", i, h)
<1> PICK t : t = Tail(dq)
  OBVIOUS
<1> PICK p : p = Head(dq)
  OBVIOUS
<1>1. \A c : Count(dq, c, i, h) = Count(t, c, i, h) + Bool(Fits(p, c, i, h))
             /\ Count(dq, c, i, h) \in Nat /\ Count(t, c, i, h) \in Nat
  BY CountTaken
<1>2. /\ Count(dq, "WRTE", i, h) = Count(t, "WRTE", i, h) + Bool(Fits(p, "WRTE", i, h))
      /\ Count(t, "WRTE", i, h) \in Nat
  BY <1>1
<1>3. /\ Count(dq, "OKAY", i, h) = Count(t, "OKAY", i, h) + Bool(Fits(p, "OKAY", i, h))
      /\ Count(t, "OKAY", i, h) \in Nat
  BY <1>1
<1>4. /\ p.cmd = "WRTE" => Bool(Fits(p, "WRTE", i, h)) = 1 /\ Bool(Fits(p, "OKAY", i, h)) = 0
      /\ p.cmd = "OKAY" => Bool(Fits(p, "WRTE", i, h)) = 0 /\ Bool(Fits(p, "OKAY", i, h)) = 1
  BY DEF Fits, Bool
<1> QED BY <1>2, <1>3, <1>4

\* What the sums of a stream that is up are made of.
Terms(sk, dq, hq, ho, i, h) ==
  /\ Bool(R \in sk[i].mask) \in Nat /\ Bool(ho[h].owes) \in Nat /\ Bool(ho[h].ready) \in Nat
  /\ Count(dq, "WRTE", i, h) \in Nat /\ Count(dq, "OKAY", i, h) \in Nat
  /\ Count(hq, "WRTE", h, i) \in Nat /\ Count(hq, "OKAY", h, i) \in Nat
  /\ Len(sk[i].queue) \in Nat

\* The terms of the two sums are natural numbers.
LEMMA TermsType ==
  ASSUME NEW sk, NEW dq, NEW hq, NEW ho, NEW nx, WireType(sk, dq, hq, ho, nx), NEW i \in Ids, NEW h
  PROVE  Terms(sk, dq, hq, ho, i, h)
<1>1. dq \in Seq(Packets) /\ hq \in Seq(Packets) /\ sk[i].queue \in Seq(Seq(Nat))
  BY DEF WireType, LocalSockets
<1>2. /\ Count(dq, "WRTE", i, h) \in Nat /\ Count(dq, "OKAY", i, h) \in Nat
      /\ Count(hq, "WRTE", h, i) \in Nat /\ Count(hq, "OKAY", h, i) \in Nat
  BY <1>1, CountSome
<1>3. Len(sk[i].queue) \in Nat
  BY <1>1, Shape
<1>4. Bool(R \in sk[i].mask) \in Nat /\ Bool(ho[h].owes) \in Nat /\ Bool(ho[h].ready) \in Nat
  BY DEF Bool
<1> QED BY <1>2, <1>3, <1>4 DEF Terms

\* The host writes.
LEMMA ReplyData ==
  ASSUME NEW sk, NEW dq, NEW hq, NEW ho, NEW nx, WireInv(sk, dq, hq, ho, nx),
         NEW h \in Hids, NEW i \in Ids, ho[h].st = "open", ho[h].id = i, ho[h].ready,
         sk[i].st = "waiting" => R \notin sk[i].mask,
         NEW r \in HostStreams, r.st = "open", r.id = i, r.owes = ho[h].owes, ~r.ready,
         NEW p \in Packets, p.cmd = "WRTE", p.arg0 = h, p.arg1 = i
  PROVE  WireInv(sk, dq, Append(hq, p), [ho EXCEPT ![h] = r], nx)
<1>0. WireType(sk, dq, hq, ho, nx) /\ Wire(sk, dq, hq, ho, nx)
  BY DEF WireInv
<1> PICK ho2 : ho2 = [ho EXCEPT ![h] = r]
  OBVIOUS
<1> PICK hq2 : hq2 = Append(hq, p)
  OBVIOUS
<1>1. ho2[h] = r
  BY <1>0 DEF WireType
<1>2. hq \in Seq(Packets) /\ dq \in Seq(Packets)
  BY <1>0 DEF WireType
<1>3. /\ Count(hq2, "WRTE", h, i) = Count(hq, "WRTE", h, i) + 1
      /\ Count(hq2, "OKAY", h, i) = Count(hq, "OKAY", h, i)
  BY <1>2, CountWrite
<1>4. Terms(sk, dq, hq, ho, i, h)
  BY <1>0, TermsType
<1>5. ASSUME Up(sk, ho, i, h)
      PROVE  /\ Bool(R \in sk[i].mask) + Count(dq, "WRTE", i, h) + Bool(ho[h].owes)
                  + Count(hq, "OKAY", h, i) = 1
             /\ Bool(ho[h].ready) + Count(hq, "WRTE", h, i) + Len(sk[i].queue)
                  + Count(dq, "OKAY", i, h) = 1
  BY <1>0, <1>5 DEF Wire, Credits
<1>6. Up(sk, ho2, i, h) => Up(sk, ho, i, h)
  BY <1>1 DEF Up
<1>7. Bool(ho[h].ready) = 1 /\ Bool(ho2[h].ready) = 0 /\ Bool(ho2[h].owes) = Bool(ho[h].owes)
  BY <1>1 DEF Bool
<1>8. ASSUME Up(sk, ho, i, h)
      PROVE  /\ Bool(R \in sk[i].mask) + Count(dq, "WRTE", i, h) + Bool(ho2[h].owes)
                  + Count(hq2, "OKAY", h, i) = 1
             /\ Bool(ho2[h].ready) + Count(hq2, "WRTE", h, i) + Len(sk[i].queue)
                  + Count(dq, "OKAY", i, h) = 1
  <2>1. Bool(R \in sk[i].mask) + Count(dq, "WRTE", i, h) + Bool(ho2[h].owes)
                  + Count(hq2, "OKAY", h, i) = 1
    BY <1>3, <1>5, <1>7, <1>8
  <2>2. PICK l \in Nat : l = Len(sk[i].queue)
    BY <1>4 DEF Terms
  <2>3. 1 + Count(hq, "WRTE", h, i) + l + Count(dq, "OKAY", i, h) = 1
    BY <2>2, <1>5, <1>7, <1>8
  <2>4. Count(hq, "WRTE", h, i) \in Nat /\ Count(dq, "OKAY", i, h) \in Nat
    BY <1>4 DEF Terms
  <2>5. 0 + (Count(hq, "WRTE", h, i) + 1) + l + Count(dq, "OKAY", i, h) = 1
    BY <2>3, <2>4
  <2> QED BY <2>1, <2>2, <2>5, <1>3, <1>7
<1>9. Credits(sk, dq, hq2, ho2, i, h)
  BY <1>6, <1>8 DEF Credits
<1>10. ASSUME sk[i].st = "waiting" PROVE \E k \in DOMAIN hq : Fits(hq[k], "OKAY", h, i)
  <2>1. Up(sk, ho, i, h)
    BY <1>10 DEF Up
  <2>2. Bool(R \in sk[i].mask) = 0
    BY <1>10 DEF Bool
  <2>3. Bool(ho[h].owes) = 0
    <3>1. HostSide(sk, dq, hq, ho, h)
      BY <1>0 DEF Wire
    <3> QED BY <3>1, <1>10 DEF HostSide, Bool
  <2>4. Count(dq, "WRTE", i, h) = 0
    <3>1. ~Sends(dq, i, h)
      BY <1>0, <1>10 DEF Wire, DeviceSide
    <3>2. ~ \E k \in DOMAIN dq : Fits(dq[k], "WRTE", i, h)
      BY <3>1 DEF Sends, Fits
    <3> QED BY <3>2, <1>2, CountSome
  <2>5. Count(hq, "OKAY", h, i) \in Nat
    BY <1>4 DEF Terms
  <2>6. Count(hq, "OKAY", h, i) # 0
    BY <2>1, <2>2, <2>3, <2>4, <2>5, <1>5
  <2> QED BY <2>6, <1>2, CountSome
<1>11. r.owes => ho[h].owes
  OBVIOUS
<1> QED BY <1>9, <1>10, <1>11, Reply

\* The host acknowledges.
LEMMA ReplyOkay ==
  ASSUME NEW sk, NEW dq, NEW hq, NEW ho, NEW nx, WireInv(sk, dq, hq, ho, nx),
         NEW h \in Hids, NEW i \in Ids, ho[h].st = "open", ho[h].id = i, ho[h].owes,
         NEW r \in HostStreams, r.st = "open", r.id = i, ~r.owes, r.ready = ho[h].ready,
         NEW p \in Packets, p.cmd = "OKAY", p.arg0 = h, p.arg1 = i
  PROVE  WireInv(sk, dq, Append(hq, p), [ho EXCEPT ![h] = r], nx)
<1>0. WireType(sk, dq, hq, ho, nx) /\ Wire(sk, dq, hq, ho, nx)
  BY DEF WireInv
<1> PICK ho2 : ho2 = [ho EXCEPT ![h] = r]
  OBVIOUS
<1> PICK hq2 : hq2 = Append(hq, p)
  OBVIOUS
<1>1. ho2[h] = r /\ hq \in Seq(Packets) /\ dq \in Seq(Packets)
  BY <1>0 DEF WireType
<1>3. /\ Count(hq2, "OKAY", h, i) = Count(hq, "OKAY", h, i) + 1
      /\ Count(hq2, "WRTE", h, i) = Count(hq, "WRTE", h, i)
  BY <1>1, CountWrite
<1>4. Terms(sk, dq, hq, ho, i, h)
  BY <1>0, TermsType
<1>5. ASSUME Up(sk, ho, i, h)
      PROVE  /\ Bool(R \in sk[i].mask) + Count(dq, "WRTE", i, h) + Bool(ho[h].owes)
                  + Count(hq, "OKAY", h, i) = 1
             /\ Bool(ho[h].ready) + Count(hq, "WRTE", h, i) + Len(sk[i].queue)
                  + Count(dq, "OKAY", i, h) = 1
  BY <1>0, <1>5 DEF Wire, Credits
<1>6. Up(sk, ho2, i, h) => Up(sk, ho, i, h)
  BY <1>1 DEF Up
<1>7. Bool(ho[h].owes) = 1 /\ Bool(ho2[h].owes) = 0 /\ Bool(ho2[h].ready) = Bool(ho[h].ready)
  BY <1>1 DEF Bool
<1>8. ASSUME Up(sk, ho, i, h)
      PROVE  /\ Bool(R \in sk[i].mask) + Count(dq, "WRTE", i, h) + Bool(ho2[h].owes)
                  + Count(hq2, "OKAY", h, i) = 1
             /\ Bool(ho2[h].ready) + Count(hq2, "WRTE", h, i) + Len(sk[i].queue)
                  + Count(dq, "OKAY", i, h) = 1
  <2>1. Bool(ho2[h].ready) + Count(hq2, "WRTE", h, i) + Len(sk[i].queue)
                  + Count(dq, "OKAY", i, h) = 1
    BY <1>3, <1>5, <1>7, <1>8
  <2>2. Bool(R \in sk[i].mask) \in Nat /\ Count(dq, "WRTE", i, h) \in Nat /\ Count(hq, "OKAY", h, i) \in Nat
    BY <1>4 DEF Terms
  <2>3. Bool(R \in sk[i].mask) + Count(dq, "WRTE", i, h) + 1 + Count(hq, "OKAY", h, i) = 1
    BY <1>5, <1>7, <1>8
  <2>4. Bool(R \in sk[i].mask) + Count(dq, "WRTE", i, h) + 0 + (Count(hq, "OKAY", h, i) + 1) = 1
    BY <2>2, <2>3
  <2> QED BY <2>1, <2>4, <1>3, <1>7
<1>9. Credits(sk, dq, hq2, ho2, i, h)
  BY <1>6, <1>8 DEF Credits
<1> QED BY <1>9, Reply

\* The host is told that it may write.
LEMMA ReceiveOkay ==
  ASSUME NEW sk, NEW dq, NEW hq, NEW ho, NEW nx, WireInv(sk, dq, hq, ho, nx),
         NEW h \in Hids, NEW i \in Ids, dq # <<>>,
         Head(dq).cmd = "OKAY", Head(dq).arg0 = i, Head(dq).arg1 = h,
         ho[h].st \in {"opening", "open"},
         NEW r \in HostStreams, r.st = "open", r.id = i, r.ready, r.owes = ho[h].owes
  PROVE  WireInv(sk, Tail(dq), hq, [ho EXCEPT ![h] = r], nx)
<1>0. WireType(sk, dq, hq, ho, nx) /\ Wire(sk, dq, hq, ho, nx)
  BY DEF WireInv
<1> PICK ho2 : ho2 = [ho EXCEPT ![h] = r]
  OBVIOUS
<1> PICK dq2 : dq2 = Tail(dq)
  OBVIOUS
<1>1. ho2[h] = r /\ hq \in Seq(Packets) /\ dq \in Seq(Packets)
  BY <1>0 DEF WireType
<1>3. /\ Count(dq, "OKAY", i, h) = Count(dq2, "OKAY", i, h) + 1
      /\ Count(dq2, "WRTE", i, h) = Count(dq, "WRTE", i, h)
      /\ Count(dq2, "OKAY", i, h) \in Nat
  BY <1>1, CountRead
<1>4. Terms(sk, dq, hq, ho, i, h)
  BY <1>0, TermsType
<1>5. ASSUME Up(sk, ho, i, h)
      PROVE  /\ Bool(R \in sk[i].mask) + Count(dq, "WRTE", i, h) + Bool(ho[h].owes)
                  + Count(hq, "OKAY", h, i) = 1
             /\ Bool(ho[h].ready) + Count(hq, "WRTE", h, i) + Len(sk[i].queue)
                  + Count(dq, "OKAY", i, h) = 1
  BY <1>0, <1>5 DEF Wire, Credits
<1>6. Up(sk, ho2, i, h) => Up(sk, ho, i, h)
  <2>1. Head(dq) = dq[1] /\ 1 \in DOMAIN dq
    BY <1>1, Taken, Shape
  <2>2. Sends(dq, i, h)
    BY <2>1 DEF Sends
  <2>3. sk[i].st # "waiting"
    BY <2>2, <1>0 DEF Wire, DeviceSide
  <2> QED BY <2>3, <1>1 DEF Up
<1>7. Bool(ho2[h].ready) = 1 /\ Bool(ho2[h].owes) = Bool(ho[h].owes)
  BY <1>1 DEF Bool
<1>8. ASSUME Up(sk, ho, i, h)
      PROVE  /\ Bool(R \in sk[i].mask) + Count(dq2, "WRTE", i, h) + Bool(ho2[h].owes)
                  + Count(hq, "OKAY", h, i) = 1
             /\ Bool(ho2[h].ready) + Count(hq, "WRTE", h, i) + Len(sk[i].queue)
                  + Count(dq2, "OKAY", i, h) = 1
  <2>1. Bool(R \in sk[i].mask) + Count(dq2, "WRTE", i, h) + Bool(ho2[h].owes)
                  + Count(hq, "OKAY", h, i) = 1
    BY <1>3, <1>5, <1>7, <1>8
  <2>2. PICK l \in Nat : l = Len(sk[i].queue)
    BY <1>4 DEF Terms
  <2>3. Bool(ho[h].ready) + Count(hq, "WRTE", h, i) + l + (Count(dq2, "OKAY", i, h) + 1) = 1
    BY <2>2, <1>3, <1>5, <1>8
  <2>4. Count(hq, "WRTE", h, i) \in Nat /\ Bool(ho[h].ready) \in Nat
    BY <1>4 DEF Terms
  <2>5. 1 + Count(hq, "WRTE", h, i) + l + Count(dq2, "OKAY", i, h) = 1
    BY <2>3, <2>4, <1>3
  <2> QED BY <2>1, <2>2, <2>5, <1>7
<1>9. Credits(sk, dq2, hq, ho2, i, h)
  BY <1>6, <1>8 DEF Credits
<1>10. r.st = "open" => r.id # 0
  BY NotTrans DEF Trans
<1> QED BY <1>9, <1>10, Receive

\* The host takes data.
LEMMA ReceiveData ==
  ASSUME NEW sk, NEW dq, NEW hq, NEW ho, NEW nx, WireInv(sk, dq, hq, ho, nx),
         NEW h \in Hids, NEW i \in Ids, dq # <<>>,
         Head(dq).cmd = "WRTE", Head(dq).arg0 = i, Head(dq).arg1 = h,
         ho[h].st \in {"opening", "open"},
         NEW r \in HostStreams, r.st = ho[h].st, r.id = ho[h].id, r.ready = ho[h].ready, r.owes
  PROVE  WireInv(sk, Tail(dq), hq, [ho EXCEPT ![h] = r], nx)
<1>0. WireType(sk, dq, hq, ho, nx) /\ Wire(sk, dq, hq, ho, nx)
  BY DEF WireInv
<1> PICK ho2 : ho2 = [ho EXCEPT ![h] = r]
  OBVIOUS
<1> PICK dq2 : dq2 = Tail(dq)
  OBVIOUS
<1>1. ho2[h] = r /\ hq \in Seq(Packets) /\ dq \in Seq(Packets)
  BY <1>0 DEF WireType
<1>3. /\ Count(dq, "WRTE", i, h) = Count(dq2, "WRTE", i, h) + 1
      /\ Count(dq2, "OKAY", i, h) = Count(dq, "OKAY", i, h)
      /\ Count(dq2, "WRTE", i, h) \in Nat
  BY <1>1, CountRead
<1>4. Terms(sk, dq, hq, ho, i, h)
  BY <1>0, TermsType
<1>5. ASSUME Up(sk, ho, i, h)
      PROVE  /\ Bool(R \in sk[i].mask) + Count(dq, "WRTE", i, h) + Bool(ho[h].owes)
                  + Count(hq, "OKAY", h, i) = 1
             /\ Bool(ho[h].ready) + Count(hq, "WRTE", h, i) + Len(sk[i].queue)
                  + Count(dq, "OKAY", i, h) = 1
  BY <1>0, <1>5 DEF Wire, Credits
<1>6. Up(sk, ho2, i, h) => Up(sk, ho, i, h)
  BY <1>1 DEF Up
<1>7. Bool(ho2[h].owes) = 1 /\ Bool(ho2[h].ready) = Bool(ho[h].ready)
  BY <1>1 DEF Bool
<1>8. ASSUME Up(sk, ho, i, h)
      PROVE  /\ Bool(R \in sk[i].mask) + Count(dq2, "WRTE", i, h) + Bool(ho2[h].owes)
                  + Count(hq, "OKAY", h, i) = 1
             /\ Bool(ho2[h].ready) + Count(hq, "WRTE", h, i) + Len(sk[i].queue)
                  + Count(dq2, "OKAY", i, h) = 1
  <2>1. Bool(ho2[h].ready) + Count(hq, "WRTE", h, i) + Len(sk[i].queue)
                  + Count(dq2, "OKAY", i, h) = 1
    BY <1>3, <1>5, <1>7, <1>8
  <2>2. Bool(R \in sk[i].mask) \in Nat /\ Bool(ho[h].owes) \in Nat /\ Count(hq, "OKAY", h, i) \in Nat
    BY <1>4 DEF Terms
  <2>3. Bool(R \in sk[i].mask) + (Count(dq2, "WRTE", i, h) + 1) + Bool(ho[h].owes)
          + Count(hq, "OKAY", h, i) = 1
    BY <1>3, <1>5, <1>8
  <2>4. Bool(R \in sk[i].mask) + Count(dq2, "WRTE", i, h) + 1 + Count(hq, "OKAY", h, i) = 1
    BY <2>2, <2>3, <1>3
  <2> QED BY <2>1, <2>4, <1>7
<1>9. Credits(sk, dq2, hq, ho2, i, h)
  BY <1>6, <1>8 DEF Credits
<1>10. r.st = "open" => r.id # 0
  BY <1>0 DEF Wire, HostSide
<1> QED BY <1>9, <1>10, Receive

-----------------------------------------------------------------------------
(* The host writes, acknowledges and receives.                             *)

\* A WRTE of the host keeps the invariant.
LEMMA Writes ==
  ASSUME IInv, NEW h \in Hids, NEW n \in 1..MaxPayload, host_write(h, n)
  PROVE  IInv'
<1> PICK i : i = host[h].id
  OBVIOUS
<1> PICK data : data = [k \in 1..n |-> host[h].sent + k]
  OBVIOUS
<1> PICK k : k = Pkt("WRTE", h, i, data)
  OBVIOUS
<1> PICK r : r = [host[h] EXCEPT !.ready = FALSE, !.sent = @ + n]
  OBVIOUS
<1>1. /\ host[h].st = "open" /\ host[h].ready
      /\ host' = [host EXCEPT ![h].ready = FALSE, ![h].sent = @ + n]
      /\ h2d' = Append(h2d, k)
      /\ d2h' = d2h /\ session' = session /\ cnxns' = cnxns /\ online' = online
  BY DEF host_write, hostOnly
<1>u. UNCHANGED hostOnly
  BY DEF host_write
<1>2. Connected /\ Local /\ WireInv(sock, d2h, h2d, host, nextid) /\ h2d \in Seq(Packets)
      /\ host \in [Hids -> HostStreams] /\ HostSide(sock, d2h, h2d, host, h)
  BY DEF IInv, WireInv, WireType, Wire
<1>3. i \in Ids /\ host[h] \in HostStreams
  <2>1. i \in Ids \cup {0} /\ i # 0
    BY <1>1, <1>2 DEF HostSide, HostStreams
  <2> QED BY <2>1, <1>2
<1>4. data \in Seq(Nat)
  <2>1. host[h].sent \in Nat /\ n \in Nat
    BY <1>3 DEF HostStreams
  <2>2. data \in [1..n -> Nat]
    BY <2>1
  <2> QED BY <2>1, <2>2, SeqDef
<1>5. k \in Packets /\ k.cmd = "WRTE" /\ k.arg0 = h /\ k.arg1 = i
  BY <1>3, <1>4 DEF Pkt, Packets, Cmds
<1>6. host' = [host EXCEPT ![h] = r]
  BY <1>1, <1>2, <1>3 DEF HostStreams
<1>7. r \in HostStreams /\ r.st = "open" /\ r.id = i /\ r.owes = host[h].owes /\ ~r.ready
  <2>1. PICK m \in Nat : m = host[h].sent + n
    BY <1>3 DEF HostStreams
  <2>2. r = [host[h] EXCEPT !.ready = FALSE, !.sent = m]
    BY <2>1, <1>3 DEF HostStreams
  <2> QED BY <2>1, <2>2, <1>1, <1>3 DEF HostStreams
<1>8. sock[i].st = "waiting" => R \notin sock[i].mask
  BY <1>2, <1>3 DEF Local, Watched
<1>9. WireInv(sock, d2h, Append(h2d, k), [host EXCEPT ![h] = r], nextid)
  <2>1. /\ WireInv(sock, d2h, h2d, host, nextid) /\ host[h].st = "open" /\ host[h].id = i
        /\ host[h].ready
    BY <1>1, <1>2
  <2>2. i \in Ids
    BY <1>3
  <2> QED BY ONLY <2>1, <2>2, <1>5, <1>7, <1>8, h \in Hids, ReplyData
<1>10. session = "on"
  BY <1>1, <1>2 DEF Connected
<1>11. Connected'
  BY <1>1, <1>2, <1>5, <1>10, StaysConnected
<1>12. WireInv(sock, d2h', h2d', host', nextid)
  BY <1>1, <1>6, <1>9
<1>13. cnxns' \in 0..MaxCnxn /\ session' \in {"off", "wait", "on", "lost"}
  BY <1>1 DEF IInv, Others
<1> QED BY <1>u, <1>11, <1>12, <1>13, HostMoves

\* An OKAY of the host keeps the invariant.
LEMMA Acks ==
  ASSUME IInv, NEW h \in Hids, host_ack(h)
  PROVE  IInv'
<1> PICK i : i = host[h].id
  OBVIOUS
<1> PICK k : k = Pkt("OKAY", h, i, <<>>)
  OBVIOUS
<1> PICK r : r = [host[h] EXCEPT !.owes = FALSE]
  OBVIOUS
<1>1. /\ host[h].st = "open" /\ host[h].owes
      /\ host' = [host EXCEPT ![h].owes = FALSE]
      /\ h2d' = Append(h2d, k)
      /\ d2h' = d2h /\ session' = session /\ cnxns' = cnxns /\ online' = online
  BY DEF host_ack, hostOnly
<1>u. UNCHANGED hostOnly
  BY DEF host_ack
<1>2. Connected /\ WireInv(sock, d2h, h2d, host, nextid) /\ h2d \in Seq(Packets)
      /\ host \in [Hids -> HostStreams] /\ HostSide(sock, d2h, h2d, host, h)
  BY DEF IInv, WireInv, WireType, Wire
<1>3. i \in Ids /\ host[h] \in HostStreams
  <2>1. i \in Ids \cup {0} /\ i # 0
    BY <1>1, <1>2 DEF HostSide, HostStreams
  <2> QED BY <2>1, <1>2
<1>5. k \in Packets /\ k.cmd = "OKAY" /\ k.arg0 = h /\ k.arg1 = i
  BY <1>3, EmptySeq DEF Pkt, Packets, Cmds
<1>6. host' = [host EXCEPT ![h] = r]
  BY <1>1, <1>2, <1>3
<1>7. r \in HostStreams /\ r.st = "open" /\ r.id = i /\ ~r.owes /\ r.ready = host[h].ready
  BY <1>1, <1>3 DEF HostStreams
<1>9. WireInv(sock, d2h, Append(h2d, k), [host EXCEPT ![h] = r], nextid)
  BY <1>1, <1>2, <1>3, <1>5, <1>7, ReplyOkay
<1>10. session = "on"
  BY <1>1, <1>2 DEF Connected
<1>11. Connected'
  BY <1>1, <1>2, <1>5, <1>10, StaysConnected
<1>12. WireInv(sock, d2h', h2d', host', nextid)
  BY <1>1, <1>6, <1>9
<1>13. cnxns' \in 0..MaxCnxn /\ session' \in {"off", "wait", "on", "lost"}
  BY <1>1 DEF IInv, Others
<1> QED BY <1>u, <1>11, <1>12, <1>13, HostMoves

\* The host takes a packet: the invariant is kept.
LEMMA HostReceives ==
  ASSUME IInv, host_receive
  PROVE  IInv'
<1> PICK p : p = Head(d2h)
  OBVIOUS
<1> PICK h : h = p.arg1
  OBVIOUS
<1> PICK i : i = p.arg0
  OBVIOUS
<1> DEFINE known == session = "on" /\ h \in Hids /\ host[h].st \in {"opening", "open"}
           Okayed == /\ p.cmd = "OKAY" /\ known
                     /\ host' = [host EXCEPT ![h].st = "open", ![h].id = i, ![h].ready = TRUE]
                     /\ h2d' = h2d
           Data == /\ p.cmd = "WRTE" /\ known
                   /\ host' = [host EXCEPT ![h].got = @ \o p.data, ![h].owes = TRUE]
                   /\ h2d' = h2d
           Ended == /\ p.cmd = "CLSE" /\ known
                    /\ host' = [host EXCEPT ![h].st = "ended"]
                    /\ h2d' = IF host[h].st = "open" THEN Append(h2d, Pkt("CLSE", h, host[h].id, <<>>))
                              ELSE h2d
           Accepted == /\ p.cmd = "OPEN" /\ session = "on"
                       /\ \E g \in Hids :
                            /\ host[g].st = "none"
                            /\ host' = [host EXCEPT ![g].st = "open", ![g].id = i, ![g].ready = TRUE]
                            /\ h2d' = Append(h2d, Pkt("OKAY", g, i, <<>>))
           Refused == /\ p.cmd = "OPEN" /\ session = "on"
                      /\ h2d' = Append(h2d, Pkt("CLSE", 0, i, <<>>))
                      /\ host' = host
           Ignored == /\ session = "wait" \/ (p.cmd # "OPEN" /\ ~known)
                      /\ host' = host /\ h2d' = h2d
<1>1. /\ session \in {"wait", "on"} /\ d2h # <<>> /\ d2h' = Tail(d2h)
      /\ session' = IF p.cmd = "CNXN" THEN "on" ELSE session
      /\ Okayed \/ Data \/ Ended \/ Accepted \/ Refused \/ Ignored
      /\ cnxns' = cnxns /\ online' = online
  BY Zenon DEF host_receive, hostOnly
<1>u. UNCHANGED hostOnly
  BY Zenon DEF host_receive
<1>2. Connected /\ Local /\ WireInv(sock, d2h, h2d, host, nextid) /\ h2d \in Seq(Packets)
      /\ d2h \in Seq(Packets) /\ host \in [Hids -> HostStreams] /\ FromDevice(d2h)
      /\ \A g \in Hids : HostSide(sock, d2h, h2d, host, g)
  BY DEF IInv, WireInv, WireType, Wire
<1>3. p = d2h[1] /\ 1 \in DOMAIN d2h /\ p \in Packets
  <2>1. d2h \in Seq(Packets) /\ d2h # <<>>
    BY <1>1, <1>2, Zenon
  <2>2. Head(d2h) = d2h[1] /\ Head(d2h) \in Packets /\ Len(d2h) \in Nat \ {0}
    BY <2>1, Taken
  <2>3. DOMAIN d2h = 1..Len(d2h)
    BY <2>1, Shape
  <2> QED BY <2>2, <2>3
<1>4. /\ p.cmd \in {"OKAY", "WRTE", "OPEN"} => i \in Ids
      /\ p.cmd \in {"OKAY", "WRTE", "CLSE"} => h \in Hids
  BY <1>2, <1>3 DEF FromDevice
<1>g. (Greets(Tail(d2h)) => Greets(d2h)) /\ (p.cmd = "CNXN" => Greets(d2h))
  BY <1>1, <1>2, GreetsTaken, Zenon
<1>5. cnxns' \in 0..MaxCnxn /\ session' \in {"off", "wait", "on", "lost"}
  BY <1>1, Zenon DEF IInv, Others
<1> HIDE DEF Okayed, Data, Ended, Accepted, Refused, Ignored
\* It does not speak.
<1>6. ASSUME h2d' = h2d, session = "on" \/ host' = host PROVE Connected'
  <2>1. Ordered(h2d', online', (session = "lost")')
    BY <1>1, <1>2, <1>6 DEF Connected, Ordered
  <2>2. session' = "on" => online'
    BY <1>1, <1>2, <1>g DEF Connected
  <2>3. Greets(d2h') => online'
    BY <1>1, <1>2, <1>g DEF Connected
  <2>4. session = "on" => session' = "on"
    BY <1>1
  <2>5. ASSUME NEW g \in Hids, host'[g].st \in {"opening", "open"} PROVE session' = "on"
    BY <2>4, <2>5, <1>2, <1>6 DEF Connected
  <2> QED BY <2>1, <2>2, <2>3, <2>5 DEF Connected
<1>7. CASE Okayed
  <2>1. /\ p.cmd = "OKAY" /\ session = "on" /\ h \in Hids /\ host[h].st \in {"opening", "open"}
        /\ host' = [host EXCEPT ![h].st = "open", ![h].id = i, ![h].ready = TRUE] /\ h2d' = h2d
    BY <1>7 DEF Okayed
  <2>2. PICK r : r = [host[h] EXCEPT !.st = "open", !.id = i, !.ready = TRUE]
    OBVIOUS
  <2>3. i \in Ids /\ host[h] \in HostStreams
    BY <2>1, <1>2, <1>4
  <2>4. host' = [host EXCEPT ![h] = r]
    BY <2>1, <2>2, <2>3, <1>2 DEF HostStreams
  <2>5. r \in HostStreams /\ r.st = "open" /\ r.id = i /\ r.ready /\ r.owes = host[h].owes
    BY <2>2, <2>3 DEF HostStreams
  <2>6. WireInv(sock, Tail(d2h), h2d, [host EXCEPT ![h] = r], nextid)
    BY <2>1, <2>3, <2>5, <1>1, <1>2, ReceiveOkay
  <2>7. Connected'
    BY <2>1, <1>6
  <2>8. WireInv(sock, d2h', h2d', host', nextid)
    BY <2>1, <2>4, <2>6, <1>1
  <2> QED BY <2>7, <2>8, <1>u, <1>5, HostMoves
<1>8. CASE Data
  <2>1. /\ p.cmd = "WRTE" /\ session = "on" /\ h \in Hids /\ host[h].st \in {"opening", "open"}
        /\ host' = [host EXCEPT ![h].got = @ \o p.data, ![h].owes = TRUE] /\ h2d' = h2d
    BY <1>8 DEF Data
  <2>2. PICK d : d = host[h].got \o p.data
    OBVIOUS
  <2>3. PICK r : r = [host[h] EXCEPT !.got = d, !.owes = TRUE]
    OBVIOUS
  <2>4. i \in Ids /\ host[h] \in HostStreams
    BY <2>1, <1>2, <1>4
  <2>5. d \in Seq(Nat)
    <3>1. host[h].got \in Seq(Nat) /\ p.data \in Seq(Nat)
      BY <2>4, <1>3 DEF HostStreams, Packets
    <3> QED BY <3>1, <2>2, ConcatProperties
  <2>6. host' = [host EXCEPT ![h] = r]
    BY <2>1, <2>2, <2>3, <2>4, <1>2, Zenon DEF HostStreams
  <2>7. r \in HostStreams /\ r.st = host[h].st /\ r.id = host[h].id /\ r.ready = host[h].ready /\ r.owes
    BY <2>3, <2>4, <2>5 DEF HostStreams
  <2>8. WireInv(sock, Tail(d2h), h2d, [host EXCEPT ![h] = r], nextid)
    BY <2>1, <2>4, <2>7, <1>1, <1>2, ReceiveData
  <2>9. Connected'
    BY <2>1, <1>6
  <2>10. WireInv(sock, d2h', h2d', host', nextid)
    BY <2>1, <2>6, <2>8, <1>1
  <2> QED BY <2>9, <2>10, <1>u, <1>5, HostMoves
<1>9. CASE Ended
  <2>1. /\ p.cmd = "CLSE" /\ session = "on" /\ h \in Hids /\ host[h].st \in {"opening", "open"}
        /\ host' = [host EXCEPT ![h].st = "ended"]
        /\ h2d' = IF host[h].st = "open" THEN Append(h2d, Pkt("CLSE", h, host[h].id, <<>>))
                  ELSE h2d
    BY <1>9 DEF Ended
  <2>2. PICK r : r = [host[h] EXCEPT !.st = "ended"]
    OBVIOUS
  <2>3. PICK ho2 : ho2 = [host EXCEPT ![h] = r]
    OBVIOUS
  <2>4. host' = ho2 /\ host[h] \in HostStreams
    BY <2>1, <2>2, <2>3, <1>2
  <2>5. r \in HostStreams /\ r.st = "ended" /\ r.id = host[h].id /\ r.ready = host[h].ready
        /\ r.owes = host[h].owes
    BY <2>2, <2>4 DEF HostStreams
  <2>6. ho2 \in [Hids -> HostStreams]
    BY <2>3, <2>5, <1>2
  <2>7. \A g \in Hids : \/ ho2[g] = host[g]
                        \/ /\ host[g].st # "none" /\ ho2[g].st \in {"closed", "ended"}
                           /\ ho2[g].id = host[g].id
                           /\ ho2[g].ready = host[g].ready /\ ho2[g].owes = host[g].owes
    BY <2>1, <2>3, <2>5, <1>2
  <2>8. WireInv(sock, Tail(d2h), h2d, host, nextid)
    BY <2>1, <1>1, <1>2, HostIgnores
  <2>9. WireInv(sock, Tail(d2h), h2d, ho2, nextid)
    BY <2>6, <2>7, <2>8, HostForgets
  <2>10. CASE host[h].st = "open"
    <3>1. PICK j : j = host[h].id
      OBVIOUS
    <3>2. PICK k : k = Pkt("CLSE", h, j, <<>>)
      OBVIOUS
    <3>3. j \in Ids
      <4>1. HostSide(sock, d2h, h2d, host, h)
        BY <2>1, <1>2
      <4>2. j \in Ids \cup {0} /\ j # 0
        BY <4>1, <2>4, <2>10, <3>1 DEF HostSide, HostStreams
      <4> QED BY <4>2
    <3>4. k \in Packets /\ k.cmd = "CLSE" /\ k.arg1 = j
      BY <2>1, <3>2, <3>3, EmptySeq DEF Pkt, Packets, Cmds
    <3>5. WireInv(sock, Tail(d2h), Append(h2d, k), ho2, nextid)
      BY <2>9, <3>3, <3>4, HostSends
    <3>6. h2d' = Append(h2d, k)
      BY <2>1, <2>10, <3>1, <3>2
    <3>7. session' = session /\ (Greets(d2h') => Greets(d2h))
      BY <2>1, <1>1, <1>g
    <3>8. Connected'
      BY <2>1, <3>4, <3>6, <3>7, <1>1, <1>2, StaysConnected
    <3>9. WireInv(sock, d2h', h2d', host', nextid)
      BY <2>4, <3>5, <3>6, <1>1
    <3> QED BY <3>8, <3>9, <1>u, <1>5, HostMoves
  <2>11. CASE host[h].st # "open"
    <3>1. h2d' = h2d
      BY <2>1, <2>11
    <3>2. Connected'
      BY <3>1, <2>1, <1>6
    <3>3. WireInv(sock, d2h', h2d', host', nextid)
      BY <2>4, <2>9, <3>1, <1>1
    <3> QED BY <3>2, <3>3, <1>u, <1>5, HostMoves
  <2> QED BY <2>10, <2>11
<1>10. CASE Accepted
  <2>1. p.cmd = "OPEN" /\ session = "on"
    BY <1>10 DEF Accepted
  <2>2. PICK g \in Hids : /\ host[g].st = "none"
                          /\ host' = [host EXCEPT ![g].st = "open", ![g].id = i, ![g].ready = TRUE]
                          /\ h2d' = Append(h2d, Pkt("OKAY", g, i, <<>>))
    BY <1>10, Zenon DEF Accepted
  <2>3. PICK k : k = Pkt("OKAY", g, i, <<>>)
    OBVIOUS
  <2>4. PICK r : r = [host[g] EXCEPT !.st = "open", !.id = i, !.ready = TRUE]
    OBVIOUS
  <2>5. i \in Ids /\ host[g] \in HostStreams /\ host[g] = Silent
    BY <2>1, <2>2, <1>2, <1>4 DEF HostSide
  <2>6. host' = [host EXCEPT ![g] = r]
    BY <2>2, <2>4, <2>5, <1>2 DEF HostStreams
  <2>7. r \in HostStreams /\ r.st = "open" /\ r.id = i /\ r.ready /\ ~r.owes
    <3>1. host[g].owes = FALSE
      BY <2>5 DEF Silent
    <3>2. host[g] \in HostStreams
      BY <2>5
    <3> QED BY <2>4, <2>5, <3>1, <3>2 DEF HostStreams
  <2>8. sock[i].st = "waiting" => R \notin sock[i].mask /\ sock[i].queue = <<>>
    BY <2>5, <1>2 DEF Local, Watched
  <2>9. WireInv(sock, Tail(d2h), Append(h2d, Pkt("OKAY", g, i, <<>>)), [host EXCEPT ![g] = r], nextid)
    BY <2>1, <2>2, <2>5, <2>7, <2>8, <1>1, <1>2, HostAccepts
  <2>10. k \in Packets /\ k.cmd = "OKAY"
    BY <2>3, <2>5, EmptySeq DEF Pkt, Packets, Cmds
  <2>11. session' = session /\ (Greets(d2h') => Greets(d2h)) /\ h2d' = Append(h2d, k)
    BY <2>1, <2>2, <2>3, <1>1, <1>g
  <2>12. Connected'
    BY <2>1, <2>10, <2>11, <1>1, <1>2, StaysConnected
  <2>13. WireInv(sock, d2h', h2d', host', nextid)
    BY <2>2, <2>6, <2>9, <1>1
  <2> QED BY <2>12, <2>13, <1>u, <1>5, HostMoves
<1>11. CASE Refused
  <2>1. PICK k : k = Pkt("CLSE", 0, i, <<>>)
    OBVIOUS
  <2>2. p.cmd = "OPEN" /\ session = "on" /\ h2d' = Append(h2d, k) /\ host' = host
    BY <1>11, <2>1 DEF Refused
  <2>3. i \in Ids
    BY <2>2, <1>4
  <2>4. k \in Packets /\ k.cmd = "CLSE" /\ k.arg1 = i
    BY <2>1, <2>3, EmptySeq DEF Pkt, Packets, Cmds
  <2>5. WireInv(sock, Tail(d2h), h2d, host, nextid)
    BY <2>2, <1>1, <1>2, HostIgnores
  <2>6. WireInv(sock, Tail(d2h), Append(h2d, k), host, nextid)
    BY <2>3, <2>4, <2>5, HostSends
  <2>7. session' = session /\ (Greets(d2h') => Greets(d2h))
    BY <2>2, <1>1, <1>g
  <2>8. Connected'
    BY <2>2, <2>4, <2>7, <1>1, <1>2, StaysConnected
  <2>9. WireInv(sock, d2h', h2d', host', nextid)
    BY <2>2, <2>6, <1>1
  <2> QED BY <2>8, <2>9, <1>u, <1>5, HostMoves
<1>12. CASE Ignored
  <2>1. (session = "wait" \/ (p.cmd # "OPEN" /\ ~known)) /\ host' = host /\ h2d' = h2d
    BY <1>12 DEF Ignored
  <2>2. p.cmd \in {"OKAY", "WRTE"} => host[h].st \notin {"opening", "open"}
    BY <2>1, <1>1, <1>2, <1>4 DEF Connected
  <2>3. WireInv(sock, Tail(d2h), h2d, host, nextid)
    BY <2>2, <1>1, <1>2, HostIgnores
  <2>4. Connected'
    BY <2>1, <1>6
  <2>5. WireInv(sock, d2h', h2d', host', nextid)
    BY <2>1, <2>3, <1>1
  <2> QED BY <2>4, <2>5, <1>u, <1>5, HostMoves
<1> QED BY <1>1, <1>7, <1>8, <1>9, <1>10, <1>11, <1>12

-----------------------------------------------------------------------------
(* The theorems.                                                           *)

\* No socket, no stream and an empty wire.
LEMMA Initial == Init => IInv
<1> SUFFICES ASSUME Init PROVE IInv
  OBVIOUS
<1>1. /\ sock = [i \in Ids |-> Unused] /\ nextid = 1 /\ online = FALSE
      /\ batch = [i \in Ids \cup {Trans} |-> {}] /\ d2h = <<>> /\ h2d = <<>>
      /\ prog = [i \in Ids |-> Idle] /\ host = [h \in Hids |-> Silent]
      /\ session = "off" /\ cnxns = 0 /\ cause = [i \in Ids |-> "none"]
  BY DEF Init
<1>2. /\ <<>> \in Seq(Packets) /\ <<>> \in Seq(Nat) /\ Len(<<>>) = 0
      /\ <<>> \in Seq({"PART", "REQ", "BAD"}) /\ <<>> \in Seq({"OKAY", "FAIL"})
  BY EmptySeq
<1>3. Idle \in Programs /\ Idle.told = <<>> /\ Idle.inb = <<>> /\ ~Idle.client
  <2>1. 0 \in 0..FdCap /\ 0 \in Nat
    BY SocketsAssumption
  <2> QED BY <2>1, <1>2 DEF Idle, Programs
<1>4. Silent \in HostStreams /\ Silent.st = "none" /\ Silent.id = 0
  BY <1>2 DEF Silent, HostStreams
<1>5. Others
  <2>1. 1 \in 1..(MaxId + 1) /\ 0 \in 0..MaxCnxn
    BY SocketsAssumption
  <2>2. prog \in [Ids -> Programs]
    BY <1>1, <1>3
  <2> QED BY <2>1, <2>2, <1>1 DEF Others, Whys
<1>6. Local
  <2> SUFFICES ASSUME NEW i \in Ids PROVE Watched(sock[i], batch[i]) /\ Heard(sock[i], prog[i])
    BY DEF Local
  <2>1. sock[i] = Unused /\ batch[i] = {} /\ prog[i] = Idle
    BY <1>1
  <2>2. Watched(Unused, {})
    BY Blank DEF Watched
  <2>3. Len(Idle.told) <= 1
    BY <1>2, <1>3
  <2>4. Heard(Unused, Idle)
    BY <2>3, <1>3, Blank DEF Heard
  <2> QED BY <2>1, <2>2, <2>4
<1>7. Connected
  <2>1. \A h \in Hids : host[h].st = "none"
    BY <1>1, <1>4
  <2>2. ~Greets(d2h) /\ Ordered(h2d, online, session = "lost")
    BY <1>1 DEF Greets, Ordered
  <2> QED BY <2>1, <2>2, <1>1 DEF Connected
<1>8. WireInv(sock, d2h, h2d, host, nextid)
  <2>1. /\ \A i \in Ids : sock[i] = Unused /\ sock[i].st = "none"
        /\ \A h \in Hids : host[h] = Silent /\ host[h].st = "none" /\ host[h].id = 0
    BY <1>1, <1>4, Blank
  <2>2. \A k \in DOMAIN <<>> : FALSE
    OBVIOUS
  <2>3. \A i, h : ~Sends(d2h, i, h) /\ ~Asks(d2h, i) /\ ~Asks(h2d, i) /\ ~Closes(d2h, i)
    BY <1>1, <2>2 DEF Sends, Asks, Closes
  <2>4. \A i : AsksOnce(d2h, i) /\ AsksOnce(h2d, i)
    BY <1>1, <2>2 DEF AsksOnce
  <2>5. \A i \in Ids, h \in Hids : ~Tie(sock, d2h, host, i, h)
    BY <2>1, <2>3, NotTrans DEF Tie, Linked, Trans
  <2>6. WireType(sock, d2h, h2d, host, nextid)
    <3>1. sock \in [Ids -> LocalSockets]
      BY <1>1, Blank
    <3>2. host \in [Hids -> HostStreams]
      BY <1>1, <1>4
    <3>3. FromDevice(d2h) /\ FromHost(h2d)
      BY <1>1, <2>2 DEF FromDevice, FromHost
    <3> QED BY <3>1, <3>2, <3>3, <1>1, <1>2 DEF WireType
  <2>7. Matched(sock, d2h, host)
    BY <2>5 DEF Matched
  <2>8. \A h \in Hids : HostSide(sock, d2h, h2d, host, h)
    BY <2>1, <2>3, <2>4, <2>5 DEF HostSide
  <2>9. \A i \in Ids : DeviceSide(sock, d2h, host, nextid, i)
    <3>1. \A i \in Ids : i >= 1
      BY SocketsAssumption DEF Ids
    <3> QED BY <3>1, <2>1, <2>3, <2>4, <2>5, <1>1 DEF DeviceSide
  <2>10. Replies(sock, h2d, host) /\ Silence(d2h)
    BY <1>1, <2>2 DEF Replies, Silence
  <2>11. \A i \in Ids, h \in Hids : Credits(sock, d2h, h2d, host, i, h)
    BY <2>1 DEF Credits, Up
  <2> QED BY <2>6, <2>7, <2>8, <2>9, <2>10, <2>11 DEF WireInv, Wire
<1> QED BY <1>5, <1>6, <1>7, <1>8 DEF IInv

\* Every step keeps the invariant.
LEMMA Inductive == IInv /\ [Next]_vars => IInv'
<1> SUFFICES ASSUME IInv, [Next]_vars PROVE IInv'
  OBVIOUS
<1>1. CASE UNCHANGED vars
  <2>1. /\ sock' = sock /\ nextid' = nextid /\ online' = online /\ batch' = batch
        /\ d2h' = d2h /\ h2d' = h2d /\ prog' = prog /\ host' = host /\ session' = session
        /\ cnxns' = cnxns /\ cause' = cause
    BY <1>1 DEF vars
  <2>2. Others' /\ Local' /\ Connected'
    BY <2>1 DEF IInv, Others, Local, Connected
  <2>3. WireInv(sock', d2h', h2d', host', nextid')
    BY <2>1 DEF IInv
  <2> QED BY <2>2, <2>3 DEF IInv
<1>2. CASE fdevent_process
  BY <1>2, Process
<1>3. CASE MainPacket
  <2>1. CASE drop_packet
    BY <2>1, Drop
  <2>2. CASE handle_CNXN
    BY <2>2, Cnxn
  <2>3. CASE handle_OPEN
    BY <2>3, Open
  <2>4. CASE refuse_OPEN
    BY <2>4, RefuseOpen
  <2>5. CASE handle_OKAY
    BY <2>5, Okay
  <2>6. CASE handle_CLSE
    BY <2>6, Clse
  <2>7. CASE handle_WRTE
    BY <2>7, Wrte
  <2>8. CASE handle_SYNC0
    BY <2>8, Sync0
  <2> QED BY <1>3, <2>1, <2>2, <2>3, <2>4, <2>5, <2>6, <2>7, <2>8 DEF MainPacket
<1>4. CASE ss_listener_event_func
  BY <1>4, Listen
<1>5. CASE close_all_sockets
  BY <1>5, CloseAll
<1>6. ASSUME NEW i \in Ids, local_socket_event_func(i) PROVE IInv'
  BY <1>6, EventFunc
<1>7. ASSUME NEW i \in Ids, prog_write(i) \/ prog_request(i) \/ prog_read(i) \/ prog_close(i)
      PROVE  IInv'
  BY <1>7, ProgSteps
<1>8. CASE host_connect
  BY <1>8, Connects
<1>9. CASE host_receive
  BY <1>9, HostReceives
<1>10. CASE link_lost
  BY <1>10, Loses
<1>11. ASSUME NEW h \in Hids, host_open(h) PROVE IInv'
  BY <1>11, Opens
<1>12. ASSUME NEW h \in Hids, host_ack(h) PROVE IInv'
  BY <1>12, Acks
<1>13. ASSUME NEW h \in Hids, host_close(h) PROVE IInv'
  BY <1>13, HostCloses
<1>14. ASSUME NEW h \in Hids, NEW n \in 1..MaxPayload, host_write(h, n) PROVE IInv'
  BY <1>14, Writes
<1> QED BY <1>1, <1>2, <1>3, <1>4, <1>5, <1>6, <1>7, <1>8, <1>9, <1>10, <1>11, <1>12, <1>13, <1>14
        DEF Next

\* The inductive invariant holds of every reachable state: the two ends of the
\* wire agree on which local socket belongs to which host stream, whatever
\* packets of it adbd and the host have still to read.
THEOREM Invariance == Spec => []IInv
<1>1. Init => IInv
  BY Initial
<1>2. IInv /\ [Next]_vars => IInv'
  BY Inductive
<1> QED BY <1>1, <1>2, PTL DEF Spec

\* What is watched is in step with the life of the socket: a queue that is not
\* empty is watched for FDE_WRITE by a socket that is open or closing, and the
\* clients that close_all_sockets takes away have no event pending.
THEOREM Watching == Spec => []WatchInStep
<1>1. IInv => WatchInStep
  <2> SUFFICES ASSUME IInv PROVE WatchInStep
    OBVIOUS
  <2>1. TypeOK
    BY IInvType
  <2>2. \A i \in Ids : Watched(sock[i], batch[i])
    BY DEF IInv, Local
  <2>3. QueueWatched
    BY <2>2 DEF QueueWatched, Watched
  <2>4. WaitingIsQuiet
    BY <2>2 DEF WaitingIsQuiet, Watched
  <2> QED BY <2>1, <2>3, <2>4 DEF WatchInStep
<1> QED BY <1>1, Invariance, PTL

\* A client of the smart socket is told OKAY or FAIL at most once, and has been
\* told OKAY before local_socket_enqueue writes it a byte of the stream.
THEOREM Told == Spec => []ClientToldOnce
<1>1. IInv => ClientToldOnce
  BY DEF IInv, Local, Heard, ClientToldOnce
<1> QED BY <1>1, Invariance, PTL

\* remote_socket_close sends the last packet of a stream: nothing that is
\* addressed to the host's id follows its CLSE.
THEOREM SilentAfterClose == Spec => []NothingAfterClose
<1>1. IInv => NothingAfterClose
  BY DEF IInv, WireInv, Wire, Silence, NothingAfterClose
<1> QED BY <1>1, Invariance, PTL

\* Flow control of every stream that both ends have: in each direction one
\* credit, held by one of the ends or by one packet under way.
THEOREM CreditKept == Spec => []OneCredit
<1>1. IInv => OneCredit
  <2> SUFFICES ASSUME IInv, NEW i \in Ids, NEW h \in Hids, Paired(i, h)
               PROVE  /\ Bool(R \in sock[i].mask) + Count(d2h, "WRTE", i, h) + Bool(host[h].owes)
                           + Count(h2d, "OKAY", h, i) = 1
                      /\ Bool(host[h].ready) + Count(h2d, "WRTE", h, i) + Len(sock[i].queue)
                           + Count(d2h, "OKAY", i, h) = 1
    BY DEF OneCredit
  <2>1. Credits(sock, d2h, h2d, host, i, h)
    BY DEF IInv, WireInv, Wire
  <2>2. Up(sock, host, i, h)
    BY DEF Paired, Up, Linked
  <2> QED BY <2>1, <2>2 DEF Credits
<1> QED BY <1>1, Invariance, PTL
=============================================================================
