------------------------- MODULE SocketsBytesProofs -------------------------
(***************************************************************************)
(* Proofs about the bytes of Sockets: none is lost, repeated or reordered, *)
(* a program that ends is not cut off, and a socket that the host closes   *)
(* is drained.  They rest on a second inductive invariant, BInv, which     *)
(* follows the bytes of a stream from before it is up until after it has   *)
(* gone; it is inductive together with the IInv of SocketsProofs.  On top  *)
(* of both, OInv follows what ends a stream that the host has left, and    *)
(* EInv the bytes that a failed write leaves behind.                       *)
(***************************************************************************)
EXTENDS SocketsProofs

-----------------------------------------------------------------------------
(* FlattenSeq of a queue.                                                  *)

\* p and q agree on their first m places.
SameUpto(p, q, m) == \A k \in 1..m : p[k] = q[k]

\* Queues that agree on their first m packets are joined to the same bytes up
\* to m: in particular there is one such function for a queue.
LEMMA JoinsSame ==
  ASSUME NEW S, NEW q, NEW n \in Nat, NEW m \in Nat, m <= n,
         NEW q2, SameUpto(q2, q, m),
         NEW f, Joins(S, q, n, f), NEW g, Joins(S, q2, m, g)
  PROVE  SameUpto(f, g, m)
<1> DEFINE T == {k \in 1..m : f[k] # g[k]}
<1> SUFFICES ASSUME T # {} PROVE FALSE
  BY DEF SameUpto
<1>1. PICK k \in T : \A y \in T : k <= y
  <2>1. T \subseteq Nat
    OBVIOUS
  <2> HIDE DEF T
  <2> QED BY <2>1, LeastElement
<1>2. f[1] = q[1] /\ g[1] = q2[1] /\ \A j \in 2..n : f[j] = f[j - 1] \o q[j]
  BY DEF Joins
<1>3. \A j \in 2..m : g[j] = g[j - 1] \o q2[j]
  BY DEF Joins
<1>3a. \A j \in 1..m : q2[j] = q[j]
  BY DEF SameUpto
<1>4. k # 1
  BY <1>1, <1>2, <1>3a
<1>5. k - 1 \in 1..m /\ k \in 2..m /\ k \in 2..n /\ ~(k <= k - 1)
  BY <1>1, <1>4
<1>6. f[k - 1] = g[k - 1]
  BY <1>1, <1>5
<1> QED BY <1>1, <1>2, <1>3, <1>3a, <1>5, <1>6

\* What FlattenSeq makes of nothing and of one sequence.
LEMMA FlatOne ==
  ASSUME NEW S
  PROVE  /\ FlattenSeq(<<>>) = <<>>
         /\ \A d \in Seq(S) : FlattenSeq(<<d>>) = d
<1>1. FlattenSeq(<<>>) = <<>>
  BY DEF FlattenSeq
<1>2. ASSUME NEW d \in Seq(S) PROVE FlattenSeq(<<d>>) = d
  <2>1. <<d>> \in Seq(Seq(S)) /\ <<d>> # <<>> /\ Len(<<d>>) = 1 /\ <<d>>[1] = d
    OBVIOUS
  <2>2. PICK f : Joins(S, <<d>>, 1, f) /\ FlattenSeq(<<d>>) = f[1]
    BY <2>1, Flattened
  <2> QED BY <2>1, <2>2 DEF Joins
<1> QED BY <1>1, <1>2

\* FlattenSeq of a queue with one more sequence.
LEMMA FlatAppend ==
  ASSUME NEW S, NEW q \in Seq(Seq(S)), NEW d \in Seq(S)
  PROVE  FlattenSeq(Append(q, d)) = FlattenSeq(q) \o d
<1> PICK n \in Nat : n = Len(q)
  BY Shape
<1> PICK a : a = Append(q, d)
  OBVIOUS
<1>1. /\ a \in Seq(Seq(S)) /\ a # <<>> /\ Len(a) = n + 1
      /\ \A k \in 1..n : a[k] = q[k] /\ a[n + 1] = d
  BY Appended
<1>2. PICK f : Joins(S, a, n + 1, f) /\ FlattenSeq(a) = f[n + 1]
  BY <1>1, Flattened
<1>3. CASE q = <<>>
  <2>1. a = <<d>>
    BY <1>3
  <2>2. FlattenSeq(a) = d /\ FlattenSeq(q) = <<>>
    BY <2>1, <1>3, FlatOne
  <2> QED BY <2>2, ConcatEmptySeq
<1>4. CASE q # <<>>
  <2>1. n \in 1..n /\ n \in 1..(n + 1) /\ n + 1 \in 2..(n + 1) /\ (n + 1) - 1 = n
    BY <1>4, Shape
  <2>2. PICK g : Joins(S, q, n, g) /\ FlattenSeq(q) = g[n]
    BY <1>4, Flattened
  <2>3. SameUpto(q, a, n)
    BY <1>1 DEF SameUpto
  <2>4. f[n] = g[n]
    <3>1. n + 1 \in Nat /\ n <= n + 1 /\ n \in Nat
      OBVIOUS
    <3>2. Joins(S, a, n + 1, f) /\ Joins(S, q, n, g)
      BY <2>2, <1>2
    <3>3. SameUpto(f, g, n)
      BY ONLY <3>1, <3>2, <2>3, JoinsSame
    <3> QED BY <3>3, <2>1 DEF SameUpto
  <2>5. f[n + 1] = f[n] \o a[n + 1]
    BY <2>1, <1>2 DEF Joins
  <2>6. a[n + 1] = d
    BY <1>1, <2>1
  <2> QED BY <2>1, <2>2, <2>4, <2>5, <2>6, <1>2
<1> QED BY <1>3, <1>4

\* FlattenSeq begins with the first sequence.
LEMMA FlatTaken ==
  ASSUME NEW S, NEW q \in Seq(Seq(S)), q # <<>>
  PROVE  FlattenSeq(q) = Head(q) \o FlattenSeq(Tail(q))
<1> PICK n \in Nat : n = Len(q)
  BY Shape
<1> PICK t : t = Tail(q)
  OBVIOUS
<1>1. /\ Head(q) = q[1] /\ q[1] \in Seq(S) /\ t \in Seq(Seq(S)) /\ n # 0 /\ Len(t) = n - 1
      /\ \A k \in 1..(n - 1) : t[k] = q[k + 1]
  BY Taken
<1>1a. \A k \in 1..(n - 1) : t[k] \in Seq(S)
  BY <1>1, Shape
<1>2. PICK f : Joins(S, q, n, f) /\ FlattenSeq(q) = f[n]
  BY Flattened
<1>3. CASE n = 1
  <2>1. t = <<>>
    BY <1>1, <1>3, Shape
  <2>2. FlattenSeq(t) = <<>>
    BY <2>1, FlatOne
  <2>3. f[n] = q[1]
    BY <1>2, <1>3 DEF Joins
  <2> QED BY <2>2, <2>3, <1>1, <1>2, ConcatEmptySeq
<1>4. CASE n # 1
  <2>0. n - 1 \in Nat /\ n - 1 # 0 /\ (n - 1) + 1 = n
    BY <1>1, <1>4
  <2> PICK m \in Nat : m = n - 1 /\ m # 0 /\ m + 1 = n
    BY <2>0
  <2>1. PICK g : Joins(S, t, m, g) /\ FlattenSeq(t) = g[m]
    <3>1. t # <<>>
      BY <1>1, Shape
    <3> QED BY <3>1, <1>1, Flattened
  <2>2. /\ f[1] = q[1] /\ \A k \in 2..n : f[k] = f[k - 1] \o q[k]
        /\ g[1] = t[1] /\ \A k \in 2..m : g[k] = g[k - 1] \o t[k]
        /\ \A k \in 1..m : g[k] \in Seq(S)
    BY <1>2, <2>1 DEF Joins
  <2> DEFINE C(k) == f[k + 1] = q[1] \o g[k]
             T == {k \in 1..m : ~C(k)}
  <2> HIDE DEF C
  <2>3. T = {}
    <3> SUFFICES ASSUME T # {} PROVE FALSE
      OBVIOUS
    <3>1. PICK k \in T : \A y \in T : k <= y
      <4>1. T \subseteq 1..m /\ 1..m \subseteq Nat
        OBVIOUS
      <4> HIDE DEF T
      <4> QED BY <4>1, LeastElement
    <3>2. k \in 1..m /\ k \in Nat /\ k + 1 \in 2..n /\ (k + 1) - 1 = k
      BY <3>1
    <3>3. f[k + 1] = f[k] \o q[k + 1] /\ t[k] = q[k + 1]
      BY <3>2, <2>2, <1>1
    <3>4. k # 1
      BY <3>1, <3>3, <2>2 DEF C
    <3>5. k - 1 \in 1..m /\ k \in 2..m /\ ~(k <= k - 1) /\ (k - 1) + 1 = k
      BY <3>2, <3>4
    <3>6. f[k] = q[1] \o g[k - 1] /\ g[k] = g[k - 1] \o t[k]
      BY <3>1, <3>5, <2>2 DEF C
    <3>7. (q[1] \o g[k - 1]) \o t[k] = q[1] \o (g[k - 1] \o t[k])
      <4>1. q[1] \in Seq(S) /\ g[k - 1] \in Seq(S) /\ t[k] \in Seq(S)
        BY <3>5, <2>2, <1>1, <1>1a
      <4>2. PICK x, y, z \in Seq(S) : x = q[1] /\ y = g[k - 1] /\ z = t[k]
        BY <4>1
      <4>3. (x \o y) \o z = x \o (y \o z)
        <5>1. x \in Seq(S) /\ y \in Seq(S) /\ z \in Seq(S)
          OBVIOUS
        <5> QED BY ONLY <5>1, ConcatAssociative, SMTT(30)
      <4> QED BY ONLY <4>2, <4>3
    <3> QED BY <3>1, <3>3, <3>6, <3>7 DEF C
  <2>4. m \in 1..m
    OBVIOUS
  <2>5. f[n] = q[1] \o g[m]
    BY <2>3, <2>4 DEF C
  <2> QED BY <2>1, <2>5, <1>1, <1>2
<1> QED BY <1>3, <1>4

-----------------------------------------------------------------------------
(* Bytes under way.                                                        *)

\* Sequences of bytes and their joining, by name: the provers need not look into
\* them.
Bytes == Seq(Nat)
Cat(x, y) == x \o y

\* The bytes that a packet carries from a to b, and those of a queue.
Part(p, a, b) == IF Fits(p, "WRTE", a, b) THEN p.data ELSE <<>>
Parts(q, a, b) == [k \in DOMAIN q |-> Part(q[k], a, b)]

\* Payload, by the parts of its packets.
LEMMA PartsType ==
  ASSUME NEW q \in Seq(Packets), NEW a, NEW b
  PROVE  /\ Parts(q, a, b) \in Seq(Seq(Nat)) /\ Len(Parts(q, a, b)) = Len(q)
         /\ DOMAIN Parts(q, a, b) = 1..Len(q)
         /\ Payload(q, a, b) = FlattenSeq(Parts(q, a, b)) /\ Payload(q, a, b) \in Seq(Nat)
         /\ \A k \in 1..Len(q) : Parts(q, a, b)[k] = Part(q[k], a, b)
         /\ \A p \in Packets : Part(p, a, b) \in Seq(Nat)
<1>1. Len(q) \in Nat /\ DOMAIN q = 1..Len(q) /\ \A k \in 1..Len(q) : q[k] \in Packets
  BY Shape
<1>2. \A p \in Packets : Part(p, a, b) \in Seq(Nat)
  <2>1. <<>> \in Seq(Nat)
    BY EmptySeq
  <2> QED BY <2>1 DEF Part, Packets
<1> PICK r : r = Parts(q, a, b)
  OBVIOUS
<1>3. r \in [1..Len(q) -> Seq(Nat)] /\ \A k \in 1..Len(q) : r[k] = Part(q[k], a, b)
  BY <1>1, <1>2 DEF Parts
<1>4. r \in Seq(Seq(Nat)) /\ Len(r) = Len(q) /\ DOMAIN r = 1..Len(q)
  <2>1. PICK n \in Nat : n = Len(q)
    BY <1>1, Zenon
  <2>2. r \in [1..n -> Seq(Nat)]
    BY <1>3, <2>1
  <2> QED BY <2>1, <2>2, IsASeq, LenProperties
<1>5. Payload(q, a, b) = FlattenSeq(r)
  BY DEF Payload, Parts, Part, Fits
<1>6. FlattenSeq(r) \in Seq(Nat)
  BY <1>4, FlattenType
<1> QED BY <1>2, <1>3, <1>4, <1>5, <1>6

\* What is under way is bytes.
LEMMA PayType ==
  ASSUME NEW q \in Seq(Packets), NEW a, NEW b
  PROVE  Payload(q, a, b) \in Bytes
BY PartsType DEF Bytes

\* A packet that is sent adds its bytes.
LEMMA PaySent ==
  ASSUME NEW q \in Seq(Packets), NEW p \in Packets, NEW a, NEW b
  PROVE  /\ Payload(q, a, b) \in Bytes /\ Payload(Append(q, p), a, b) \in Bytes /\ p.data \in Bytes
         /\ Fits(p, "WRTE", a, b) => Payload(Append(q, p), a, b) = Cat(Payload(q, a, b), p.data)
         /\ ~Fits(p, "WRTE", a, b) => Payload(Append(q, p), a, b) = Payload(q, a, b)
<1> PICK n \in Nat : n = Len(q)
  BY Shape
<1> PICK e : e = Append(q, p)
  OBVIOUS
<1> PICK r : r = Parts(q, a, b)
  OBVIOUS
<1> PICK u : u = Parts(e, a, b)
  OBVIOUS
<1> PICK d : d = Part(p, a, b)
  OBVIOUS
<1>1. e \in Seq(Packets) /\ Len(e) = n + 1 /\ (\A k \in 1..n : e[k] = q[k]) /\ e[n + 1] = p
  BY Appended
<1>2. /\ r \in Seq(Seq(Nat)) /\ Len(r) = n /\ Payload(q, a, b) = FlattenSeq(r) /\ d \in Seq(Nat)
      /\ Payload(q, a, b) \in Seq(Nat)
      /\ \A k \in 1..n : r[k] = Part(q[k], a, b)
  BY PartsType
<1>3. /\ u \in Seq(Seq(Nat)) /\ Len(u) = n + 1 /\ Payload(e, a, b) = FlattenSeq(u)
      /\ Payload(e, a, b) \in Seq(Nat)
      /\ \A k \in 1..(n + 1) : u[k] = Part(e[k], a, b)
  <2>1. /\ u \in Seq(Seq(Nat)) /\ Len(u) = Len(e) /\ Payload(e, a, b) = FlattenSeq(u)
        /\ Payload(e, a, b) \in Seq(Nat)
        /\ \A k \in 1..Len(e) : u[k] = Part(e[k], a, b)
    <3>1. e \in Seq(Packets) /\ u = Parts(e, a, b)
      BY <1>1
    <3> QED BY ONLY <3>1, PartsType
  <2> QED BY <2>1, <1>1
<1>4. u = Append(r, d)
  <2> PICK v : v = Append(r, d)
    OBVIOUS
  <2>1. /\ v \in Seq(Seq(Nat)) /\ Len(v) = n + 1
        /\ (\A k \in 1..n : v[k] = r[k]) /\ v[n + 1] = d
    BY <1>2, Appended
  <2>2. ASSUME NEW k \in 1..(n + 1) PROVE u[k] = v[k]
    <3>1. CASE k \in 1..n
      BY <3>1, <2>1, <1>1, <1>2, <1>3
    <3>2. CASE k = n + 1
      BY <3>2, <2>1, <1>1, <1>3
    <3>3. k \in 1..n \/ k = n + 1
      BY ONLY n \in Nat, k \in 1..(n + 1)
    <3> QED BY <3>1, <3>2, <3>3
  <2>3. Len(u) = Len(v) /\ \A k \in 1..Len(u) : u[k] = v[k]
    BY <2>1, <2>2, <1>3
  <2>4. u = v
    BY ONLY <2>1, <2>3, <1>3, SeqEqual
  <2> QED BY <2>4
<1>5. Payload(e, a, b) = Payload(q, a, b) \o d
  BY <1>2, <1>3, <1>4, FlatAppend
<1>8. p.data \in Bytes
  BY DEF Packets, Bytes
<1>6. CASE Fits(p, "WRTE", a, b)
  BY <1>6, <1>5, <1>2, <1>3, <1>8 DEF Part, Bytes, Cat
<1>7. CASE ~Fits(p, "WRTE", a, b)
  <2>1. d = <<>>
    BY <1>7 DEF Part
  <2>2. Payload(q, a, b) \o <<>> = Payload(q, a, b)
    BY <1>2, ConcatEmptySeq
  <2> QED BY <1>7, <1>5, <1>2, <1>3, <1>8, <2>1, <2>2 DEF Bytes
<1> QED BY <1>6, <1>7

\* A packet that is taken takes its bytes.
LEMMA PayTaken ==
  ASSUME NEW q \in Seq(Packets), q # <<>>, NEW a, NEW b
  PROVE  /\ Payload(q, a, b) \in Bytes /\ Payload(Tail(q), a, b) \in Bytes /\ Head(q).data \in Bytes
         /\ Fits(Head(q), "WRTE", a, b) =>
              Payload(q, a, b) = Cat(Head(q).data, Payload(Tail(q), a, b))
         /\ ~Fits(Head(q), "WRTE", a, b) => Payload(Tail(q), a, b) = Payload(q, a, b)
<1> PICK n \in Nat : n = Len(q)
  BY Shape
<1> PICK t : t = Tail(q)
  OBVIOUS
<1> PICK r : r = Parts(q, a, b)
  OBVIOUS
<1> PICK u : u = Parts(t, a, b)
  OBVIOUS
<1> PICK d : d = Part(Head(q), a, b)
  OBVIOUS
<1>1. /\ t \in Seq(Packets) /\ n # 0 /\ Len(t) = n - 1
      /\ (\A k \in 1..(n - 1) : t[k] = q[k + 1]) /\ Head(q) = q[1]
  BY Taken
<1>2. /\ r \in Seq(Seq(Nat)) /\ Len(r) = n /\ Payload(q, a, b) = FlattenSeq(r)
      /\ Payload(q, a, b) \in Seq(Nat)
      /\ \A k \in 1..n : r[k] = Part(q[k], a, b)
  BY PartsType
<1>3. /\ u \in Seq(Seq(Nat)) /\ Len(u) = n - 1 /\ Payload(t, a, b) = FlattenSeq(u)
      /\ Payload(t, a, b) \in Seq(Nat)
      /\ \A k \in 1..(n - 1) : u[k] = Part(t[k], a, b)
  <2>1. /\ u \in Seq(Seq(Nat)) /\ Len(u) = Len(t) /\ Payload(t, a, b) = FlattenSeq(u)
        /\ Payload(t, a, b) \in Seq(Nat)
        /\ \A k \in 1..Len(t) : u[k] = Part(t[k], a, b)
    <3>1. t \in Seq(Packets) /\ u = Parts(t, a, b)
      BY <1>1
    <3> QED BY ONLY <3>1, PartsType
  <2> QED BY <2>1, <1>1
<1>4. r # <<>> /\ Head(r) = d /\ u = Tail(r)
  <2>1. r # <<>>
    BY <1>1, <1>2, Shape
  <2> PICK v : v = Tail(r)
    OBVIOUS
  <2>2. Head(r) = r[1] /\ v \in Seq(Seq(Nat)) /\ Len(v) = n - 1
        /\ \A k \in 1..(n - 1) : v[k] = r[k + 1]
    BY <2>1, <1>2, Taken
  <2>3. r[1] = d
    <3>1. 1 \in 1..n /\ Head(q) = q[1]
      BY <1>1
    <3> QED BY <3>1, <1>2
  <2>4. ASSUME NEW k \in 1..(n - 1) PROVE u[k] = v[k]
    <3>1. k + 1 \in 1..n
      BY <1>1
    <3> QED BY <3>1, <2>2, <1>1, <1>2, <1>3
  <2>5. Len(u) = Len(v) /\ \A k \in 1..Len(u) : u[k] = v[k]
    BY <2>2, <2>4, <1>3
  <2>6. u = v
    BY ONLY <2>2, <2>5, <1>3, SeqEqual
  <2> QED BY <2>1, <2>2, <2>3, <2>6
<1>5. Payload(q, a, b) = d \o Payload(t, a, b)
  <2>1. FlattenSeq(r) = Head(r) \o FlattenSeq(Tail(r))
    BY <1>2, <1>4, FlatTaken
  <2> QED BY <2>1, <1>2, <1>3, <1>4
<1>8. Head(q).data \in Bytes
  <2>1. Head(q) \in Packets
    BY Taken
  <2> QED BY <2>1 DEF Packets, Bytes
<1>6. CASE Fits(Head(q), "WRTE", a, b)
  BY <1>6, <1>5, <1>2, <1>3, <1>8 DEF Part, Bytes, Cat
<1>7. CASE ~Fits(Head(q), "WRTE", a, b)
  <2>1. d = <<>>
    BY <1>7 DEF Part
  <2>2. <<>> \o Payload(t, a, b) = Payload(t, a, b)
    BY <1>3, ConcatEmptySeq
  <2> QED BY <1>7, <1>5, <1>2, <1>3, <1>8, <2>1, <2>2 DEF Bytes
<1> QED BY <1>6, <1>7

\* Packet k of q carries bytes from a to b.
Bears(q, k, a, b) == Fits(q[k], "WRTE", a, b)

\* The first n packets carry the first bytes; all of them, when the packets
\* after n carry none.
LEMMA PayCut ==
  ASSUME NEW q \in Seq(Packets), NEW n \in 0..Len(q), NEW a, NEW b
  PROVE  /\ Payload(SubSeq(q, 1, n), a, b) \in Bytes /\ Payload(q, a, b) \in Bytes
         /\ \E z \in Bytes : Payload(q, a, b) = Cat(Payload(SubSeq(q, 1, n), a, b), z)
         /\ (\A k \in (n + 1)..Len(q) : ~Bears(q, k, a, b)) =>
              Payload(q, a, b) = Payload(SubSeq(q, 1, n), a, b)
<1> PICK l \in Nat : l = Len(q)
  BY Shape
<1> DEFINE P(m) == Payload(SubSeq(q, 1, m), a, b)
           None2(m) == \A k \in (m + 1)..l : ~Bears(q, k, a, b)
           C(m) == /\ \E z \in Seq(Nat) : Payload(q, a, b) = P(m) \o z
                   /\ None2(m) => Payload(q, a, b) = P(m)
<1>0. \A k \in 1..l : q[k] \in Packets
  BY Shape
<1>1. ASSUME NEW m \in 0..l PROVE SubSeq(q, 1, m) \in Seq(Packets) /\ P(m) \in Seq(Nat)
  <2>1. SubSeq(q, 1, m) \in Seq(Packets)
    <3>1. \A k \in 1..m : q[k] \in Packets
      BY <1>0
    <3> QED BY <3>1, SubSeqProperties
  <2> QED BY <2>1, PartsType
<1>2. ASSUME NEW m \in Nat, m + 1 <= l
      PROVE  SubSeq(q, 1, m + 1) = Append(SubSeq(q, 1, m), q[m + 1])
  <2>1. m + 1 \in 0..l /\ m + 1 \in 1..l
    BY <1>2
  <2> QED BY <2>1, SubSeqRecursiveSecond
<1>3. C(l)
  <2>1. SubSeq(q, 1, l) = q
    BY SubSeqFull
  <2>2. Payload(q, a, b) \in Seq(Nat)
    BY PartsType
  <2>3. Payload(q, a, b) \o <<>> = Payload(q, a, b) /\ <<>> \in Seq(Nat)
    BY <2>2, ConcatEmptySeq, EmptySeq
  <2> QED BY <2>1, <2>3
<1>4. ASSUME NEW m \in Nat, m + 1 <= l, C(m + 1) PROVE C(m)
  <2>0. m + 1 \in 1..l /\ m \in 0..l /\ m + 1 \in 0..l
    BY <1>4
  <2> PICK p \in Packets : p = q[m + 1]
    BY <2>0, <1>0
  <2> PICK c : c = SubSeq(q, 1, m)
    OBVIOUS
  <2>1. c \in Seq(Packets) /\ SubSeq(q, 1, m + 1) = Append(c, p)
    BY <2>0, <1>1, <1>2, <1>4
  <2>2. PICK x \in Seq(Nat) : x = Payload(c, a, b)
    BY <2>1, PartsType
  <2>3. PICK y \in Seq(Nat) : y = P(m + 1)
    BY <2>0, <1>1
  <2>4. PICK d \in Seq(Nat) : d = p.data
    BY DEF Packets
  <2>5. (Fits(p, "WRTE", a, b) => y = x \o d) /\ (~Fits(p, "WRTE", a, b) => y = x)
    <3>1. Payload(Append(c, p), a, b) = y
      BY <2>1, <2>3
    <3>2. c \in Seq(Packets) /\ p \in Packets
      BY <2>1
    <3>3. /\ Fits(p, "WRTE", a, b) => Payload(Append(c, p), a, b) = Cat(Payload(c, a, b), p.data)
          /\ ~Fits(p, "WRTE", a, b) => Payload(Append(c, p), a, b) = Payload(c, a, b)
      BY ONLY <3>2, PaySent
    <3> QED BY ONLY <3>1, <3>3, <2>2, <2>4 DEF Cat
  <2>6. PICK z \in Seq(Nat) : Payload(q, a, b) = y \o z
    BY <2>3, <1>4
  <2>7. \E v \in Seq(Nat) : Payload(q, a, b) = x \o v
    <3>1. (x \o d) \o z = x \o (d \o z) /\ d \o z \in Seq(Nat)
      <4>1. x \in Seq(Nat) /\ d \in Seq(Nat) /\ z \in Seq(Nat)
        OBVIOUS
      <4>2. (x \o d) \o z = x \o (d \o z)
        BY ONLY <4>1, ConcatAssociative, SMTT(30)
      <4>3. d \o z \in Seq(Nat)
        BY ONLY <4>1, ConcatProperties
      <4> QED BY <4>2, <4>3
    <3> QED BY <3>1, <2>5, <2>6
  <2>8. ASSUME None2(m) PROVE Payload(q, a, b) = x
    <3>1. ~Fits(p, "WRTE", a, b)
      <4>1. m + 1 \in (m + 1)..l
        BY <2>0
      <4> QED BY <4>1, <2>8 DEF Bears
    <3>2. None2(m + 1)
      <4>1. \A k \in ((m + 1) + 1)..l : k \in (m + 1)..l
        OBVIOUS
      <4> QED BY <4>1, <2>8
    <3> QED BY <3>1, <3>2, <2>3, <2>5, <1>4
  <2>9. P(m) = x
    BY <2>2
  <2> HIDE DEF P, None2
  <2> QED BY <2>7, <2>8, <2>9
<1>5. \A m \in 0..l : C(m)
  <2> DEFINE T == {k \in 0..l : ~C(l - k)}
  <2> HIDE DEF C
  <2> SUFFICES ASSUME T # {} PROVE FALSE
    <3>1. ASSUME NEW m \in 0..l PROVE C(m)
      <4>1. l - m \in 0..l /\ l - (l - m) = m
        OBVIOUS
      <4> QED BY <4>1
    <3> QED BY <3>1
  <2>1. PICK k \in T : \A y \in T : k <= y
    <3>1. T \subseteq Nat
      OBVIOUS
    <3> HIDE DEF T
    <3> QED BY <3>1, LeastElement
  <2>2. k # 0
    <3>1. l - 0 = l
      OBVIOUS
    <3> QED BY <3>1, <2>1, <1>3
  <2>3. k - 1 \in 0..l /\ ~(k <= k - 1) /\ l - (k - 1) = (l - k) + 1 /\ l - k \in Nat /\ (l - k) + 1 <= l
    BY <2>1, <2>2
  <2>4. C(l - (k - 1))
    BY <2>1, <2>3
  <2>5. C((l - k) + 1)
    BY <2>3, <2>4
  <2>6. C(l - k)
    BY <2>3, <2>5, <1>4
  <2> QED BY <2>1, <2>6
<1>6. C(n) /\ P(n) \in Seq(Nat)
  BY <1>1, <1>5
<1>7. Payload(q, a, b) \in Seq(Nat)
  BY PartsType
<1> QED BY <1>6, <1>7 DEF Bytes, Cat

\* A queue with no data from a to b.
LEMMA PayNone ==
  ASSUME NEW q \in Seq(Packets), NEW a, NEW b, \A k \in DOMAIN q : ~Bears(q, k, a, b)
  PROVE  Payload(q, a, b) = <<>>
<1>1. Len(q) \in Nat /\ DOMAIN q = 1..Len(q)
  BY Shape
<1>2. 0 \in 0..Len(q) /\ \A k \in (0 + 1)..Len(q) : ~Bears(q, k, a, b)
  BY <1>1
<1>3. Payload(q, a, b) = Payload(SubSeq(q, 1, 0), a, b)
  BY <1>2, PayCut
<1>4. SubSeq(q, 1, 0) = <<>>
  BY SubSeqEmpty
<1>5. Payload(<<>>, a, b) = <<>>
  <2>1. <<>> \in Seq(Packets) /\ Len(<<>>) = 0
    BY EmptySeq
  <2> PICK r : r = Parts(<<>>, a, b)
    OBVIOUS
  <2>2. r \in Seq(Seq(Nat)) /\ Len(r) = 0 /\ Payload(<<>>, a, b) = FlattenSeq(r)
    BY <2>1, PartsType
  <2>3. r = <<>>
    BY <2>2, Shape
  <2> QED BY <2>2, <2>3, FlatOne
<1> QED BY <1>3, <1>4, <1>5

\* The bytes of a stream from the first on, without a gap.
Dense(x) == x = Upto(Len(x))

\* Joined sequences of bytes.
LEMMA Join ==
  /\ <<>> \in Bytes
  /\ \A x \in Bytes : Cat(x, <<>>) = x /\ Cat(<<>>, x) = x
  /\ \A x, y \in Bytes : Cat(x, y) \in Bytes
  /\ \A x, y, z \in Bytes : Cat(Cat(x, y), z) = Cat(x, Cat(y, z))
<1>1. ASSUME NEW x \in Seq(Nat), NEW y \in Seq(Nat) PROVE x \o y \in Seq(Nat)
  BY ConcatProperties
<1>2. ASSUME NEW x \in Seq(Nat), NEW y \in Seq(Nat), NEW z \in Seq(Nat)
      PROVE  (x \o y) \o z = x \o (y \o z)
  BY ConcatAssociative, SMTT(30)
<1>3. ASSUME NEW x \in Seq(Nat) PROVE x \o <<>> = x /\ <<>> \o x = x
  BY ConcatEmptySeq
<1>4. <<>> \in Bytes
  BY EmptySeq DEF Bytes
<1>5. \A x, y \in Bytes : Cat(x, y) \in Bytes
  BY <1>1 DEF Bytes, Cat
<1>6. ASSUME NEW x \in Bytes, NEW y \in Bytes, NEW z \in Bytes
      PROVE  Cat(Cat(x, y), z) = Cat(x, Cat(y, z))
  BY <1>2 DEF Bytes, Cat
<1>7. \A x \in Bytes : Cat(x, <<>>) = x /\ Cat(<<>>, x) = x
  BY <1>3 DEF Bytes, Cat
<1> QED BY <1>4, <1>5, <1>6, <1>7

\* The first n bytes.
LEMMA UptoType ==
  /\ Upto(0) = <<>>
  /\ \A n \in Nat : Upto(n) \in Bytes /\ Len(Upto(n)) = n /\ Dense(Upto(n))
<1>1. ASSUME NEW n \in Nat PROVE Upto(n) \in Seq(Nat) /\ Len(Upto(n)) = n
  BY DEF Upto
<1>2. Upto(0) = <<>>
  BY <1>1, Shape
<1> QED BY <1>1, <1>2 DEF Dense, Bytes

\* What is first has no gap.
LEMMA DenseFirst ==
  ASSUME NEW x \in Bytes, NEW y \in Bytes, Dense(Cat(x, y))
  PROVE  Dense(x)
<1> x \in Seq(Nat) /\ y \in Seq(Nat) /\ Dense(x \o y)
  BY DEF Bytes, Cat
<1> PICK m \in Nat : m = Len(x)
  BY Shape
<1> PICK n \in Nat : n = Len(y)
  BY Shape
<1>1. Len(x \o y) = m + n /\ \A k \in 1..(m + n) : (x \o y)[k] = IF k <= m THEN x[k] ELSE y[k - m]
  BY ConcatProperties
<1>2. \A k \in 1..(m + n) : (x \o y)[k] = k
  BY <1>1 DEF Dense, Upto
<1>3. \A k \in 1..m : x[k] = k
  <2>1. ASSUME NEW k \in 1..m PROVE x[k] = k
    <3>1. k \in 1..(m + n) /\ k <= m
      OBVIOUS
    <3> QED BY <3>1, <1>1, <1>2
  <2> QED BY <2>1
<1>4. x = [k \in 1..m |-> x[k]]
  BY LenProperties
<1>5. x = [k \in 1..m |-> k]
  BY ONLY <1>3, <1>4
<1> QED BY <1>5 DEF Dense, Upto

\* The next bytes.
LEMMA UptoMore ==
  ASSUME NEW n \in Nat, NEW m \in Nat
  PROVE  /\ [k \in 1..m |-> n + k] \in Bytes
         /\ Cat(Upto(n), [k \in 1..m |-> n + k]) = Upto(n + m)
<1> PICK y : y = [k \in 1..m |-> n + k]
  OBVIOUS
<1>1. y \in Seq(Nat) /\ Len(y) = m /\ \A k \in 1..m : y[k] = n + k
  OBVIOUS
<1> PICK x \in Seq(Nat) : x = Upto(n)
  BY UptoType DEF Bytes
<1>2. Len(x) = n /\ \A k \in 1..n : x[k] = k
  BY UptoType DEF Upto
<1> PICK u : u = Upto(n + m)
  OBVIOUS
<1>3. u \in Seq(Nat) /\ Len(u) = n + m /\ \A k \in 1..(n + m) : u[k] = k
  <2>1. n + m \in Nat
    OBVIOUS
  <2> QED BY <2>1, UptoType DEF Upto, Bytes
<1> PICK c : c = x \o y
  OBVIOUS
<1>4. /\ c \in Seq(Nat) /\ Len(c) = n + m
      /\ \A k \in 1..(n + m) : c[k] = IF k <= n THEN x[k] ELSE y[k - n]
  <2>1. x \in Seq(Nat) /\ y \in Seq(Nat)
    BY <1>1
  <2>2. /\ x \o y \in Seq(Nat) /\ Len(x \o y) = Len(x) + Len(y)
        /\ \A k \in 1..(Len(x) + Len(y)) : (x \o y)[k] = IF k <= Len(x) THEN x[k] ELSE y[k - Len(x)]
    BY ONLY <2>1, ConcatProperties
  <2> QED BY <1>1, <1>2, <2>2
<1>5. ASSUME NEW k \in 1..(n + m) PROVE c[k] = u[k]
  <2>1. CASE k <= n
    BY <2>1, <1>2, <1>3, <1>4
  <2>2. CASE ~(k <= n)
    <3>1. k - n \in 1..m /\ n + (k - n) = k
      BY <2>2
    <3> QED BY <3>1, <2>2, <1>1, <1>3, <1>4
  <2> QED BY <2>1, <2>2
<1>6. Len(c) = Len(u) /\ \A k \in 1..Len(c) : c[k] = u[k]
  BY <1>3, <1>4, <1>5
<1>7. c = u
  BY ONLY <1>3, <1>4, <1>6, SeqEqual
<1> QED BY <1>1, <1>7 DEF Bytes, Cat

\* One more byte.
LEMMA UptoNext ==
  ASSUME NEW x \in Bytes, NEW y \in Bytes, NEW n \in Nat, Cat(x, y) = Upto(n)
  PROVE  Append(y, n + 1) \in Bytes /\ Cat(x, Append(y, n + 1)) = Upto(n + 1)
<1> PICK d : d = [k \in 1..1 |-> n + k]
  OBVIOUS
<1>1. d \in Bytes /\ Cat(Upto(n), d) = Upto(n + 1)
  BY UptoMore
<1>2. d = <<n + 1>>
  OBVIOUS
<1>3. Append(y, n + 1) = Cat(y, d)
  <2>1. n + 1 \in Nat
    OBVIOUS
  <2> QED BY <1>2, <2>1, AppendIsConcat DEF Bytes, Cat
<1>4. Cat(Cat(x, y), d) = Cat(x, Cat(y, d)) /\ Cat(y, d) \in Bytes
  BY <1>1, Join
<1> QED BY <1>1, <1>3, <1>4

\* A sequence, cut in two.
LEMMA Cut ==
  ASSUME NEW x \in Bytes, NEW n \in 0..Len(x)
  PROVE  /\ SubSeq(x, 1, n) \in Bytes /\ SubSeq(x, n + 1, Len(x)) \in Bytes
         /\ x = Cat(SubSeq(x, 1, n), SubSeq(x, n + 1, Len(x)))
         /\ n = Len(x) => SubSeq(x, 1, n) = x /\ SubSeq(x, n + 1, Len(x)) = <<>>
         /\ n = 0 => SubSeq(x, 1, n) = <<>> /\ SubSeq(x, n + 1, Len(x)) = x
<1> x \in Seq(Nat)
  BY DEF Bytes
<1> PICK l \in Nat : l = Len(x)
  BY Shape
<1>0. \A k \in 1..l : x[k] \in Nat
  BY Shape
<1>1. SubSeq(x, n + 1, l) \in Seq(Nat)
  BY SubSeqType
<1>2. SubSeq(x, 1, n) \in Seq(Nat)
  <2>1. \A k \in 1..n : x[k] \in Nat
    BY <1>0
  <2> QED BY <2>1, SubSeqProperties
<1>3. SubSeq(x, 1, l) = x
  BY SubSeqFull
<1>4. SubSeq(x, 1, 0) = <<>> /\ SubSeq(x, l + 1, l) = <<>>
  BY SubSeqEmpty
<1>5. SubSeq(x, 1, n) \o SubSeq(x, n + 1, l) = x
  <2>1. CASE n = 0
    BY <2>1, <1>3, <1>4, ConcatEmptySeq
  <2>2. CASE n = l
    BY <2>2, <1>3, <1>4, ConcatEmptySeq
  <2>3. CASE n # 0 /\ n # l
    <3>1. n \in 1..l /\ 1 \in 1..(n + 1) /\ 1 \in 1..(l + 1) /\ n \in 0..l /\ l \in n..l /\ 1 <= n /\ n <= l
      BY <2>3
    <3> QED BY <3>1, <1>3, ConcatAdjacentSubSeq
  <2> QED BY <2>1, <2>2, <2>3
<1>6. n = l => SubSeq(x, 1, n) = x /\ SubSeq(x, n + 1, l) = <<>>
  BY <1>3, <1>4
<1>7. n = 0 => SubSeq(x, 1, n) = <<>> /\ SubSeq(x, n + 1, l) = x
  <2>1. 0 + 1 = 1
    OBVIOUS
  <2> QED BY <1>3, <1>4, <2>1
<1> QED BY <1>1, <1>2, <1>5, <1>6, <1>7 DEF Bytes, Cat

-----------------------------------------------------------------------------
(* The inductive invariant of the bytes.                                   *)

\* What a socket and its program have of the host's bytes.
Kept(s, p) == Cat(p.inb, FlattenSeq(s.queue))

\* The host sends nothing on a stream after its CLSE.
LastWords(hq) ==
  \A k, m \in DOMAIN hq :
    m > k /\ hq[k].cmd = "CLSE" /\ hq[m].cmd = "WRTE" => hq[m].arg1 # hq[k].arg1

\* The host has no stream with socket i any more and will not have one.
Over(sk, dq, ho, i) ==
  /\ sk[i].st \notin {"none", "smart"} /\ ~Asks(dq, i)
  /\ \A h \in Hids : Tie(sk, dq, ho, i, h) => ho[h].st \notin {"opening", "open"}

\* A stream as adbd sees it, also one that it does not know of yet.
Joint(sk, ho, i, h) == Linked(sk, i, h) \/ (sk[i].st = "waiting" /\ ho[h].id = i)

\* A linked socket has a peer.
Peers(sk) == \A i \in Ids : sk[i].st = "open" => sk[i].peer \in Hids

\* A socket with its program: s was closed for a reason c or was not, what is
\* kept has no gap, and before its stream is up the program has written nothing.
Own(s, p, c, asks) ==
  /\ c = "none" <=> s.st \in {"none", "smart", "waiting", "open"}
  /\ Dense(Kept(s, p))
  /\ s.st \in {"none", "smart", "waiting"} \/ asks => p.made = 0 /\ p.out = <<>>
  /\ asks => s.st \in {"waiting", "gone"}
  /\ c = "eof" => p.end # "open"

\* A stream of the host.
Theirs(sk, dq, hq, ho, h) ==
  /\ ho[h].id = 0 => ho[h].sent = 0
  /\ Asks(hq, h) => ho[h].got = <<>>
  /\ ho[h].st = "ended" =>
       ~Asks(hq, h) /\ \A i \in Ids : ~Joint(sk, ho, i, h) /\ ~Sends(dq, i, h)

\* To the device: what was sent is kept or on its way, and all of it unless the
\* link was lost.
Inward(sk, hq, ho, pr, lost, i, h) ==
  Joint(sk, ho, i, h) =>
    /\ Dense(Cat(Kept(sk[i], pr[i]), Payload(hq, h, i)))
    /\ ~lost \/ Closes(hq, i) => Cat(Kept(sk[i], pr[i]), Payload(hq, h, i)) = Upto(ho[h].sent)

\* A stream that the host closed: all was kept, as long as the program stays.
Parted(sk, ho, pr, ca, i, h) ==
  ca[i] = "host" /\ ho[h].id = i /\ pr[i].end = "open" => Kept(sk[i], pr[i]) = Upto(ho[h].sent)

\* To the host: what was written was received, is on its way or is still to be
\* read.
Outward(sk, dq, ho, pr, i, h) ==
  Up(sk, ho, i, h) => Cat(Cat(ho[h].got, Payload(dq, i, h)), pr[i].out) = Upto(pr[i].made)

\* A stream that ended with its program: all was read.
Finished(sk, dq, ho, pr, ca, i, h) ==
  Tie(sk, dq, ho, i, h) /\ ca[i] = "eof" /\ ho[h].st \in {"opening", "open", "ended"} =>
    Cat(ho[h].got, Payload(dq, i, h)) = Upto(pr[i].made)

Streams(sk, dq, hq, ho, pr, ca, lost) ==
  /\ LastWords(hq)
  /\ \A i \in Ids : Own(sk[i], pr[i], ca[i], Asks(dq, i))
  /\ \A i \in Ids : Closes(hq, i) \/ ca[i] = "host" => Over(sk, dq, ho, i)
  /\ \A h \in Hids : Theirs(sk, dq, hq, ho, h)
  /\ \A i \in Ids, h \in Hids :
       /\ Inward(sk, hq, ho, pr, lost, i, h) /\ Parted(sk, ho, pr, ca, i, h)
       /\ Outward(sk, dq, ho, pr, i, h) /\ Finished(sk, dq, ho, pr, ca, i, h)

-----------------------------------------------------------------------------
(* A step of adbd or of a program: what it does to socket j.               *)

\* The stages of a socket.
Stage(s, t) ==
  \/ t.st = s.st
  \/ s.st = "none" /\ t.st \in {"smart", "open"}
  \/ s.st = "smart" /\ t.st \in {"waiting", "gone"}
  \/ s.st = "waiting" /\ t.st \in {"open", "gone"}
  \/ s.st = "open" /\ t.st \in {"closing", "gone"}
  \/ s.st = "closing" /\ t.st = "gone"

\* The ties of socket j and the questions about it.
Ties(sk, dq, hq, ho, sk2, dq2, hq2, j) ==
  /\ \A h \in Hids :
       /\ Linked(sk2, j, h) => Joint(sk, ho, j, h) \/ sk[j].st = "none"
       /\ Sends(dq2, j, h) => Sends(dq, j, h) \/ Linked(sk, j, h) \/ sk[j].st = "none"
  /\ Asks(dq2, j) => Asks(dq, j) \/ sk[j].st = "smart"
  /\ Closes(hq2, j) => Closes(hq, j)

\* Bytes of the host: none move; a packet is taken; what is left is dropped,
\* for the program does not stay.
Gets(sk, hq, hq2, s, t, p, y, j) ==
  \/ /\ Kept(t, y) = Kept(s, p)
     /\ t.st \in {"waiting", "open"} => \A h \in Hids : Payload(hq2, h, j) = Payload(hq, h, j)
  \/ \E h \in Hids, data \in Bytes :
       /\ Linked(sk, j, h)
       /\ Kept(t, y) = Cat(Kept(s, p), data) /\ Payload(hq, h, j) = Cat(data, Payload(hq2, h, j))
  \/ /\ t.st \notin {"waiting", "open"} /\ y.end # "open"
     /\ \E z \in Bytes : Kept(s, p) = Cat(Kept(t, y), z)

\* Bytes of the program: none move; one is written; a packet is sent; what is
\* read is dropped, for the stream is closed.
Rests(dq, dq2, p, y, j) ==
  /\ y.out = p.out /\ y.made = p.made
  /\ \A h \in Hids : Payload(dq2, j, h) = Payload(dq, j, h)
Gives(sk, dq, dq2, s, p, y, j) ==
  \/ Rests(dq, dq2, p, y, j)
  \/ /\ y.out = Append(p.out, p.made + 1) /\ y.made = p.made + 1 /\ p.end = "open"
     /\ s.st \in {"open", "closing"}
     /\ \A h \in Hids : Payload(dq2, j, h) = Payload(dq, j, h)
  \/ \E h \in Hids, data \in Bytes :
       /\ Linked(sk, j, h) /\ y.made = p.made /\ p.out = Cat(data, y.out)
       /\ Payload(dq2, j, h) = Cat(Payload(dq, j, h), data)
  \/ /\ s.st = "closing" /\ y.made = p.made
     /\ \A h \in Hids : Payload(dq2, j, h) = Payload(dq, j, h)

\* Why the socket is closed, if it is.
Reason(dq, dq2, hq, s, t, p, y, c, d, j) ==
  /\ d = "none" <=> t.st \in {"none", "smart", "waiting", "open"}
  /\ y.end = "open" => p.end = "open"
  /\ d = "eof" /\ c # "eof" =>
       /\ s.st \in {"smart", "waiting", "open"} /\ y.end # "open"
       /\ p.out = <<>> /\ Rests(dq, dq2, p, y, j)
  /\ d = "host" /\ c # "host" =>
       /\ s.st \in {"waiting", "open"} /\ Kept(t, y) = Kept(s, p)
       /\ Closes(hq, j) /\ \A h \in Hids : Payload(hq, h, j) = <<>>

\* A socket that the host opens has a stream that is new at both ends.
Born(sk2, dq2, hq2, ho, t, y, j) ==
  \A h \in Hids : Linked(sk2, j, h) \/ Sends(dq2, j, h) =>
    /\ ho[h].st # "ended" /\ ho[h].sent = 0 /\ ho[h].got = <<>>
    /\ Kept(t, y) = <<>> /\ Payload(hq2, h, j) = <<>> /\ Payload(dq2, j, h) = <<>>

Turn(sk, dq, hq, ho, pr, ca, sk2, dq2, hq2, pr2, ca2, j) ==
  /\ Stage(sk[j], sk2[j])
  /\ Ties(sk, dq, hq, ho, sk2, dq2, hq2, j)
  /\ Gets(sk, hq, hq2, sk[j], sk2[j], pr[j], pr2[j], j)
  /\ Gives(sk, dq, dq2, sk[j], pr[j], pr2[j], j)
  /\ Reason(dq, dq2, hq, sk[j], sk2[j], pr[j], pr2[j], ca[j], ca2[j], j)
  /\ sk[j].st = "none" => Born(sk2, dq2, hq2, ho, sk2[j], pr2[j], j)

\* What the bytes are.
LEMMA KeptType ==
  ASSUME NEW s \in LocalSockets, NEW p \in Programs
  PROVE  /\ Kept(s, p) \in Bytes /\ p.inb \in Bytes /\ p.out \in Bytes /\ p.made \in Nat
         /\ FlattenSeq(s.queue) \in Bytes
<1>1. p.inb \in Bytes /\ p.out \in Bytes /\ p.made \in Nat /\ s.queue \in Seq(Seq(Nat))
  BY DEF LocalSockets, Programs, Bytes
<1>2. FlattenSeq(s.queue) \in Bytes
  BY <1>1, FlattenType DEF Bytes
<1> QED BY <1>1, <1>2, Join DEF Kept

\* A socket that is open and tied to a host id is linked to it.
LEMMA TieJoint ==
  ASSUME NEW sk, NEW dq, NEW hq, NEW ho, NEW nx, WireInv(sk, dq, hq, ho, nx),
         NEW i \in Ids, NEW h \in Hids, Tie(sk, dq, ho, i, h),
         sk[i].st \in {"smart", "waiting", "open"}, Peers(sk)
  PROVE  Joint(sk, ho, i, h) /\ sk[i].st \in {"waiting", "open"}
<1>1. Matched(sk, dq, ho) /\ DeviceSide(sk, dq, ho, nx, i)
  BY DEF WireInv, Wire
<1>2. CASE sk[i].st = "open"
  <2>1. PICK g \in Hids : g = sk[i].peer /\ Linked(sk, i, g)
    BY <1>2 DEF Linked, Peers
  <2>2. g = h
    BY <2>1, <1>1 DEF Matched, Tie
  <2> QED BY <2>1, <2>2, <1>2 DEF Joint
<1>3. CASE sk[i].st # "open"
  BY <1>1, <1>3 DEF DeviceSide, Tie, Joint, Linked
<1> QED BY <1>2, <1>3

\* Streams survives a step of adbd or of a program.
LEMMA DeviceStep ==
  ASSUME NEW sk, NEW dq, NEW hq, NEW ho, NEW nx, WireInv(sk, dq, hq, ho, nx),
         NEW sk2, NEW dq2, NEW hq2, NEW nx2, WireInv(sk2, dq2, hq2, ho, nx2),
         NEW pr \in [Ids -> Programs], NEW pr2 \in [Ids -> Programs], NEW ca, NEW ca2, NEW lost,
         Streams(sk, dq, hq, ho, pr, ca, lost),
         Peers(sk), Peers(sk2),
         LastWords(hq2), \A h \in Hids : Asks(hq2, h) => Asks(hq, h),
         \A j \in Ids : Turn(sk, dq, hq, ho, pr, ca, sk2, dq2, hq2, pr2, ca2, j)
  PROVE  Streams(sk2, dq2, hq2, ho, pr2, ca2, lost)
<1>1. /\ sk \in [Ids -> LocalSockets] /\ dq \in Seq(Packets) /\ hq \in Seq(Packets)
      /\ ho \in [Hids -> HostStreams] /\ Matched(sk, dq, ho)
      /\ \A h \in Hids : HostSide(sk, dq, hq, ho, h)
      /\ \A i \in Ids : DeviceSide(sk, dq, ho, nx, i)
  BY DEF WireInv, WireType, Wire
<1>2. /\ sk2 \in [Ids -> LocalSockets] /\ dq2 \in Seq(Packets) /\ hq2 \in Seq(Packets)
      /\ Matched(sk2, dq2, ho) /\ \A i \in Ids : DeviceSide(sk2, dq2, ho, nx2, i)
  BY DEF WireInv, WireType, Wire
<1>3. ASSUME NEW j \in Ids, NEW h \in Hids
      PROVE  /\ Tie(sk2, dq2, ho, j, h) => Tie(sk, dq, ho, j, h) \/ sk[j].st = "none"
             /\ Joint(sk2, ho, j, h) =>
                  \/ Joint(sk, ho, j, h)
                  \/ sk[j].st = "none" /\ Linked(sk2, j, h)
             /\ Joint(sk, ho, j, h) => sk[j].st \in {"waiting", "open"}
  <2>1. Stage(sk[j], sk2[j]) /\ Ties(sk, dq, hq, ho, sk2, dq2, hq2, j)
    BY DEF Turn
  <2>2. Joint(sk, ho, j, h) => Tie(sk, dq, ho, j, h)
    BY DEF Joint, Tie
  <2>3. Linked(sk2, j, h) => Joint(sk, ho, j, h) \/ sk[j].st = "none"
    BY <2>1 DEF Ties
  <2>4. Sends(dq2, j, h) => Sends(dq, j, h) \/ Linked(sk, j, h) \/ sk[j].st = "none"
    BY <2>1 DEF Ties
  <2>5. Tie(sk2, dq2, ho, j, h) => Tie(sk, dq, ho, j, h) \/ sk[j].st = "none"
    BY <2>2, <2>3, <2>4 DEF Tie
  <2>6. ASSUME sk2[j].st = "waiting", ho[h].id = j PROVE Joint(sk, ho, j, h)
    <3>1. sk[j].st \in {"waiting", "smart"}
      BY <2>1, <2>6 DEF Stage
    <3>2. Tie(sk, dq, ho, j, h)
      BY <2>6 DEF Tie
    <3>3. sk[j].st # "smart"
      BY <3>2, <1>1 DEF DeviceSide
    <3> QED BY <3>1, <3>3, <2>6 DEF Joint
  <2>7. Joint(sk2, ho, j, h) => Joint(sk, ho, j, h) \/ (sk[j].st = "none" /\ Linked(sk2, j, h))
    BY <2>3, <2>6 DEF Joint
  <2>8. Joint(sk, ho, j, h) => sk[j].st \in {"waiting", "open"}
    BY DEF Joint, Linked
  <2> QED BY <2>5, <2>7, <2>8
<1>4. ASSUME NEW j \in Ids PROVE Closes(hq2, j) \/ ca2[j] = "host" => Over(sk2, dq2, ho, j)
  <2> SUFFICES ASSUME Closes(hq2, j) \/ ca2[j] = "host" PROVE Over(sk2, dq2, ho, j)
    OBVIOUS
  <2>1. Closes(hq, j) \/ ca[j] = "host"
    BY DEF Turn, Ties, Reason
  <2>2. Over(sk, dq, ho, j)
    BY <2>1 DEF Streams
  <2>3. sk[j].st \notin {"none", "smart"} /\ ~Asks(dq, j)
    BY <2>2 DEF Over
  <2>4. sk2[j].st \notin {"none", "smart"}
    BY <2>3 DEF Turn, Stage
  <2>5. ~Asks(dq2, j)
    BY <2>3 DEF Turn, Ties
  <2>6. \A h \in Hids : Tie(sk2, dq2, ho, j, h) => Tie(sk, dq, ho, j, h)
    BY <2>3, <1>3
  <2> QED BY <2>2, <2>4, <2>5, <2>6 DEF Over
<1>5. ASSUME NEW h \in Hids PROVE Theirs(sk2, dq2, hq2, ho, h)
  <2>1. Theirs(sk, dq, hq, ho, h)
    BY DEF Streams
  <2>2. (ho[h].id = 0 => ho[h].sent = 0) /\ (Asks(hq2, h) => ho[h].got = <<>>)
    BY <2>1 DEF Theirs
  <2>3. ASSUME ho[h].st = "ended", NEW j \in Ids PROVE ~Joint(sk2, ho, j, h) /\ ~Sends(dq2, j, h)
    <3>1. ~Joint(sk, ho, j, h) /\ ~Sends(dq, j, h)
      BY <2>1, <2>3 DEF Theirs
    <3>2. sk[j].st = "none" => ~(Linked(sk2, j, h) \/ Sends(dq2, j, h))
      BY <2>3 DEF Turn, Born
    <3>3. ~Joint(sk2, ho, j, h)
      BY <3>1, <3>2, <1>3
    <3>4. Sends(dq2, j, h) => Sends(dq, j, h) \/ Linked(sk, j, h) \/ sk[j].st = "none"
      BY DEF Turn, Ties
    <3>5. ~Linked(sk, j, h)
      BY <3>1 DEF Joint
    <3> QED BY <3>1, <3>2, <3>3, <3>4, <3>5
  <2>4. ho[h].st = "ended" => ~Asks(hq2, h)
    BY <2>1 DEF Theirs
  <2> QED BY <2>2, <2>3, <2>4 DEF Theirs
<1>6. ASSUME NEW j \in Ids PROVE Own(sk2[j], pr2[j], ca2[j], Asks(dq2, j))
  <2> PICK s \in LocalSockets, t \in LocalSockets : s = sk[j] /\ t = sk2[j]
    BY <1>1, <1>2
  <2> PICK p \in Programs, y \in Programs : p = pr[j] /\ y = pr2[j]
    OBVIOUS
  <2> PICK c, d : c = ca[j] /\ d = ca2[j]
    OBVIOUS
  <2> PICK K \in Bytes, L \in Bytes : K = Kept(s, p) /\ L = Kept(t, y)
    BY KeptType
  <2>0. Own(s, p, c, Asks(dq, j))
    BY DEF Streams
  <2>1. /\ Stage(s, t) /\ Ties(sk, dq, hq, ho, sk2, dq2, hq2, j)
        /\ Gets(sk, hq, hq2, s, t, p, y, j) /\ Gives(sk, dq, dq2, s, p, y, j)
        /\ Reason(dq, dq2, hq, s, t, p, y, c, d, j)
    BY DEF Turn
  <2>2. d = "none" <=> t.st \in {"none", "smart", "waiting", "open"}
    BY <2>1 DEF Reason
  <2>3. Dense(L)
    <3>0. Dense(K)
      BY <2>0 DEF Own
    <3>1. CASE L = K
      BY <3>0, <3>1
    <3>2. ASSUME NEW h \in Hids, NEW data \in Bytes, Linked(sk, j, h), L = Cat(K, data),
                 Payload(hq, h, j) = Cat(data, Payload(hq2, h, j))
          PROVE  Dense(L)
      <4> PICK A \in Bytes : A = Payload(hq2, h, j)
        BY <1>2, PayType
      <4>1. Joint(sk, ho, j, h)
        BY <3>2 DEF Joint
      <4>2. Dense(Cat(K, Payload(hq, h, j)))
        BY <4>1 DEF Streams, Inward
      <4>3. Cat(K, Cat(data, A)) = Cat(Cat(K, data), A) /\ Cat(K, data) \in Bytes
        BY ONLY K \in Bytes, data \in Bytes, A \in Bytes, Join
      <4>4. Dense(Cat(Cat(K, data), A))
        BY <4>2, <4>3, <3>2
      <4> QED BY <4>3, <4>4, <3>2, DenseFirst
    <3>3. ASSUME NEW z \in Bytes, K = Cat(L, z) PROVE Dense(L)
      BY <3>0, <3>3, DenseFirst
    <3> QED BY <3>1, <3>2, <3>3, <2>1 DEF Gets
  <2>4. ASSUME t.st \in {"none", "smart", "waiting"} \/ Asks(dq2, j) PROVE y.made = 0 /\ y.out = <<>>
    <3>1. s.st \in {"none", "smart", "waiting"} \/ Asks(dq, j)
      BY <2>1, <2>4 DEF Stage, Ties
    <3>2. p.made = 0 /\ p.out = <<>> /\ s.st \in {"none", "smart", "waiting", "gone"}
      BY <3>1, <2>0 DEF Own
    <3>3. \A h \in Hids : ~Linked(sk, j, h)
      BY <3>2 DEF Linked
    <3>4. Rests(dq, dq2, p, y, j)
      BY <3>2, <3>3, <2>1 DEF Gives
    <3> QED BY <3>2, <3>4 DEF Rests
  <2>5. ASSUME Asks(dq2, j) PROVE t.st \in {"waiting", "gone"}
    <3>1. s.st \in {"smart", "waiting", "gone"}
      BY <2>0, <2>1, <2>5 DEF Ties, Own
    <3>2. t.st \notin {"none", "smart"}
      BY <2>5, <1>2 DEF DeviceSide
    <3>3. t.st # "open"
      <4>1. \A h \in Hids : ~Tie(sk2, dq2, ho, j, h)
        BY <2>5, <1>2 DEF DeviceSide
      <4>2. t.st = "open" => t.peer \in Hids /\ Linked(sk2, j, t.peer)
        BY DEF Peers, Linked
      <4> QED BY <4>1, <4>2 DEF Tie
    <3> QED BY <3>1, <3>2, <3>3, <2>1 DEF Stage
  <2>6. d = "eof" => y.end # "open"
    BY <2>0, <2>1 DEF Own, Reason
  <2> QED BY <2>2, <2>3, <2>4, <2>5, <2>6 DEF Own
<1>7. ASSUME NEW j \in Ids, NEW h \in Hids
      PROVE  /\ Inward(sk2, hq2, ho, pr2, lost, j, h) /\ Parted(sk2, ho, pr2, ca2, j, h)
             /\ Outward(sk2, dq2, ho, pr2, j, h) /\ Finished(sk2, dq2, ho, pr2, ca2, j, h)
  <2> PICK s \in LocalSockets, t \in LocalSockets : s = sk[j] /\ t = sk2[j]
    BY <1>1, <1>2
  <2> PICK p \in Programs, y \in Programs : p = pr[j] /\ y = pr2[j]
    OBVIOUS
  <2> PICK c, d : c = ca[j] /\ d = ca2[j]
    OBVIOUS
  <2> PICK n \in Nat, g \in Bytes : n = ho[h].sent /\ g = ho[h].got
    BY <1>1 DEF HostStreams, Bytes
  <2> PICK K \in Bytes, L \in Bytes : K = Kept(s, p) /\ L = Kept(t, y)
    BY KeptType
  <2> PICK A \in Bytes, A2 \in Bytes : A = Payload(hq, h, j) /\ A2 = Payload(hq2, h, j)
    BY <1>1, <1>2, PayType
  <2> PICK B \in Bytes, B2 \in Bytes : B = Payload(dq, j, h) /\ B2 = Payload(dq2, j, h)
    BY <1>1, <1>2, PayType
  <2>t. p.out \in Bytes /\ y.out \in Bytes /\ p.made \in Nat /\ y.made \in Nat
    BY KeptType
  <2>0. /\ Own(s, p, c, Asks(dq, j)) /\ Theirs(sk, dq, hq, ho, h)
        /\ Inward(sk, hq, ho, pr, lost, j, h) /\ Parted(sk, ho, pr, ca, j, h)
        /\ Outward(sk, dq, ho, pr, j, h) /\ Finished(sk, dq, ho, pr, ca, j, h)
    BY DEF Streams
  <2>1. /\ Stage(s, t) /\ Ties(sk, dq, hq, ho, sk2, dq2, hq2, j)
        /\ Gets(sk, hq, hq2, s, t, p, y, j) /\ Gives(sk, dq, dq2, s, p, y, j)
        /\ Reason(dq, dq2, hq, s, t, p, y, c, d, j)
        /\ s.st = "none" => Born(sk2, dq2, hq2, ho, t, y, j)
    BY DEF Turn
  <2>2. \A x \in Hids : Linked(sk, j, x) /\ Tie(sk, dq, ho, j, h) => x = h
    BY <1>1 DEF Matched, Tie
  <2>3. Joint(sk, ho, j, h) => Tie(sk, dq, ho, j, h) /\ s.st \in {"waiting", "open"}
    BY DEF Joint, Tie, Linked
  <2>4. Joint(sk2, ho, j, h) => t.st \in {"waiting", "open"}
    BY DEF Joint, Linked
  <2>5. s.st = "none" /\ (Linked(sk2, j, h) \/ Sends(dq2, j, h)) =>
          n = 0 /\ g = <<>> /\ L = <<>> /\ A2 = <<>> /\ B2 = <<>>
    BY <2>1 DEF Born
  <2>6. Cat(<<>>, <<>>) = <<>> /\ Upto(0) = <<>> /\ Dense(<<>>)
    BY UptoType, Join
  <2>7. s.st \in {"smart", "waiting", "open"} /\ Tie(sk, dq, ho, j, h) => Joint(sk, ho, j, h)
    BY TieJoint
  <2>8. Inward(sk2, hq2, ho, pr2, lost, j, h)
    <3> SUFFICES ASSUME Joint(sk2, ho, j, h)
                 PROVE  Dense(Cat(L, A2)) /\ (~lost \/ Closes(hq2, j) => Cat(L, A2) = Upto(n))
      BY DEF Inward
    <3>1. CASE s.st = "none"
      <4>1. Linked(sk2, j, h)
        BY <3>1, <2>3, <1>3
      <4> QED BY <4>1, <3>1, <2>5, <2>6
    <3>2. CASE s.st # "none"
      <4>1. Joint(sk, ho, j, h) /\ t.st \in {"waiting", "open"}
        BY <3>2, <2>4, <1>3
      <4>2. Dense(Cat(K, A)) /\ (~lost \/ Closes(hq, j) => Cat(K, A) = Upto(n))
        BY <4>1, <2>0 DEF Inward
      <4>3. Closes(hq2, j) => Closes(hq, j)
        BY <2>1 DEF Ties
      <4>4. Cat(L, A2) = Cat(K, A)
        <5>1. CASE L = K /\ A2 = A
          BY <5>1
        <5>2. ASSUME NEW x \in Hids, NEW data \in Bytes, Linked(sk, j, x), L = Cat(K, data),
                     Payload(hq, x, j) = Cat(data, Payload(hq2, x, j))
              PROVE  Cat(L, A2) = Cat(K, A)
          <6>1. x = h
            BY <5>2, <4>1, <2>2, <2>3
          <6>2. A = Cat(data, A2)
            BY <5>2, <6>1
          <6>3. Cat(Cat(K, data), A2) = Cat(K, Cat(data, A2))
            BY ONLY K \in Bytes, data \in Bytes, A2 \in Bytes, Join
          <6> QED BY <6>2, <6>3, <5>2
        <5> QED BY <5>1, <5>2, <4>1, <2>1 DEF Gets
      <4> QED BY <4>2, <4>3, <4>4
    <3> QED BY <3>1, <3>2
  <2>9. Parted(sk2, ho, pr2, ca2, j, h)
    <3> SUFFICES ASSUME d = "host", ho[h].id = j, y.end = "open" PROVE L = Upto(n)
      BY DEF Parted
    <3>0. Tie(sk, dq, ho, j, h)
      BY DEF Tie
    <3>1. CASE c = "host"
      <4>1. K = Upto(n)
        BY <3>1, <2>0, <2>1 DEF Parted, Reason
      <4>2. s.st \notin {"none", "waiting", "open"}
        BY <3>1, <2>0 DEF Own
      <4>3. L = K
        <5>1. \A x \in Hids : ~Linked(sk, j, x)
          BY <4>2 DEF Linked
        <5> QED BY <5>1, <2>1 DEF Gets
      <4> QED BY <4>1, <4>3
    <3>2. CASE c # "host"
      <4>1. s.st \in {"waiting", "open"} /\ L = K /\ Closes(hq, j) /\ A = <<>>
        BY <3>2, <2>1 DEF Reason
      <4>2. Joint(sk, ho, j, h)
        BY <3>0, <4>1, <2>7
      <4>3. Cat(K, A) = Upto(n)
        BY <4>1, <4>2, <2>0 DEF Inward
      <4>4. Cat(K, <<>>) = K
        BY ONLY K \in Bytes, Join
      <4> QED BY <4>1, <4>3, <4>4
    <3> QED BY <3>1, <3>2
  <2>10. Outward(sk2, dq2, ho, pr2, j, h)
    <3> SUFFICES ASSUME Joint(sk2, ho, j, h), ho[h].st \in {"opening", "open"}
                 PROVE  Cat(Cat(g, B2), y.out) = Upto(y.made)
      BY DEF Outward, Up, Joint
    <3>1. CASE s.st = "none"
      <4>1. Linked(sk2, j, h)
        BY <3>1, <2>3, <1>3
      <4>2. p.made = 0 /\ p.out = <<>>
        BY <3>1, <2>0 DEF Own
      <4>3. y.out = <<>> /\ y.made = 0
        <5>1. \A x \in Hids : ~Linked(sk, j, x)
          BY <3>1 DEF Linked
        <5> QED BY <5>1, <3>1, <4>2, <2>1 DEF Gives, Rests
      <4> QED BY <4>1, <4>3, <3>1, <2>5, <2>6
    <3>2. CASE s.st # "none"
      <4>1. Joint(sk, ho, j, h) /\ t.st \in {"waiting", "open"}
        BY <3>2, <2>4, <1>3
      <4>2. Cat(Cat(g, B), p.out) = Upto(p.made)
        BY <4>1, <2>0 DEF Outward, Up, Joint
      <4>3. CASE y.out = p.out /\ y.made = p.made /\ B2 = B
        BY <4>2, <4>3
      <4>4. CASE y.out = Append(p.out, p.made + 1) /\ y.made = p.made + 1 /\ B2 = B
        <5>1. PICK x \in Bytes, o \in Bytes, m \in Nat : x = Cat(g, B) /\ o = p.out /\ m = p.made
          <6>1. Cat(g, B) \in Bytes
            BY ONLY g \in Bytes, B \in Bytes, Join
          <6> QED BY <6>1, <2>t
        <5>2. Cat(x, o) = Upto(m)
          BY <5>1, <4>2
        <5>3. Cat(x, Append(o, m + 1)) = Upto(m + 1)
          BY ONLY <5>2, x \in Bytes, o \in Bytes, m \in Nat, UptoNext
        <5> QED BY <5>1, <5>3, <4>4
      <4>5. ASSUME NEW x \in Hids, NEW data \in Bytes, Linked(sk, j, x), y.made = p.made,
                   p.out = Cat(data, y.out), Payload(dq2, j, x) = Cat(Payload(dq, j, x), data)
            PROVE  Cat(Cat(g, B2), y.out) = Upto(y.made)
        <5>1. x = h
          BY <4>5, <4>1, <2>2, <2>3
        <5>2. B2 = Cat(B, data)
          BY <4>5, <5>1
        <5>3. PICK o \in Bytes : o = y.out
          BY <2>t
        <5>4. Cat(Cat(g, Cat(B, data)), o) = Cat(Cat(g, B), Cat(data, o))
          <6>1. Cat(g, Cat(B, data)) = Cat(Cat(g, B), data)
            BY ONLY g \in Bytes, B \in Bytes, data \in Bytes, Join
          <6>2. PICK v \in Bytes : v = Cat(g, B)
            BY ONLY g \in Bytes, B \in Bytes, Join
          <6>3. Cat(Cat(v, data), o) = Cat(v, Cat(data, o))
            BY ONLY v \in Bytes, o \in Bytes, data \in Bytes, Join
          <6> QED BY ONLY <6>1, <6>2, <6>3
        <5> QED BY <5>2, <5>3, <5>4, <4>2, <4>5
      <4>6. s.st # "closing"
        BY <4>1, <2>3
      <4> QED BY <4>3, <4>4, <4>5, <4>6, <2>1 DEF Gives, Rests
    <3> QED BY <3>1, <3>2
  <2>11. Finished(sk2, dq2, ho, pr2, ca2, j, h)
    <3> SUFFICES ASSUME Tie(sk2, dq2, ho, j, h), d = "eof", ho[h].st \in {"opening", "open", "ended"}
                 PROVE  Cat(g, B2) = Upto(y.made)
      BY DEF Finished
    <3>1. CASE c = "eof"
      <4>1. s.st \notin {"none", "smart", "waiting", "open"} /\ p.end # "open"
        BY <3>1, <2>0 DEF Own
      <4>2. Tie(sk, dq, ho, j, h)
        BY <4>1, <1>3
      <4>3. Cat(g, B) = Upto(p.made)
        BY <4>2, <3>1, <2>0 DEF Finished
      <4>4. B2 = B /\ y.made = p.made
        <5>1. \A x \in Hids : ~Linked(sk, j, x)
          BY <4>1 DEF Linked
        <5> QED BY <5>1, <4>1, <2>1 DEF Gives, Rests
      <4> QED BY <4>3, <4>4
    <3>2. CASE c # "eof"
      <4>1. s.st \in {"smart", "waiting", "open"} /\ p.out = <<>> /\ y.made = p.made /\ B2 = B
        BY <3>2, <2>1 DEF Reason, Rests
      <4>2. Tie(sk, dq, ho, j, h)
        BY <4>1, <1>3
      <4>3. Joint(sk, ho, j, h)
        BY <4>1, <4>2, <2>7
      <4>4. ho[h].st # "ended"
        BY <4>3, <2>0 DEF Theirs
      <4>5. Cat(Cat(g, B), p.out) = Upto(p.made)
        BY <4>3, <4>4, <2>0 DEF Outward, Up, Joint
      <4>6. Cat(Cat(g, B), <<>>) = Cat(g, B)
        <5>1. PICK v \in Bytes : v = Cat(g, B)
          BY ONLY g \in Bytes, B \in Bytes, Join
        <5>2. Cat(v, <<>>) = v
          BY ONLY v \in Bytes, Join
        <5> QED BY <5>1, <5>2
      <4> QED BY <4>1, <4>5, <4>6
    <3> QED BY <3>1, <3>2
  <2> QED BY <2>8, <2>9, <2>10, <2>11
<1> QED BY <1>4, <1>5, <1>6, <1>7 DEF Streams

-----------------------------------------------------------------------------
(* Packets without an effect on a stream.                                  *)

\* What the queue of the host's packets keeps when its first one is taken; a
\* CLSE that comes first is followed by no data for its socket.
LEMMA LastTaken ==
  ASSUME NEW q \in Seq(Packets), q # <<>>, LastWords(q)
  PROVE  /\ LastWords(Tail(q))
         /\ \A i \in Ids, h \in Hids : Fits(Head(q), "CLSE", Head(q).arg0, i) => Payload(q, h, i) = <<>>
         /\ \A i \in Ids : Closes(Tail(q), i) => Closes(q, i)
         /\ \A i \in Ids : Fits(Head(q), "CLSE", Head(q).arg0, i) => Closes(q, i)
<1> PICK t : t = Tail(q)
  OBVIOUS
<1> PICK n \in Nat : n = Len(q)
  BY Shape
<1>1. /\ n > 0 /\ DOMAIN q = 1..n /\ Head(q) = q[1] /\ DOMAIN t = 1..(n - 1)
      /\ \A k \in 1..(n - 1) : t[k] = q[k + 1]
  BY Taken, Shape
<1>2. 1 \in 1..n /\ \A k \in 1..(n - 1) : k + 1 \in 1..n
  BY <1>1
<1>3. LastWords(t)
  BY <1>1, <1>2 DEF LastWords
<1>4. ASSUME NEW i \in Ids, NEW h \in Hids, Fits(q[1], "CLSE", q[1].arg0, i)
      PROVE  Payload(q, h, i) = <<>>
  <2>1. \A k \in 1..n : ~Bears(q, k, h, i)
    <3>1. ASSUME NEW k \in 1..n, q[k].cmd = "WRTE" PROVE q[k].arg1 # i
      <4>1. k > 1
        BY <3>1, <1>4, <1>1 DEF Fits
      <4> QED BY <4>1, <3>1, <1>4, <1>1, <1>2 DEF LastWords, Fits
    <3> QED BY <3>1 DEF Bears, Fits
  <2> QED BY <2>1, <1>1, PayNone
<1>5. \A i \in Ids : Closes(t, i) => Closes(q, i)
  BY <1>1, <1>2 DEF Closes
<1>6. \A i \in Ids : Fits(q[1], "CLSE", q[1].arg0, i) => Closes(q, i)
  BY <1>1, <1>2 DEF Closes, Fits
<1> QED BY <1>1, <1>3, <1>4, <1>5, <1>6

\* What the host may add: anything but data for a socket that it has closed.
LEMMA LastSent ==
  ASSUME NEW q \in Seq(Packets), NEW p \in Packets, LastWords(q),
         p.cmd = "WRTE" => ~Closes(q, p.arg1)
  PROVE  LastWords(Append(q, p))
<1> PICK n \in Nat : n = Len(q)
  BY Shape
<1> PICK a : a = Append(q, p)
  OBVIOUS
<1>1. DOMAIN q = 1..n /\ DOMAIN a = 1..(n + 1) /\ a[n + 1] = p /\ \A k \in 1..n : a[k] = q[k]
  BY Appended, Shape
<1>2. ASSUME NEW k \in 1..(n + 1), NEW m \in 1..(n + 1), m > k, a[k].cmd = "CLSE", a[m].cmd = "WRTE"
      PROVE  a[m].arg1 # a[k].arg1
  <2>1. k \in 1..n /\ a[k] = q[k]
    BY <1>1, <1>2
  <2>2. CASE m \in 1..n
    BY <2>1, <2>2, <1>1, <1>2 DEF LastWords
  <2>3. CASE m = n + 1
    BY <2>1, <2>3, <1>1, <1>2 DEF Closes
  <2> QED BY <2>2, <2>3
<1> QED BY <1>1, <1>2 DEF LastWords

\* The first packets of the queue.
LEMMA LastCut ==
  ASSUME NEW q \in Seq(Packets), NEW n \in 0..Len(q), LastWords(q)
  PROVE  /\ LastWords(SubSeq(q, 1, n)) /\ SubSeq(q, 1, n) \in Seq(Packets)
         /\ \A i \in Ids : Closes(SubSeq(q, 1, n), i) => Closes(q, i)
         /\ \A i \in Ids, h \in Hids :
              Closes(SubSeq(q, 1, n), i) => Payload(SubSeq(q, 1, n), h, i) = Payload(q, h, i)
<1> PICK l \in Nat : l = Len(q)
  BY Shape
<1> PICK a : a = SubSeq(q, 1, n)
  OBVIOUS
<1>1. n \in 0..l /\ DOMAIN q = 1..l /\ \A k \in 1..n : q[k] \in Packets /\ k \in 1..l
  BY Shape
<1>2. a \in Seq(Packets) /\ Len(a) = n /\ \A k \in 1..n : a[k] = q[k]
  <2>1. 1 \in Int /\ n \in Int /\ \A k \in 1..n : q[k] \in Packets
    BY <1>1
  <2>2. /\ a \in Seq(Packets) /\ Len(a) = IF 1 <= n THEN n - 1 + 1 ELSE 0
        /\ \A k \in 1..(n - 1 + 1) : a[k] = q[1 + k - 1]
    BY <2>1, SubSeqProperties
  <2>3. n \in Nat
    BY <1>1
  <2>4. \A k \in 1..n : k \in 1..(n - 1 + 1) /\ 1 + k - 1 = k
    BY <2>3
  <2> QED BY <2>2, <2>3, <2>4
<1>3. DOMAIN a = 1..n
  BY <1>2, Shape
<1>4. LastWords(a)
  BY <1>1, <1>2, <1>3 DEF LastWords
<1>5. \A i \in Ids : Closes(a, i) => Closes(q, i)
  BY <1>1, <1>2, <1>3 DEF Closes
<1>6. ASSUME NEW i \in Ids, NEW h \in Hids, Closes(a, i) PROVE Payload(a, h, i) = Payload(q, h, i)
  <2>1. PICK k \in 1..n : q[k].cmd = "CLSE" /\ q[k].arg1 = i
    BY <1>2, <1>3, <1>6 DEF Closes
  <2>2. \A m \in (n + 1)..l : ~Bears(q, m, h, i)
    <3>1. \A m \in (n + 1)..l : m \in 1..l /\ m > k /\ k \in 1..l
      BY <1>1
    <3> QED BY <3>1, <2>1, <1>1 DEF LastWords, Bears, Fits
  <2> QED BY <2>2, PayCut
<1> QED BY <1>2, <1>4, <1>5, <1>6

\* Nothing of socket j changes on its way to the host.
Quiet(dq, dq2, j) ==
  /\ \A h \in Hids : /\ Payload(dq2, j, h) = Payload(dq, j, h)
                     /\ Sends(dq2, j, h) => Sends(dq, j, h)
  /\ Asks(dq2, j) => Asks(dq, j)

\* Nothing changes on its way to socket j.
Deaf(hq, hq2, j) ==
  /\ Closes(hq2, j) => Closes(hq, j)
  /\ \A h \in Hids : Payload(hq2, h, j) = Payload(hq, h, j)

\* A packet that is sent, as the streams see it.
LEMMA Spoken ==
  ASSUME NEW q \in Seq(Packets), NEW p \in Packets
  PROVE  /\ \A j \in Ids : p.cmd \in {"CNXN", "CLSE"} \/ p.arg0 # j => Quiet(q, Append(q, p), j)
         /\ \A j \in Ids, h \in Hids :
              /\ p.cmd # "WRTE" => Payload(Append(q, p), j, h) = Payload(q, j, h)
              /\ p.cmd # "OPEN" => (Asks(Append(q, p), j) => Asks(q, j))
              /\ p.cmd \in {"CNXN", "CLSE", "OPEN"} \/ p.arg1 # h =>
                   (Sends(Append(q, p), j, h) => Sends(q, j, h))
<1>1. \A j \in Ids : j \in Ends
  BY DEF Ends
<1>2. \A h \in Hids : h \in Ends
  BY DEF Ends
<1>3. \A j \in Ids, h \in Hids : ~Fits(p, "WRTE", j, h) => Payload(Append(q, p), j, h) = Payload(q, j, h)
  BY PaySent
<1>4. \A j \in Ids, h \in Hids :
        Sends(Append(q, p), j, h) <=>
          Sends(q, j, h) \/ (p.cmd \in {"OKAY", "WRTE"} /\ p.arg0 = j /\ p.arg1 = h)
  BY <1>1, <1>2, ViewSent
<1>5. \A j \in Ids : Asks(Append(q, p), j) <=> Asks(q, j) \/ (p.cmd = "OPEN" /\ p.arg0 = j)
  BY <1>1, ViewSent
<1> QED BY ONLY <1>3, <1>4, <1>5 DEF Fits, Quiet

\* The next packet for adbd, as the streams see it.
LEMMA Fetched ==
  ASSUME NEW q \in Seq(Packets), q # <<>>, LastWords(q)
  PROVE  /\ LastWords(Tail(q)) /\ \A h \in Hids : Asks(Tail(q), h) => Asks(q, h)
         /\ \A j \in Ids : Head(q).cmd # "WRTE" \/ Head(q).arg1 # j => Deaf(q, Tail(q), j)
         /\ \A j \in Ids : Closes(Tail(q), j) => Closes(q, j)
<1>1. \A h \in Hids : h \in Ends
  BY DEF Ends
<1>2. \A j \in Ids, h \in Hids : ~Fits(Head(q), "WRTE", h, j) => Payload(Tail(q), h, j) = Payload(q, h, j)
  BY PayTaken
<1>3. \A h \in Hids : Asks(Tail(q), h) => Asks(q, h)
  BY <1>1, ViewTaken
<1>4. LastWords(Tail(q)) /\ \A j \in Ids : Closes(Tail(q), j) => Closes(q, j)
  BY LastTaken
<1> QED BY ONLY <1>2, <1>3, <1>4 DEF Fits, Deaf

\* A socket that stays as it is.
LEMMA Still ==
  ASSUME NEW sk, NEW dq, NEW hq, NEW ho, NEW nx, WireInv(sk, dq, hq, ho, nx),
         NEW pr, NEW ca, NEW lost, Streams(sk, dq, hq, ho, pr, ca, lost),
         NEW sk2, NEW dq2, NEW hq2, NEW pr2, NEW ca2, NEW j \in Ids,
         sk2[j] = sk[j], ca2[j] = ca[j],
         pr2[j].inb = pr[j].inb, pr2[j].out = pr[j].out, pr2[j].made = pr[j].made,
         pr2[j].end = "open" => pr[j].end = "open",
         Quiet(dq, dq2, j), Closes(hq2, j) => Closes(hq, j),
         sk[j].st \in {"waiting", "open"} => Deaf(hq, hq2, j)
  PROVE  Turn(sk, dq, hq, ho, pr, ca, sk2, dq2, hq2, pr2, ca2, j)
<1> PICK s, p, y, c : s = sk[j] /\ p = pr[j] /\ y = pr2[j] /\ c = ca[j]
  OBVIOUS
<1>1. sk2[j] = s /\ ca2[j] = c /\ Kept(s, y) = Kept(s, p)
  BY DEF Kept
<1>2. Own(s, p, c, Asks(dq, j)) /\ DeviceSide(sk, dq, ho, nx, j)
  BY DEF Streams, WireInv, Wire
<1>3. Stage(s, s)
  BY DEF Stage
<1>4. Ties(sk, dq, hq, ho, sk2, dq2, hq2, j)
  BY <1>1 DEF Ties, Quiet, Linked, Joint
<1>5. Gets(sk, hq, hq2, s, s, p, y, j)
  BY <1>1 DEF Gets, Deaf
<1>6. Rests(dq, dq2, p, y, j)
  BY DEF Rests, Quiet
<1>7. Gives(sk, dq, dq2, s, p, y, j)
  BY <1>6 DEF Gives
<1>8. Reason(dq, dq2, hq, s, s, p, y, c, c, j)
  BY <1>2 DEF Reason, Own
<1>9. s.st = "none" => Born(sk2, dq2, hq2, ho, s, y, j)
  <2> SUFFICES ASSUME s.st = "none", NEW h \in Hids PROVE ~(Linked(sk2, j, h) \/ Sends(dq2, j, h))
    BY DEF Born
  <2>1. ~Tie(sk, dq, ho, j, h)
    BY <1>2 DEF DeviceSide
  <2> QED BY <2>1, <1>1 DEF Tie, Linked, Quiet
<1> QED BY <1>1, <1>3, <1>4, <1>5, <1>7, <1>8, <1>9 DEF Turn

-----------------------------------------------------------------------------
(* The steps of adbd and of the programs keep the bytes.                   *)

\* The bytes of every stream, in a state.
BInv == Streams(sock, d2h, h2d, host, prog, cause, session = "lost")

\* A linked socket has a peer.
LEMMA PeersIn == ASSUME IInv PROVE Peers(sock)
<1>1. Local /\ sock \in [Ids -> LocalSockets]
  BY DEF IInv, WireInv, WireType
<1> SUFFICES ASSUME NEW i \in Ids, sock[i].st = "open" PROVE sock[i].peer \in Hids
  BY DEF Peers
<1>2. sock[i].peer # None /\ sock[i] \in LocalSockets
  BY <1>1 DEF Local, Watched
<1> QED BY <1>2 DEF LocalSockets

\* Streams survives what adbd or a program does, socket by socket.
LEMMA DeviceMoves ==
  ASSUME IInv, IInv', BInv, host' = host, session' = session,
         LastWords(h2d'), \A h \in Hids : Asks(h2d', h) => Asks(h2d, h),
         \A j \in Ids : Turn(sock, d2h, h2d, host, prog, cause, sock', d2h', h2d', prog', cause', j)
  PROVE  BInv'
<1>1. PICK sk2, dq2, hq2, pr2, ca2, nx2 :
        /\ sk2 = sock' /\ dq2 = d2h' /\ hq2 = h2d' /\ pr2 = prog' /\ ca2 = cause' /\ nx2 = nextid'
  OBVIOUS
<1>2. WireInv(sock, d2h, h2d, host, nextid) /\ WireInv(sk2, dq2, hq2, host, nx2)
  BY <1>1 DEF IInv
<1>3. prog \in [Ids -> Programs] /\ pr2 \in [Ids -> Programs]
  BY <1>1 DEF IInv, Others
<1>4. Peers(sock) /\ Peers(sk2)
  <2>1. Peers(sock)
    BY PeersIn
  <2>2. Local' /\ sock' \in [Ids -> LocalSockets]
    BY DEF IInv, WireInv, WireType
  <2>3. ASSUME NEW i \in Ids, sk2[i].st = "open" PROVE sk2[i].peer \in Hids
    <3>1. sk2[i].peer # None /\ sk2[i] \in LocalSockets
      BY <2>2, <2>3, <1>1 DEF Local, Watched
    <3> QED BY <3>1 DEF LocalSockets
  <2> QED BY <2>1, <2>3 DEF Peers
<1>5. PICK lost : lost = (session = "lost")
  OBVIOUS
<1>6. Streams(sock, d2h, h2d, host, prog, cause, lost)
  BY <1>5 DEF BInv
<1>7. LastWords(hq2) /\ \A h \in Hids : Asks(hq2, h) => Asks(h2d, h)
  BY <1>1
<1>8. \A j \in Ids : Turn(sock, d2h, h2d, host, prog, cause, sk2, dq2, hq2, pr2, ca2, j)
  BY <1>1
<1>9. Streams(sk2, dq2, hq2, host, pr2, ca2, lost)
  BY ONLY <1>2, <1>3, <1>4, <1>6, <1>7, <1>8, DeviceStep
<1> QED BY <1>1, <1>5, <1>9 DEF BInv

\* The packet of the host that comes next is taken.
LEMMA Receives ==
  ASSUME IInv, BInv, NEW cmd, receive(cmd)
  PROVE  /\ h2d # <<>> /\ h2d \in Seq(Packets) /\ d2h \in Seq(Packets)
         /\ h2d' = Tail(h2d) /\ host' = host /\ session' = session /\ Head(h2d).cmd = cmd
         /\ Head(h2d) \in Packets
         /\ LastWords(h2d) /\ LastWords(h2d') /\ \A h \in Hids : Asks(h2d', h) => Asks(h2d, h)
         /\ \A j \in Ids : Head(h2d).cmd # "WRTE" \/ Head(h2d).arg1 # j => Deaf(h2d, h2d', j)
         /\ \A j \in Ids : Closes(h2d', j) => Closes(h2d, j)
<1>1. /\ h2d # <<>> /\ h2d' = Tail(h2d) /\ host' = host /\ session' = session /\ Head(h2d).cmd = cmd
  BY Fetch
<1>2. h2d \in Seq(Packets) /\ d2h \in Seq(Packets) /\ LastWords(h2d)
  BY DEF IInv, WireInv, WireType, BInv, Streams
<1>3. Head(h2d) \in Packets
  BY <1>1, <1>2, ViewTaken
<1> QED BY <1>1, <1>2, <1>3, Fetched

\* A socket that nothing is done to.
LEMMA Unmoved ==
  ASSUME IInv, BInv, NEW j \in Ids, sock'[j] = sock[j], cause'[j] = cause[j],
         prog'[j].inb = prog[j].inb, prog'[j].out = prog[j].out, prog'[j].made = prog[j].made,
         prog'[j].end = "open" => prog[j].end = "open",
         Quiet(d2h, d2h', j), Closes(h2d', j) => Closes(h2d, j),
         sock[j].st \in {"waiting", "open"} => Deaf(h2d, h2d', j)
  PROVE  Turn(sock, d2h, h2d, host, prog, cause, sock', d2h', h2d', prog', cause', j)
<1>1. PICK sk2, dq2, hq2, pr2, ca2, lost :
        /\ sk2 = sock' /\ dq2 = d2h' /\ hq2 = h2d' /\ pr2 = prog' /\ ca2 = cause'
        /\ lost = (session = "lost")
  OBVIOUS
<1>2. WireInv(sock, d2h, h2d, host, nextid) /\ Streams(sock, d2h, h2d, host, prog, cause, lost)
  BY <1>1 DEF IInv, BInv
<1>3. /\ sk2[j] = sock[j] /\ ca2[j] = cause[j]
      /\ pr2[j].inb = prog[j].inb /\ pr2[j].out = prog[j].out /\ pr2[j].made = prog[j].made
      /\ pr2[j].end = "open" => prog[j].end = "open"
      /\ Quiet(d2h, dq2, j) /\ (Closes(hq2, j) => Closes(h2d, j))
      /\ sock[j].st \in {"waiting", "open"} => Deaf(h2d, hq2, j)
  BY <1>1
<1>4. Turn(sock, d2h, h2d, host, prog, cause, sk2, dq2, hq2, pr2, ca2, j)
  BY ONLY <1>2, <1>3, j \in Ids, Still
<1> QED BY <1>1, <1>4

\* Queues that stay.
LEMMA SameQueue ==
  ASSUME NEW q, NEW j
  PROVE  Quiet(q, q, j) /\ Deaf(q, q, j)
BY DEF Quiet, Deaf

\* drop_packet keeps the bytes.
LEMMA DropBytes == ASSUME IInv, IInv', BInv, drop_packet PROVE BInv'
<1>1. PICK cmd \in {"OPEN", "OKAY", "CLSE", "WRTE"} : receive(cmd)
  BY DEF drop_packet
<1>2. /\ \/ ~online
         \/ Head(h2d).cmd # "OPEN" /\ ~ \E i \in Ids : find_local_socket(Head(h2d).arg1, i) /\ Known(i)
      /\ sock' = sock /\ d2h' = d2h /\ prog' = prog /\ cause' = cause
  BY DEF drop_packet
<1>3. /\ host' = host /\ session' = session /\ Head(h2d).cmd = cmd
      /\ LastWords(h2d') /\ \A h \in Hids : Asks(h2d', h) => Asks(h2d, h)
      /\ \A j \in Ids : Head(h2d).cmd # "WRTE" \/ Head(h2d).arg1 # j => Deaf(h2d, h2d', j)
      /\ \A j \in Ids : Closes(h2d', j) => Closes(h2d, j)
  BY <1>1, Receives
<1>4. online
  BY <1>1, Fetch
<1>5. ASSUME NEW j \in Ids
      PROVE  Turn(sock, d2h, h2d, host, prog, cause, sock', d2h', h2d', prog', cause', j)
  <2>1. sock[j].st \in {"waiting", "open"} => Deaf(h2d, h2d', j)
    BY <1>2, <1>3, <1>4 DEF find_local_socket, Known
  <2>2. Quiet(d2h, d2h', j)
    BY <1>2, SameQueue
  <2> QED BY <2>1, <2>2, <1>2, <1>3, Unmoved
<1> QED BY <1>3, <1>5, DeviceMoves

\* refuse_OPEN keeps the bytes.
LEMMA RefuseBytes == ASSUME IInv, IInv', BInv, refuse_OPEN PROVE BInv'
<1> PICK h : h = Head(h2d).arg0
  OBVIOUS
<1> PICK k : k = Pkt("CLSE", 0, h, <<>>)
  OBVIOUS
<1>1. /\ receive("OPEN") /\ d2h' = d2h \o <<k>> /\ sock' = sock /\ prog' = prog /\ cause' = cause
  BY DEF refuse_OPEN, send_close
<1>2. h \in Hids
  BY <1>1, Fetch
<1>3. /\ host' = host /\ session' = session /\ Head(h2d).cmd = "OPEN" /\ d2h \in Seq(Packets)
      /\ LastWords(h2d') /\ \A g \in Hids : Asks(h2d', g) => Asks(h2d, g)
      /\ \A j \in Ids : Head(h2d).cmd # "WRTE" \/ Head(h2d).arg1 # j => Deaf(h2d, h2d', j)
      /\ \A j \in Ids : Closes(h2d', j) => Closes(h2d, j)
  BY <1>1, Receives
<1>4. k \in Packets /\ k.cmd = "CLSE"
  BY <1>2, EmptySeq DEF Pkt, Packets, Cmds
<1>5. d2h' = Append(d2h, k)
  BY <1>1, <1>3, <1>4, SendOne
<1>6. ASSUME NEW j \in Ids
      PROVE  Turn(sock, d2h, h2d, host, prog, cause, sock', d2h', h2d', prog', cause', j)
  <2>1. Deaf(h2d, h2d', j)
    BY <1>3
  <2>2. Quiet(d2h, d2h', j)
    BY <1>3, <1>4, <1>5, Spoken
  <2> QED BY <2>1, <2>2, <1>1, <1>3, Unmoved
<1> QED BY <1>3, <1>6, DeviceMoves

\* local_socket_close of a socket that is not closing yet loses nothing.
LEMMA CloseKeeps ==
  ASSUME NEW s \in LocalSockets, s.st \in {"smart", "waiting", "open"},
         s.st \in {"smart", "waiting"} => s.queue = <<>>, NEW p, NEW y, y.inb = p.inb
  PROVE  LET t == local_socket_close(s) IN
         t \in LocalSockets /\ Kept(t, y) = Kept(s, p) /\ Stage(s, t) /\ t.st \in {"closing", "gone"}
<1> PICK t : t = local_socket_close(s)
  OBVIOUS
<1>1. CASE s.queue = <<>>
  <2>1. t = Gone
    BY <1>1 DEF local_socket_close
  <2>2. Kept(t, y) = Kept(s, p)
    BY <2>1, <1>1, Blank DEF Kept
  <2> QED BY <2>1, <2>2, Blank DEF Stage
<1>2. CASE s.queue # <<>>
  <2>1. t = [s EXCEPT !.st = "closing", !.peer = None, !.mask = @ \ {R}]
    BY <1>2 DEF local_socket_close
  <2>2. t \in LocalSockets /\ t.st = "closing" /\ t.queue = s.queue /\ s.st = "open"
    BY <2>1, <1>2 DEF LocalSockets
  <2>3. Kept(t, y) = Kept(s, p)
    BY <2>2 DEF Kept
  <2> QED BY <2>2, <2>3 DEF Stage
<1> QED BY <1>1, <1>2

\* A socket that is closed, with all that it has.
LEMMA Shuts ==
  ASSUME IInv, BInv, NEW j \in Ids, Stage(sock[j], sock'[j]),
         sock[j].st \in {"waiting", "open"}, sock'[j].st \in {"closing", "gone"},
         Kept(sock'[j], prog'[j]) = Kept(sock[j], prog[j]),
         prog'[j].out = prog[j].out, prog'[j].made = prog[j].made,
         prog'[j].end = "open" => prog[j].end = "open",
         cause'[j] \notin {"none", "eof"},
         cause'[j] = "host" => Closes(h2d, j) /\ \A h \in Hids : Payload(h2d, h, j) = <<>>,
         Quiet(d2h, d2h', j), Closes(h2d', j) => Closes(h2d, j)
  PROVE  Turn(sock, d2h, h2d, host, prog, cause, sock', d2h', h2d', prog', cause', j)
<1> PICK s, t, p, y, c, d : /\ s = sock[j] /\ t = sock'[j] /\ p = prog[j] /\ y = prog'[j]
                            /\ c = cause[j] /\ d = cause'[j]
  OBVIOUS
<1>1. Stage(s, t) /\ s.st # "none"
  OBVIOUS
<1>2. Ties(sock, d2h, h2d, host, sock', d2h', h2d', j)
  <2>1. \A h \in Hids : ~Linked(sock', j, h)
    BY DEF Linked
  <2> QED BY <2>1 DEF Ties, Quiet
<1>3. Gets(sock, h2d, h2d', s, t, p, y, j)
  BY DEF Gets
<1>4. Rests(d2h, d2h', p, y, j)
  BY DEF Rests, Quiet
<1>5. Gives(sock, d2h, d2h', s, p, y, j)
  BY <1>4 DEF Gives
<1>6. Reason(d2h, d2h', h2d, s, t, p, y, c, d, j)
  BY DEF Reason
<1> QED BY <1>1, <1>2, <1>3, <1>5, <1>6 DEF Turn

\* run_transport_disconnects, as the bytes see it.
LEMMA DisconnectsBytes ==
  ASSUME IInv, BInv, run_transport_disconnects, prog' = prog, NEW j \in Ids,
         Quiet(d2h, d2h', j), Deaf(h2d, h2d', j)
  PROVE  Turn(sock, d2h, h2d, host, prog, cause, sock', d2h', h2d', prog', cause', j)
<1>0. Deaf(h2d, h2d', j) /\ (Closes(h2d', j) => Closes(h2d, j))
  BY DEF Deaf
<1>1. CASE sock[j].st = "open"
  <2>1. sock'[j] = local_socket_close(sock[j]) /\ cause'[j] = "session"
    BY <1>1 DEF run_transport_disconnects
  <2>2. sock[j] \in LocalSockets
    BY DEF IInv, WireInv, WireType
  <2>3. PICK t : t = local_socket_close(sock[j])
    OBVIOUS
  <2>4. Kept(t, prog[j]) = Kept(sock[j], prog[j]) /\ Stage(sock[j], t) /\ t.st \in {"closing", "gone"}
    BY <1>1, <2>2, <2>3, CloseKeeps
  <2> QED BY <2>1, <2>3, <2>4, <1>0, <1>1, Shuts
<1>2. CASE sock[j].st # "open"
  <2>1. sock'[j] = sock[j] /\ cause'[j] = cause[j]
    BY <1>2 DEF run_transport_disconnects
  <2> QED BY <2>1, <1>0, Unmoved
<1> QED BY <1>1, <1>2

\* handle_packet of a CNXN keeps the bytes.
LEMMA CnxnBytes == ASSUME IInv, IInv', BInv, handle_CNXN PROVE BInv'
<1> PICK k : k = Pkt("CNXN", 0, 0, <<>>)
  OBVIOUS
<1>1. /\ receive("CNXN") /\ d2h' = d2h \o <<k>> /\ prog' = prog
      /\ IF online THEN run_transport_disconnects ELSE sock' = sock /\ cause' = cause
  BY DEF handle_CNXN, send_connect
<1>2. /\ host' = host /\ session' = session /\ Head(h2d).cmd = "CNXN" /\ d2h \in Seq(Packets)
      /\ LastWords(h2d') /\ \A g \in Hids : Asks(h2d', g) => Asks(h2d, g)
      /\ \A j \in Ids : Head(h2d).cmd # "WRTE" \/ Head(h2d).arg1 # j => Deaf(h2d, h2d', j)
      /\ \A j \in Ids : Closes(h2d', j) => Closes(h2d, j)
  BY <1>1, Receives
<1>3. k \in Packets /\ k.cmd = "CNXN"
  BY EmptySeq DEF Pkt, Packets, Cmds
<1>4. d2h' = Append(d2h, k)
  BY <1>1, <1>2, <1>3, SendOne
<1>5. ASSUME NEW j \in Ids
      PROVE  Turn(sock, d2h, h2d, host, prog, cause, sock', d2h', h2d', prog', cause', j)
  <2>1. Deaf(h2d, h2d', j) /\ Quiet(d2h, d2h', j)
    BY <1>2, <1>3, <1>4, Spoken
  <2>2. CASE online
    BY <2>1, <2>2, <1>1, DisconnectsBytes
  <2>3. CASE ~online
    BY <2>1, <2>3, <1>1, <1>2, Unmoved
  <2> QED BY <2>2, <2>3
<1> QED BY <1>2, <1>5, DeviceMoves

\* handle_packet of a SYNC(0) keeps the bytes.
LEMMA Sync0Bytes == ASSUME IInv, IInv', BInv, handle_SYNC0 PROVE BInv'
<1>1. receive("SYNC0") /\ d2h' = d2h /\ prog' = prog /\ run_transport_disconnects
  BY DEF handle_SYNC0
<1>2. /\ host' = host /\ session' = session /\ Head(h2d).cmd = "SYNC0"
      /\ LastWords(h2d') /\ \A g \in Hids : Asks(h2d', g) => Asks(h2d, g)
      /\ \A j \in Ids : Head(h2d).cmd # "WRTE" \/ Head(h2d).arg1 # j => Deaf(h2d, h2d', j)
  BY <1>1, Receives
<1>3. ASSUME NEW j \in Ids
      PROVE  Turn(sock, d2h, h2d, host, prog, cause, sock', d2h', h2d', prog', cause', j)
  <2>1. Deaf(h2d, h2d', j) /\ Quiet(d2h, d2h', j)
    BY <1>1, <1>2, SameQueue
  <2> QED BY <2>1, <1>1, DisconnectsBytes
<1> QED BY <1>2, <1>3, DeviceMoves

\* close_all_sockets keeps the bytes.
LEMMA CloseAllBytes == ASSUME IInv, IInv', BInv, close_all_sockets PROVE BInv'
<1>1. /\ sock' = [i \in Ids |-> IF sock[i].st = "waiting" THEN Gone ELSE sock[i]]
      /\ cause' = [i \in Ids |-> IF sock[i].st = "waiting" THEN "session" ELSE cause[i]]
      /\ d2h' = d2h /\ h2d' = h2d /\ prog' = prog /\ host' = host /\ session' = session
  BY DEF close_all_sockets, envVars
<1>2. LastWords(h2d') /\ \A g \in Hids : Asks(h2d', g) => Asks(h2d, g)
  BY <1>1 DEF BInv, Streams
<1>3. ASSUME NEW j \in Ids
      PROVE  Turn(sock, d2h, h2d, host, prog, cause, sock', d2h', h2d', prog', cause', j)
  <2>1. Deaf(h2d, h2d', j) /\ Quiet(d2h, d2h', j) /\ (Closes(h2d', j) => Closes(h2d, j))
    BY <1>1, SameQueue
  <2>2. CASE sock[j].st = "waiting"
    <3>1. sock'[j] = Gone /\ cause'[j] = "session" /\ sock[j].queue = <<>>
      BY <2>2, <1>1 DEF IInv, Local, Watched
    <3>2. Kept(Gone, prog[j]) = Kept(sock[j], prog[j]) /\ Stage(sock[j], Gone)
      BY <2>2, <3>1, Blank DEF Kept, Stage
    <3> QED BY <3>1, <3>2, <2>1, <2>2, <1>1, Blank, Shuts
  <2>3. CASE sock[j].st # "waiting"
    <3>1. sock'[j] = sock[j] /\ cause'[j] = cause[j]
      BY <2>3, <1>1
    <3> QED BY <3>1, <2>1, <1>1, Unmoved
  <2> QED BY <2>2, <2>3
<1> QED BY <1>1, <1>2, <1>3, DeviceMoves

\* A client that the smart socket accepts keeps the bytes.
LEMMA ListenBytes == ASSUME IInv, IInv', BInv, ss_listener_event_func PROVE BInv'
<1> PICK n : n = nextid
  OBVIOUS
<1> PICK t : t = create_local_socket("smart", None)
  OBVIOUS
<1>1. /\ n <= MaxId /\ prog' = [prog EXCEPT ![n].client = TRUE] /\ sock' = [sock EXCEPT ![n] = t]
      /\ d2h' = d2h /\ h2d' = h2d /\ host' = host /\ session' = session /\ cause' = cause
  BY DEF ss_listener_event_func, hostVars
<1>2. n \in Ids /\ prog \in [Ids -> Programs] /\ sock \in [Ids -> LocalSockets]
  BY <1>1, SocketsAssumption DEF Ids, IInv, Others, WireInv, WireType
<1>3. t.st = "smart" /\ t.peer = None /\ t.queue = <<>>
  BY Blank DEF create_local_socket, LocalSockets
<1>4. sock[n].st = "none"
  <2>1. DeviceSide(sock, d2h, host, n, n)
    BY <1>2 DEF IInv, WireInv, Wire
  <2>2. n \in Nat
    BY <1>2 DEF Ids
  <2> QED BY <2>1, <2>2 DEF DeviceSide
<1>5. LastWords(h2d') /\ \A g \in Hids : Asks(h2d', g) => Asks(h2d, g)
  BY <1>1 DEF BInv, Streams
<1>6. ASSUME NEW j \in Ids
      PROVE  Turn(sock, d2h, h2d, host, prog, cause, sock', d2h', h2d', prog', cause', j)
  <2>1. Deaf(h2d, h2d', j) /\ Quiet(d2h, d2h', j) /\ (Closes(h2d', j) => Closes(h2d, j))
    BY <1>1, SameQueue
  <2>2. CASE j = n
    <3> PICK s, p, y, c : s = sock[n] /\ p = prog[n] /\ y = prog'[n] /\ c = cause[n]
      OBVIOUS
    <3>1. /\ sock'[n] = t /\ cause'[n] = c
          /\ y.inb = p.inb /\ y.out = p.out /\ y.made = p.made /\ y.end = p.end
      BY <1>1, <1>2 DEF Programs
    <3>2. s.st = "none" /\ s.queue = <<>>
      BY <1>2, <1>4 DEF IInv, Local, Watched
    <3>3. Kept(t, y) = Kept(s, p) /\ Stage(s, t)
      BY <3>1, <3>2, <1>3 DEF Kept, Stage
    <3>4. Own(s, p, c, Asks(d2h, n)) /\ DeviceSide(sock, d2h, host, nextid, n)
      BY <1>2 DEF BInv, Streams, IInv, WireInv, Wire
    <3>5. Ties(sock, d2h, h2d, host, sock', d2h', h2d', n)
      BY <1>1, <3>1, <3>2 DEF Ties
    <3>6. Gets(sock, h2d, h2d', s, t, p, y, n)
      BY <3>3, <1>1 DEF Gets
    <3>7. Rests(d2h, d2h', p, y, n)
      BY <3>1, <1>1 DEF Rests
    <3>8. Gives(sock, d2h, d2h', s, p, y, n)
      BY <3>7 DEF Gives
    <3>9. Reason(d2h, d2h', h2d, s, t, p, y, c, c, n)
      BY <3>1, <3>2, <3>4, <1>3 DEF Reason, Own
    <3>10. Born(sock', d2h', h2d', host, t, y, n)
      <4>1. ASSUME NEW h \in Hids PROVE ~Linked(sock', n, h) /\ ~Sends(d2h', n, h)
        BY <3>1, <3>2, <3>4, <1>1, <1>3 DEF Linked, DeviceSide, Tie
      <4> QED BY <4>1 DEF Born
    <3> QED BY <2>2, <3>1, <3>3, <3>5, <3>6, <3>8, <3>9, <3>10 DEF Turn
  <2>3. CASE j # n
    <3>1. sock'[j] = sock[j] /\ prog'[j] = prog[j]
      BY <2>3, <1>1, <1>2
    <3> QED BY <3>1, <2>1, <1>1, Unmoved
  <2> QED BY <2>2, <2>3
<1> QED BY <1>1, <1>5, <1>6, DeviceMoves

\* A program that writes, reads or closes its end keeps the bytes.
LEMMA ProgBytes ==
  ASSUME IInv, IInv', BInv, NEW i \in Ids,
         prog_write(i) \/ prog_request(i) \/ prog_read(i) \/ prog_close(i)
  PROVE  BInv'
<1>1. /\ sock' = sock /\ d2h' = d2h /\ h2d' = h2d /\ host' = host /\ session' = session /\ cause' = cause
  BY DEF prog_write, prog_request, prog_read, prog_close, progOnly, hostVars
<1>2. prog \in [Ids -> Programs]
  BY DEF IInv, Others
<1>3. LastWords(h2d') /\ \A g \in Hids : Asks(h2d', g) => Asks(h2d, g)
  BY <1>1 DEF BInv, Streams
<1>4. ASSUME NEW j \in Ids
      PROVE  /\ Deaf(h2d, h2d', j) /\ Quiet(d2h, d2h', j) /\ (Closes(h2d', j) => Closes(h2d, j))
             /\ sock'[j] = sock[j] /\ cause'[j] = cause[j]
  BY <1>1, SameQueue
<1>5. CASE prog_request(i) \/ prog_read(i) \/ prog_close(i)
  <2>1. \A j \in Ids : /\ prog'[j].inb = prog[j].inb /\ prog'[j].out = prog[j].out
                       /\ prog'[j].made = prog[j].made
                       /\ prog'[j].end = "open" => prog[j].end = "open"
    <3>1. CASE prog_request(i)
      <4>1. PICK part \in {"PART", "REQ", "BAD"} : prog' = [prog EXCEPT ![i].req = Append(@, part)]
        BY <3>1 DEF prog_request
      <4>2. PICK o : o = Append(prog[i].req, part)
        OBVIOUS
      <4>3. prog' = [prog EXCEPT ![i].req = o]
        BY <4>1, <4>2
      <4> QED BY <4>3, <1>2 DEF Programs
    <3>2. CASE prog_read(i)
      BY <3>2, <1>2 DEF prog_read, Programs
    <3>3. CASE prog_close(i)
      <4>1. PICK e \in {"half", "closed"} : prog' = [prog EXCEPT ![i].end = e]
        BY <3>3 DEF prog_close
      <4> QED BY <4>1, <1>2 DEF Programs
    <3> QED BY <3>1, <3>2, <3>3, <1>5
  <2>2. \A j \in Ids : Turn(sock, d2h, h2d, host, prog, cause, sock', d2h', h2d', prog', cause', j)
    BY <2>1, <1>4, Unmoved
  <2> QED BY <2>2, <1>1, <1>3, DeviceMoves
<1>6. CASE prog_write(i)
  <2> PICK s, p, c, y : s = sock[i] /\ p = prog[i] /\ c = cause[i] /\ y = prog'[i]
    OBVIOUS
  <2>1. PICK o, m : o = Append(p.out, p.made + 1) /\ m = p.made + 1
    OBVIOUS
  <2>2. prog' = [prog EXCEPT ![i].out = o, ![i].made = m]
    BY <2>1, <1>6 DEF prog_write
  <2>3. y.out = o /\ y.made = m /\ y.inb = p.inb /\ y.end = p.end
    BY <2>2, <1>2 DEF Programs
  <2>4. p.end = "open" /\ s.st \in {"open", "closing"}
    BY <1>6 DEF prog_write, IsOpen
  <2>5. Own(s, p, c, Asks(d2h, i))
    BY DEF BInv, Streams
  <2>6. Kept(s, y) = Kept(s, p) /\ Stage(s, s)
    BY <2>3 DEF Kept, Stage
  <2>7. Ties(sock, d2h, h2d, host, sock', d2h', h2d', i)
    BY <1>1 DEF Ties, Joint, Linked
  <2>8. Gets(sock, h2d, h2d', s, s, p, y, i)
    BY <2>6, <1>1 DEF Gets
  <2>9. Gives(sock, d2h, d2h', s, p, y, i)
    BY <2>1, <2>3, <2>4, <1>1 DEF Gives
  <2>10. Reason(d2h, d2h', h2d, s, s, p, y, c, c, i)
    BY <2>3, <2>5 DEF Reason, Own
  <2>11. Turn(sock, d2h, h2d, host, prog, cause, sock', d2h', h2d', prog', cause', i)
    BY <2>4, <2>6, <2>7, <2>8, <2>9, <2>10, <1>4 DEF Turn
  <2>12. ASSUME NEW j \in Ids, j # i
         PROVE  Turn(sock, d2h, h2d, host, prog, cause, sock', d2h', h2d', prog', cause', j)
    <3>1. prog'[j] = prog[j]
      BY <2>2, <2>12, <1>2
    <3> QED BY <3>1, <1>4, Unmoved
  <2>13. \A j \in Ids : Turn(sock, d2h, h2d, host, prog, cause, sock', d2h', h2d', prog', cause', j)
    BY <2>11, <2>12
  <2> QED BY <2>13, <1>1, <1>3, DeviceMoves
<1> QED BY <1>5, <1>6

\* A stream that was asked for is new: nothing was sent on it.
LEMMA NewStream ==
  ASSUME NEW sk, NEW dq, NEW hq, NEW ho, NEW nx, WireInv(sk, dq, hq, ho, nx),
         NEW pr, NEW ca, NEW lost, Streams(sk, dq, hq, ho, pr, ca, lost),
         NEW h \in Hids, Asks(hq, h), NEW i \in Ids
  PROVE  /\ ho[h].st # "ended" /\ ho[h].sent = 0 /\ ho[h].got = <<>>
         /\ Payload(hq, h, i) = <<>> /\ Payload(dq, i, h) = <<>> /\ ~Sends(dq, i, h)
<1>1. /\ HostSide(sk, dq, hq, ho, h) /\ Replies(sk, hq, ho) /\ Theirs(sk, dq, hq, ho, h)
      /\ ho[h] \in HostStreams /\ hq \in Seq(Packets) /\ dq \in Seq(Packets)
  BY DEF WireInv, Wire, WireType, Streams
<1>2. \A j \in Ids : ~Tie(sk, dq, ho, j, h)
  BY <1>1 DEF HostSide
<1>3. ho[h].id = 0
  BY <1>1, <1>2 DEF Tie, HostStreams
<1>4. ho[h].st # "ended" /\ ho[h].sent = 0 /\ ho[h].got = <<>>
  BY <1>1, <1>3 DEF Theirs
<1>5. \A k \in DOMAIN hq : ~Bears(hq, k, h, i)
  <2>1. i # 0
    BY DEF Ids
  <2> QED BY <2>1, <1>1, <1>3 DEF Replies, Bears, Fits
<1>6. \A k \in DOMAIN dq : ~Bears(dq, k, i, h)
  BY <1>2 DEF Tie, Sends, Bears, Fits
<1> QED BY <1>1, <1>2, <1>4, <1>5, <1>6, PayNone DEF Tie

\* handle_packet of an OPEN that a service answers keeps the bytes.
LEMMA OpenBytes == ASSUME IInv, IInv', BInv, handle_OPEN PROVE BInv'
<1> PICK n : n = nextid
  OBVIOUS
<1> PICK g : g = Head(h2d).arg0
  OBVIOUS
<1> PICK t : t = create_local_socket("open", g)
  OBVIOUS
<1> PICK k : k = Pkt("OKAY", n, g, <<>>)
  OBVIOUS
<1>1. /\ receive("OPEN") /\ n <= MaxId /\ sock' = [sock EXCEPT ![n] = t] /\ d2h' = d2h \o <<k>>
      /\ prog' = prog /\ cause' = cause
  BY DEF handle_OPEN, send_ready
<1>2. n \in Ids /\ prog \in [Ids -> Programs] /\ sock \in [Ids -> LocalSockets]
  BY <1>1, SocketsAssumption DEF Ids, IInv, Others, WireInv, WireType
<1>3. /\ host' = host /\ session' = session /\ Head(h2d).cmd = "OPEN" /\ d2h \in Seq(Packets)
      /\ h2d # <<>> /\ h2d \in Seq(Packets)
      /\ LastWords(h2d') /\ \A h \in Hids : Asks(h2d', h) => Asks(h2d, h)
      /\ \A j \in Ids : Head(h2d).cmd # "WRTE" \/ Head(h2d).arg1 # j => Deaf(h2d, h2d', j)
      /\ \A j \in Ids : Closes(h2d', j) => Closes(h2d, j)
  BY <1>1, Receives
<1>4. g \in Hids
  BY <1>1, Fetch
<1>5. k \in Packets /\ k.cmd = "OKAY" /\ k.arg0 = n /\ k.arg1 = g
  BY <1>2, <1>4, EmptySeq DEF Pkt, Packets, Cmds
<1>6. d2h' = Append(d2h, k)
  BY <1>1, <1>3, <1>5, SendOne
<1>7. /\ t.st = "open" /\ t.peer = g /\ t.queue = <<>>
  BY Blank DEF create_local_socket, LocalSockets
<1>8. sock[n].st = "none" /\ sock[n].queue = <<>> /\ prog[n].inb = <<>>
  <2>1. DeviceSide(sock, d2h, host, n, n)
    BY <1>2 DEF IInv, WireInv, Wire
  <2>2. n \in Nat
    BY <1>2 DEF Ids
  <2>3. sock[n].st = "none"
    BY <2>1, <2>2 DEF DeviceSide
  <2>4. Watched(sock[n], batch[n]) /\ Heard(sock[n], prog[n])
    BY <1>2 DEF IInv, Local
  <2> QED BY <2>3, <2>4 DEF Watched, Heard
<1>9. Asks(h2d, g)
  <2>1. Head(h2d) = h2d[1] /\ 1 \in DOMAIN h2d
    BY <1>3, Taken, Shape
  <2> QED BY <2>1, <1>3 DEF Asks, AskedAt
<1>10. /\ host[g].st # "ended" /\ host[g].sent = 0 /\ host[g].got = <<>>
       /\ Payload(h2d, g, n) = <<>> /\ Payload(d2h, n, g) = <<>>
  <2>1. PICK lost : lost = (session = "lost")
    OBVIOUS
  <2>2. WireInv(sock, d2h, h2d, host, nextid) /\ Streams(sock, d2h, h2d, host, prog, cause, lost)
    BY <2>1 DEF IInv, BInv
  <2> QED BY ONLY <2>2, <1>2, <1>4, <1>9, NewStream
<1>11. ASSUME NEW j \in Ids, j # n
       PROVE  Turn(sock, d2h, h2d, host, prog, cause, sock', d2h', h2d', prog', cause', j)
  <2>1. Deaf(h2d, h2d', j) /\ Quiet(d2h, d2h', j)
    BY <1>3, <1>5, <1>6, <1>11, Spoken
  <2>2. sock'[j] = sock[j]
    BY <1>1, <1>2, <1>11
  <2> QED BY <2>1, <2>2, <1>1, <1>3, Unmoved
<1>12. Turn(sock, d2h, h2d, host, prog, cause, sock', d2h', h2d', prog', cause', n)
  <2> PICK s, p, c : s = sock[n] /\ p = prog[n] /\ c = cause[n]
    OBVIOUS
  <2>1. sock'[n] = t /\ cause'[n] = c /\ prog'[n] = p
    BY <1>1, <1>2
  <2>2. Kept(t, p) = Kept(s, p) /\ Kept(t, p) = <<>> /\ Stage(s, t)
    <3>1. FlattenSeq(<<>>) = <<>>
      BY FlatOne
    <3>2. Cat(<<>>, <<>>) = <<>>
      BY Join
    <3> QED BY <3>1, <3>2, <1>7, <1>8 DEF Kept, Stage
  <2>3. Own(s, p, c, Asks(d2h, n)) /\ DeviceSide(sock, d2h, host, nextid, n)
    BY <1>2 DEF BInv, Streams, IInv, WireInv, Wire
  <2>4. /\ \A h \in Hids : /\ Payload(d2h', n, h) = Payload(d2h, n, h)
                           /\ h # g => (Sends(d2h', n, h) => Sends(d2h, n, h))
        /\ Asks(d2h', n) => Asks(d2h, n)
    BY <1>2, <1>3, <1>4, <1>5, <1>6, Spoken
  <2>5. Ties(sock, d2h, h2d, host, sock', d2h', h2d', n)
    BY <2>4, <1>2, <1>3, <1>8 DEF Ties
  <2>6. Deaf(h2d, h2d', n)
    BY <1>2, <1>3
  <2>7. Gets(sock, h2d, h2d', s, t, p, p, n)
    BY <2>2, <2>6 DEF Gets, Deaf
  <2>8. Gives(sock, d2h, d2h', s, p, p, n)
    BY <2>4 DEF Gives, Rests
  <2>9. Reason(d2h, d2h', h2d, s, t, p, p, c, c, n)
    BY <2>3, <1>7, <1>8 DEF Reason, Own
  <2>10. Born(sock', d2h', h2d', host, t, p, n)
    <3> SUFFICES ASSUME NEW h \in Hids, Linked(sock', n, h) \/ Sends(d2h', n, h)
                 PROVE  /\ host[h].st # "ended" /\ host[h].sent = 0 /\ host[h].got = <<>>
                        /\ Kept(t, p) = <<>> /\ Payload(h2d', h, n) = <<>>
                        /\ Payload(d2h', n, h) = <<>>
      BY DEF Born
    <3>1. h = g
      <4>1. ~Sends(d2h, n, h)
        BY <2>3, <1>8 DEF DeviceSide, Tie
      <4>2. Linked(sock', n, h) => h = g
        BY <2>1, <1>7 DEF Linked
      <4> QED BY <4>1, <4>2, <2>4
    <3> QED BY <3>1, <2>2, <2>4, <2>6, <1>4, <1>10 DEF Deaf
  <2> QED BY <2>1, <2>2, <2>5, <2>7, <2>8, <2>9, <2>10 DEF Turn
<1>13. \A j \in Ids : Turn(sock, d2h, h2d, host, prog, cause, sock', d2h', h2d', prog', cause', j)
  BY <1>11, <1>12
<1> QED BY <1>3, <1>13, DeviceMoves

\* A packet of socket s with id i, if there is one.
Says(i, s, pk) ==
  \/ pk = <<>>
  \/ \E p \in Packets :
       /\ pk = <<p>>
       /\ \/ p.cmd = "CLSE"
          \/ p.cmd \in {"OKAY", "WRTE"} /\ p.arg0 = i /\ p.arg1 = s.peer /\ s.st = "open"
          \/ p.cmd = "OPEN" /\ p.arg0 = i /\ s.st = "smart"

\* What a socket that moves sends.
LEMMA MovesSay ==
  ASSUME NEW i \in Ids, NEW s, NEW t, NEW pk, Moves(i, s, t, pk)
  PROVE  Says(i, s, pk)
<1>3. CASE pk = <<>>
  BY <1>3 DEF Says
<1>4. CASE Stays(s, t) /\ pk = <<Pkt("OKAY", i, s.peer, <<>>)>>
  <2>1. PICK p : p = Pkt("OKAY", i, s.peer, <<>>)
    OBVIOUS
  <2>2. p \in Packets /\ p.cmd = "OKAY" /\ p.arg0 = i /\ p.arg1 = s.peer /\ s.st = "open"
    BY <1>4, <2>1, EmptySeq DEF Stays, Pkt, Packets, Cmds
  <2> QED BY <2>1, <2>2, <1>4 DEF Says
<1>5. CASE Stays(s, t) /\ \E data \in Seq(Nat) : pk = <<Pkt("WRTE", i, s.peer, data)>>
  <2>0. PICK data \in Seq(Nat) : pk = <<Pkt("WRTE", i, s.peer, data)>>
    BY <1>5
  <2>1. PICK p : p = Pkt("WRTE", i, s.peer, data) /\ pk = <<p>>
    BY <2>0
  <2>2. p \in Packets /\ p.cmd = "WRTE" /\ p.arg0 = i /\ p.arg1 = s.peer /\ s.st = "open"
    BY <1>5, <2>0, <2>1 DEF Stays, Pkt, Packets, Cmds
  <2> QED BY <2>1, <2>2 DEF Says
<1>6. CASE s.peer \in Hids /\ pk = <<Pkt("CLSE", 0, s.peer, <<>>)>>
  <2>1. PICK p : p = Pkt("CLSE", 0, s.peer, <<>>)
    OBVIOUS
  <2>2. p \in Packets /\ p.cmd = "CLSE"
    BY <1>6, <2>1, EmptySeq DEF Pkt, Packets, Cmds
  <2> QED BY <2>1, <2>2, <1>6 DEF Says
<1>7. CASE s.st = "smart" /\ pk = <<Pkt("OPEN", i, 0, <<>>)>>
  <2>1. PICK p : p = Pkt("OPEN", i, 0, <<>>)
    OBVIOUS
  <2>2. p \in Packets /\ p.cmd = "OPEN" /\ p.arg0 = i
    BY <2>1, EmptySeq DEF Pkt, Packets, Cmds
  <2> QED BY <2>1, <2>2, <1>7 DEF Says
<1> QED BY <1>3, <1>4, <1>5, <1>6, <1>7 DEF Moves

\* What it adds to the stream.
LEMMA SaysView ==
  ASSUME NEW i \in Ids, NEW s, NEW pk, Says(i, s, pk), NEW q \in Seq(Packets)
  PROVE  /\ \A j \in Ids : j # i => Quiet(q, q \o pk, j)
         /\ \A h \in Hids : Sends(q \o pk, i, h) => Sends(q, i, h) \/ (s.st = "open" /\ s.peer = h)
         /\ Asks(q \o pk, i) => Asks(q, i) \/ s.st = "smart"
         /\ (\A k \in DOMAIN pk : pk[k].cmd # "WRTE") =>
              \A h \in Hids : Payload(q \o pk, i, h) = Payload(q, i, h)
<1>1. CASE pk = <<>>
  <2>1. q \o pk = q
    BY <1>1, ConcatEmptySeq
  <2> QED BY <2>1, SameQueue
<1>2. ASSUME NEW p \in Packets, pk = <<p>>,
             \/ p.cmd = "CLSE"
             \/ p.cmd \in {"OKAY", "WRTE"} /\ p.arg0 = i /\ p.arg1 = s.peer /\ s.st = "open"
             \/ p.cmd = "OPEN" /\ p.arg0 = i /\ s.st = "smart"
      PROVE  /\ \A j \in Ids : j # i => Quiet(q, q \o pk, j)
             /\ \A h \in Hids : Sends(q \o pk, i, h) => Sends(q, i, h) \/ (s.st = "open" /\ s.peer = h)
             /\ Asks(q \o pk, i) => Asks(q, i) \/ s.st = "smart"
             /\ (\A k \in DOMAIN pk : pk[k].cmd # "WRTE") =>
                  \A h \in Hids : Payload(q \o pk, i, h) = Payload(q, i, h)
  <2>1. q \o pk = Append(q, p) /\ 1 \in DOMAIN pk /\ pk[1] = p
    BY <1>2, SendOne
  <2>2. \A j \in Ids : p.cmd \in {"CNXN", "CLSE"} \/ p.arg0 # j => Quiet(q, Append(q, p), j)
    BY Spoken
  <2>3. \A h \in Hids :
              /\ p.cmd # "WRTE" => Payload(Append(q, p), i, h) = Payload(q, i, h)
              /\ p.cmd \in {"CNXN", "CLSE", "OPEN"} \/ p.arg1 # h =>
                   (Sends(Append(q, p), i, h) => Sends(q, i, h))
    BY Spoken
  <2>4. Asks(Append(q, p), i) <=> Asks(q, i) \/ (p.cmd = "OPEN" /\ p.arg0 = i)
    <3>1. i \in Ends
      BY DEF Ends
    <3> QED BY <3>1, ViewSent
  <2>5. (\A k \in DOMAIN pk : pk[k].cmd # "WRTE") => p.cmd # "WRTE"
    BY <2>1
  <2>6. \A j \in Ids : j # i => Quiet(q, Append(q, p), j)
    BY <2>2, <1>2
  <2> QED BY ONLY <2>1, <2>3, <2>4, <2>5, <2>6, <1>2
<1> QED BY <1>1, <1>2 DEF Says

\* The program behind a descriptor, after a function of its socket.
LEMMA ServedBytes ==
  ASSUME prog \in [Ids -> Programs], NEW i \in Ids, NEW x,
         x.wrote \in Bytes, x.took \in Nat
  PROVE  LET p == prog[i]
             y == Served(i, x)
         IN  /\ y.inb = Cat(p.inb, x.wrote) /\ y.made = p.made /\ y.end = p.end
             /\ sock[i].st = "smart" => y.out = p.out
             /\ sock[i].st # "smart" => y.out = SubSeq(p.out, x.took + 1, Len(p.out))
<1> PICK p : p = prog[i]
  OBVIOUS
<1> PICK y : y = Served(i, x)
  OBVIOUS
<1>1. p \in Programs
  OBVIOUS
<1>3. PICK o, q, b, t, u :
        /\ o = IF sock[i].st = "smart" THEN p.out ELSE SubSeq(p.out, x.took + 1, Len(p.out))
        /\ q = IF sock[i].st = "smart" THEN SubSeq(p.req, x.took + 1, Len(p.req)) ELSE p.req
        /\ b = p.inb \o x.wrote /\ t = p.told \o x.told /\ u = p.unread + Len(x.wrote)
  OBVIOUS
<1>4. y = [p EXCEPT !.inb = b, !.unread = u, !.out = o, !.req = q, !.told = t]
  BY <1>1, <1>3 DEF Served, Programs
<1>5. y.inb = b /\ y.out = o /\ y.made = p.made /\ y.end = p.end
  BY <1>1, <1>4 DEF Programs
<1> QED BY <1>3, <1>5 DEF Cat

\* handle_packet of an OKAY keeps the bytes.
LEMMA OkayBytes == ASSUME IInv, IInv', BInv, handle_OKAY PROVE BInv'
<1> PICK g : g = Head(h2d).arg0
  OBVIOUS
<1>1. PICK i \in Ids :
        LET s == local_socket_ready([sock[i] EXCEPT !.st = "open",
                                       !.peer = IF @ = None THEN g ELSE @])
        IN  /\ receive("OKAY")
            /\ find_local_socket(Head(h2d).arg1, i) /\ Known(i)
            /\ sock' = [sock EXCEPT ![i] = s]
            /\ prog' = [prog EXCEPT ![i].told = @ \o ready_told(sock[i])]
            /\ d2h' = d2h /\ cause' = cause
  BY Zenon DEF handle_OKAY
<1> PICK s, p, c, told : s = sock[i] /\ p = prog[i] /\ c = cause[i] /\ told = p.told \o ready_told(s)
  OBVIOUS
<1> PICK t : t = local_socket_ready([sock[i] EXCEPT !.st = "open",
                                       !.peer = IF @ = None THEN g ELSE @])
  OBVIOUS
<1>2. /\ receive("OKAY") /\ Head(h2d).arg1 = i /\ s.st \in {"waiting", "open"}
      /\ sock' = [sock EXCEPT ![i] = t] /\ prog' = [prog EXCEPT ![i].told = told]
      /\ d2h' = d2h /\ cause' = cause
  BY <1>1 DEF find_local_socket, Known
<1>3. /\ sock \in [Ids -> LocalSockets] /\ prog \in [Ids -> Programs] /\ s \in LocalSockets
      /\ Watched(s, batch[i]) /\ Own(s, p, c, Asks(d2h, i))
      /\ WireInv(sock, d2h, h2d, host, nextid)
  BY DEF IInv, Others, Local, WireInv, WireType, BInv, Streams
<1>4. /\ host' = host /\ session' = session /\ Head(h2d).cmd = "OKAY" /\ d2h \in Seq(Packets)
      /\ h2d # <<>> /\ h2d \in Seq(Packets)
      /\ LastWords(h2d') /\ \A h \in Hids : Asks(h2d', h) => Asks(h2d, h)
      /\ \A j \in Ids : Head(h2d).cmd # "WRTE" \/ Head(h2d).arg1 # j => Deaf(h2d, h2d', j)
      /\ \A j \in Ids : Closes(h2d', j) => Closes(h2d, j)
  BY <1>2, Receives
<1>5. g \in Hids
  BY <1>2, Fetch
<1>6. t.st = "open" /\ t.queue = s.queue /\ t.peer = (IF s.peer = None THEN g ELSE s.peer)
  BY <1>3 DEF local_socket_ready, LocalSockets
<1>7. \A j \in Ids : Deaf(h2d, h2d', j) /\ Quiet(d2h, d2h', j)
  BY <1>2, <1>4, SameQueue
<1>8. ASSUME NEW j \in Ids, j # i
      PROVE  Turn(sock, d2h, h2d, host, prog, cause, sock', d2h', h2d', prog', cause', j)
  <2>1. sock'[j] = sock[j] /\ prog'[j] = prog[j]
    BY <1>2, <1>3, <1>8
  <2> QED BY <2>1, <1>2, <1>4, <1>7, Unmoved
<1>9. Turn(sock, d2h, h2d, host, prog, cause, sock', d2h', h2d', prog', cause', i)
  <2> PICK y : y = prog'[i]
    OBVIOUS
  <2>1. /\ sock'[i] = t /\ cause'[i] = c
        /\ y.inb = p.inb /\ y.out = p.out /\ y.made = p.made /\ y.end = p.end
    BY <1>2, <1>3 DEF Programs
  <2>2. host[g].id = i
    <3>1. Head(h2d) = h2d[1] /\ 1 \in DOMAIN h2d
      BY <1>4, Taken, Shape
    <3>2. Replies(sock, h2d, host)
      BY <1>3 DEF WireInv, Wire
    <3> QED BY <3>1, <3>2, <1>2, <1>4 DEF Replies
  <2>3. \A h \in Hids : Linked(sock', i, h) => Joint(sock, host, i, h)
    <3>1. s.st = "waiting" => s.peer = None
      BY <1>3 DEF Watched
    <3>2. s.st = "open" => s.peer # None
      BY <1>3 DEF Watched
    <3> QED BY <3>1, <3>2, <2>1, <2>2, <1>2, <1>6 DEF Joint, Linked
  <2>4. Ties(sock, d2h, h2d, host, sock', d2h', h2d', i)
    BY <2>3, <1>4, <1>7 DEF Ties, Quiet
  <2>5. Kept(t, y) = Kept(s, p) /\ Stage(s, t) /\ s.st # "none"
    BY <2>1, <1>2, <1>6 DEF Kept, Stage
  <2>6. Gets(sock, h2d, h2d', s, t, p, y, i)
    BY <2>5, <1>7 DEF Gets, Deaf
  <2>7. Gives(sock, d2h, d2h', s, p, y, i)
    BY <2>1, <1>7 DEF Gives, Rests, Quiet
  <2>8. Reason(d2h, d2h', h2d, s, t, p, y, c, c, i)
    BY <2>1, <1>2, <1>3, <1>6 DEF Reason, Own
  <2> QED BY <2>1, <2>4, <2>5, <2>6, <2>7, <2>8 DEF Turn
<1>10. \A j \in Ids : Turn(sock, d2h, h2d, host, prog, cause, sock', d2h', h2d', prog', cause', j)
  BY <1>8, <1>9
<1> QED BY <1>4, <1>10, DeviceMoves

\* handle_packet of a CLSE keeps the bytes.
LEMMA ClseBytes == ASSUME IInv, IInv', BInv, handle_CLSE PROVE BInv'
<1>1. PICK i \in Ids :
        LET r == Closed(sock[i], "host")
        IN  /\ receive("CLSE")
            /\ find_local_socket(Head(h2d).arg1, i) /\ Known(i)
            /\ sock' = [sock EXCEPT ![i] = r.s]
            /\ d2h' = d2h \o r.pkts
            /\ prog' = [prog EXCEPT ![i].told = @ \o r.told]
            /\ cause' = Because(i, "host")
  BY DEF handle_CLSE
<1> PICK s, p, c : s = sock[i] /\ p = prog[i] /\ c = cause[i]
  OBVIOUS
<1>2. PICK t, pk, d : t = local_socket_close(s) /\ pk = remote_socket_close(s) /\ d = close_told(s)
  OBVIOUS
<1>3. Closed(s, "host").s = t /\ Closed(s, "host").pkts = pk /\ Closed(s, "host").told = d
  BY <1>2 DEF Closed, Nothing
<1> PICK told : told = p.told \o d
  BY Zenon
<1>4. /\ receive("CLSE") /\ Head(h2d).arg1 = i /\ s.st \in {"waiting", "open"}
      /\ sock' = [sock EXCEPT ![i] = t] /\ d2h' = d2h \o pk
      /\ prog' = [prog EXCEPT ![i].told = told]
      /\ cause' = Because(i, "host")
  BY <1>1, <1>3, Zenon DEF Known, find_local_socket
<1>5. /\ sock \in [Ids -> LocalSockets] /\ prog \in [Ids -> Programs] /\ s \in LocalSockets
      /\ cause \in [Ids -> Whys]
      /\ Watched(s, batch[i]) /\ Own(s, p, c, Asks(d2h, i))
  BY DEF IInv, Others, Local, WireInv, WireType, BInv, Streams
<1>6. /\ host' = host /\ session' = session /\ Head(h2d).cmd = "CLSE" /\ d2h \in Seq(Packets)
      /\ h2d # <<>> /\ h2d \in Seq(Packets) /\ LastWords(h2d)
      /\ LastWords(h2d') /\ \A h \in Hids : Asks(h2d', h) => Asks(h2d, h)
      /\ \A j \in Ids : Head(h2d).cmd # "WRTE" \/ Head(h2d).arg1 # j => Deaf(h2d, h2d', j)
      /\ \A j \in Ids : Closes(h2d', j) => Closes(h2d, j)
  BY <1>4, Receives
<1>7. c = "none" /\ cause' = [cause EXCEPT ![i] = "host"]
  BY <1>4, <1>5 DEF Own, Because
<1>8. Moves(i, s, t, pk)
  BY <1>2, <1>4, <1>5, Closing
<1>9. Says(i, s, pk) /\ (\A k \in DOMAIN pk : pk[k].cmd # "WRTE")
  <2>1. Says(i, s, pk)
    BY <1>8, MovesSay
  <2>2. pk = <<>> \/ pk = <<Pkt("CLSE", 0, s.peer, <<>>)>>
    BY <1>2 DEF remote_socket_close
  <2> QED BY <2>1, <2>2 DEF Pkt
<1>10. ASSUME NEW j \in Ids, j # i
       PROVE  Turn(sock, d2h, h2d, host, prog, cause, sock', d2h', h2d', prog', cause', j)
  <2>1. sock'[j] = sock[j] /\ prog'[j] = prog[j] /\ cause'[j] = cause[j]
    BY <1>4, <1>5, <1>7, <1>10
  <2>2. Quiet(d2h, d2h', j)
    BY <1>4, <1>6, <1>9, <1>10, SaysView
  <2> QED BY <2>1, <2>2, <1>6, Unmoved
<1>11. Turn(sock, d2h, h2d, host, prog, cause, sock', d2h', h2d', prog', cause', i)
  <2> PICK y : y = prog'[i]
    OBVIOUS
  <2>1. /\ sock'[i] = t /\ cause'[i] = "host"
        /\ y.inb = p.inb /\ y.out = p.out /\ y.made = p.made /\ y.end = p.end
    BY <1>4, <1>5, <1>7 DEF Programs
  <2>2. s.st = "waiting" => s.queue = <<>>
    BY <1>5 DEF Watched
  <2>3. Kept(t, y) = Kept(s, p) /\ Stage(s, t) /\ t.st \in {"closing", "gone"}
    <3>1. /\ s \in LocalSockets /\ s.st \in {"smart", "waiting", "open"} /\ y.inb = p.inb
          /\ s.st \in {"smart", "waiting"} => s.queue = <<>>
      BY <2>1, <2>2, <1>4, <1>5
    <3>2. LET u == local_socket_close(s) IN
          Kept(u, y) = Kept(s, p) /\ Stage(s, u) /\ u.st \in {"closing", "gone"}
      BY ONLY <3>1, CloseKeeps
    <3> QED BY <3>2, <1>2
  <2>4. Fits(Head(h2d), "CLSE", Head(h2d).arg0, i)
    BY <1>4, <1>6 DEF Fits
  <2>5. Closes(h2d, i) /\ \A h \in Hids : Payload(h2d, h, i) = <<>>
    BY <2>4, <1>6, LastTaken
  <2>6. Quiet(d2h, d2h', i)
    <3>1. \A h \in Hids : Sends(d2h \o pk, i, h) => Sends(d2h, i, h)
      <4>1. CASE s.st = "open"
        <5>1. PICK k : k = Pkt("CLSE", 0, s.peer, <<>>)
          OBVIOUS
        <5>2. s.peer \in Hids
          BY <4>1, <1>5 DEF Watched, LocalSockets
        <5>3. k \in Packets /\ k.cmd = "CLSE"
          BY <5>1, <5>2, EmptySeq DEF Pkt, Packets, Cmds
        <5>4. pk = <<k>> /\ d2h \o pk = Append(d2h, k)
          BY <5>1, <5>3, <4>1, <1>2, <1>6, SendOne DEF remote_socket_close
        <5> QED BY <5>3, <5>4, <1>6, Spoken
      <4>2. CASE s.st # "open"
        BY <4>2, <1>6, <1>9, SaysView
      <4> QED BY <4>1, <4>2
    <3>2. Asks(d2h \o pk, i) => Asks(d2h, i)
      BY <1>4, <1>6, <1>9, SaysView
    <3>3. \A h \in Hids : Payload(d2h \o pk, i, h) = Payload(d2h, i, h)
      BY <1>6, <1>9, SaysView
    <3> QED BY <3>1, <3>2, <3>3, <1>4 DEF Quiet
  <2>7. /\ Stage(sock[i], sock'[i])
        /\ sock[i].st \in {"waiting", "open"} /\ sock'[i].st \in {"closing", "gone"}
        /\ Kept(sock'[i], prog'[i]) = Kept(sock[i], prog[i])
    BY <2>1, <2>3, <1>4
  <2>8. /\ prog'[i].out = prog[i].out /\ prog'[i].made = prog[i].made
        /\ prog'[i].end = "open" => prog[i].end = "open"
        /\ cause'[i] \notin {"none", "eof"} /\ cause'[i] = "host"
    BY <2>1
  <2>9. Closes(h2d', i) => Closes(h2d, i)
    BY <1>6
  <2> QED BY <2>5, <2>6, <2>7, <2>8, <2>9, Shuts
<1>12. \A j \in Ids : Turn(sock, d2h, h2d, host, prog, cause, sock', d2h', h2d', prog', cause', j)
  BY <1>10, <1>11
<1> QED BY <1>6, <1>12, DeviceMoves

\* What local_socket_enqueue does with the bytes of data.
Stores(i, s, data, r) ==
  /\ r.took = 0 /\ r.wrote \in Bytes /\ FlattenSeq(r.s.queue) \in Bytes
  /\ Says(i, s, r.pkts) /\ \A k \in DOMAIN r.pkts : r.pkts[k].cmd # "WRTE"
  /\ \/ /\ r.why = "none" /\ r.s.st = "open" /\ r.s.peer = s.peer
        /\ Cat(r.wrote, FlattenSeq(r.s.queue)) = Cat(FlattenSeq(s.queue), data)
     \/ r.why = "error" /\ r.s = Gone /\ s.queue = <<>> /\ r.wrote = <<>>

\* local_socket_enqueue writes or queues all of the data, or the socket closes.
LEMMA EnqueueBytes ==
  ASSUME prog \in [Ids -> Programs], NEW i \in Ids, NEW data \in Bytes,
         sock[i] \in LocalSockets, sock[i].st = "open", sock[i].peer \in Hids,
         Head(h2d).arg0 = sock[i].peer
  PROVE  Stores(i, sock[i], data, local_socket_enqueue(i, data))
<1> PICK s, h : s = sock[i] /\ h = sock[i].peer
  OBVIOUS
<1> PICK n : n = adb_write(i, data)
  OBVIOUS
<1> PICK r : r = local_socket_enqueue(i, data)
  OBVIOUS
<1>1. r = CASE s.queue = <<>> /\ Broken(i) -> Closed(s, "error")
            [] s.queue = <<>> /\ ~Broken(i) /\ n = Len(data) ->
                 [Nothing(s) EXCEPT !.wrote = data, !.pkts = send_ready(i, h)]
            [] s.queue = <<>> /\ ~Broken(i) /\ n < Len(data) ->
                 [Nothing(s) EXCEPT !.wrote = SubSeq(data, 1, n),
                                    !.s = watch_write([s EXCEPT !.queue = <<rest(data, n)>>])]
            [] OTHER -> [Nothing(s) EXCEPT !.s = watch_write([s EXCEPT !.queue = Append(@, data)])]
  BY DEF local_socket_enqueue
<1>2. data \in Seq(Nat) /\ n \in 0..Len(data)
  BY Written DEF Bytes
<1>3. /\ SubSeq(data, 1, n) \in Bytes /\ rest(data, n) \in Bytes
      /\ data = Cat(SubSeq(data, 1, n), rest(data, n))
  BY <1>2, Cut DEF rest
<1>4. s \in LocalSockets /\ s.st = "open" /\ s.peer = h /\ h \in Hids /\ s.queue \in Seq(Seq(Nat))
  BY DEF LocalSockets
<1>f. ~(n = Len(data) /\ n < Len(data)) /\ (n = Len(data) \/ n < Len(data))
  <2>1. PICK k \in Nat : k = Len(data)
    BY <1>2, Shape
  <2> QED BY <2>1, <1>2
<1>e. /\ FlattenSeq(<<>>) = <<>> /\ <<>> \in Bytes /\ Says(i, s, <<>>) /\ DOMAIN <<>> = {}
      /\ Cat(<<>>, data) = data /\ Cat(data, <<>>) = data
  <2>1. FlattenSeq(<<>>) = <<>>
    BY FlatOne
  <2> QED BY <2>1, Join DEF Says
\* A socket with a queue.
<1>w. ASSUME NEW q
      PROVE  LET t == watch_write([s EXCEPT !.queue = q]) IN
             t.st = "open" /\ t.peer = h /\ t.queue = q
  BY <1>4 DEF watch_write, LocalSockets
<1>5. CASE s.queue = <<>> /\ Broken(i)
  <2>1. r = Closed(s, "error")
    BY <1>1, <1>5
  <2>2. PICK t, pk, d : t = local_socket_close(s) /\ pk = remote_socket_close(s) /\ d = close_told(s)
    OBVIOUS
  <2>3. /\ r.s = t /\ r.pkts = pk /\ r.why = "error" /\ r.took = 0 /\ r.wrote = <<>>
    BY <2>1, <2>2 DEF Closed, Nothing
  <2>4. t = Gone /\ Gone.queue = <<>>
    BY <2>2, <1>5, Blank DEF local_socket_close
  <2>5. PICK k : k = Pkt("CLSE", 0, h, <<>>)
    OBVIOUS
  <2>6. k \in Packets /\ k.cmd = "CLSE" /\ pk = <<k>>
    BY <2>2, <2>5, <1>4, EmptySeq DEF Pkt, Packets, Cmds, remote_socket_close
  <2>7. Says(i, s, pk) /\ \A x \in DOMAIN pk : pk[x].cmd # "WRTE"
    BY <2>6 DEF Says
  <2> QED BY <2>3, <2>4, <2>7, <1>5, <1>e DEF Stores
<1>6. CASE s.queue = <<>> /\ ~Broken(i) /\ n = Len(data)
  <2>1. r = [Nothing(s) EXCEPT !.wrote = data, !.pkts = send_ready(i, h)]
    BY <1>1, <1>6, <1>f
  <2>2. PICK k : k = Pkt("OKAY", i, h, <<>>)
    OBVIOUS
  <2>3. r.s = s /\ r.pkts = <<k>> /\ r.why = "none" /\ r.took = 0 /\ r.wrote = data
    BY <2>1, <2>2 DEF Nothing, send_ready
  <2>4. k \in Packets /\ k.cmd = "OKAY" /\ k.arg0 = i /\ k.arg1 = h
    BY <2>2, <1>4, EmptySeq DEF Pkt, Packets, Cmds
  <2>5. Says(i, s, <<k>>) /\ \A x \in DOMAIN <<k>> : <<k>>[x].cmd # "WRTE"
    BY <2>4, <1>4 DEF Says
  <2> QED BY <2>3, <2>5, <1>4, <1>6, <1>e DEF Stores
<1>7. CASE s.queue = <<>> /\ ~Broken(i) /\ n < Len(data)
  <2>1. PICK q : q = <<rest(data, n)>>
    OBVIOUS
  <2>2. PICK t : t = watch_write([s EXCEPT !.queue = q])
    OBVIOUS
  <2>3. r = [Nothing(s) EXCEPT !.wrote = SubSeq(data, 1, n), !.s = t]
    BY <1>1, <1>7, <1>f, <2>1, <2>2
  <2>4. r.s = t /\ r.pkts = <<>> /\ r.why = "none" /\ r.took = 0 /\ r.wrote = SubSeq(data, 1, n)
    BY <2>3 DEF Nothing
  <2>5. FlattenSeq(q) = rest(data, n)
    BY <2>1, <1>3, FlatOne DEF Bytes
  <2>6. t.st = "open" /\ t.peer = h /\ t.queue = q
    BY <2>2, <1>w
  <2> QED BY <2>4, <2>5, <2>6, <1>3, <1>7, <1>e DEF Stores
<1>8. CASE s.queue # <<>>
  <2>1. PICK q : q = Append(s.queue, data)
    OBVIOUS
  <2>2. PICK t : t = watch_write([s EXCEPT !.queue = q])
    OBVIOUS
  <2>3. r = [Nothing(s) EXCEPT !.s = t]
    BY <1>1, <1>4, <1>8, <2>1, <2>2 DEF LocalSockets
  <2>4. r.s = t /\ r.pkts = <<>> /\ r.why = "none" /\ r.took = 0 /\ r.wrote = <<>>
    BY <2>3 DEF Nothing
  <2>5. PICK f \in Bytes : f = FlattenSeq(s.queue)
    BY <1>4, FlattenType DEF Bytes
  <2>6. FlattenSeq(q) = Cat(f, data)
    BY <2>1, <2>5, <1>2, <1>4, FlatAppend DEF Cat
  <2>7. t.st = "open" /\ t.peer = h /\ t.queue = q
    BY <2>2, <1>w
  <2>8. Cat(f, data) \in Bytes /\ Cat(<<>>, Cat(f, data)) = Cat(f, data)
    BY ONLY f \in Bytes, data \in Bytes, Join
  <2> QED BY <2>4, <2>5, <2>6, <2>7, <2>8, <1>e DEF Stores
<1>9. Stores(i, s, data, r)
  BY <1>5, <1>6, <1>7, <1>8, <1>f
<1> QED BY <1>9

\* handle_packet of a WRTE keeps the bytes.
LEMMA WrteBytes == ASSUME IInv, IInv', BInv, handle_WRTE PROVE BInv'
<1> PICK g, data : g = Head(h2d).arg0 /\ data = Head(h2d).data
  OBVIOUS
<1>1. PICK i \in Ids :
        LET r == local_socket_enqueue(i, Head(h2d).data)
        IN  /\ receive("WRTE")
            /\ find_local_socket(Head(h2d).arg1, i) /\ Known(i)
            /\ sock' = [sock EXCEPT ![i] = r.s]
            /\ d2h' = d2h \o r.pkts
            /\ prog' = [prog EXCEPT ![i] = Served(i, r)]
            /\ cause' = IF r.why # "none" THEN Because(i, r.why) ELSE cause
  BY DEF handle_WRTE
<1> PICK s, p, c : s = sock[i] /\ p = prog[i] /\ c = cause[i]
  OBVIOUS
<1> PICK r : r = local_socket_enqueue(i, data)
  OBVIOUS
<1> PICK t, y : t = r.s /\ y = Served(i, r)
  OBVIOUS
<1>2. /\ receive("WRTE") /\ Head(h2d).arg1 = i /\ s.st \in {"waiting", "open"}
      /\ sock' = [sock EXCEPT ![i] = t] /\ d2h' = d2h \o r.pkts
      /\ prog' = [prog EXCEPT ![i] = y]
      /\ cause' = IF r.why # "none" THEN Because(i, r.why) ELSE cause
  BY <1>1 DEF find_local_socket, Known
<1>3. /\ sock \in [Ids -> LocalSockets] /\ prog \in [Ids -> Programs] /\ s \in LocalSockets
      /\ cause \in [Ids -> Whys] /\ p \in Programs
      /\ Watched(s, batch[i]) /\ Own(s, p, c, Asks(d2h, i))
      /\ WireInv(sock, d2h, h2d, host, nextid)
  BY DEF IInv, Others, Local, WireInv, WireType, BInv, Streams
<1>4. /\ host' = host /\ session' = session /\ Head(h2d).cmd = "WRTE" /\ d2h \in Seq(Packets)
      /\ h2d # <<>> /\ h2d \in Seq(Packets) /\ Head(h2d) \in Packets /\ h2d' = Tail(h2d)
      /\ LastWords(h2d') /\ \A h \in Hids : Asks(h2d', h) => Asks(h2d, h)
      /\ \A j \in Ids : Head(h2d).cmd # "WRTE" \/ Head(h2d).arg1 # j => Deaf(h2d, h2d', j)
      /\ \A j \in Ids : Closes(h2d', j) => Closes(h2d, j)
  BY <1>2, Receives
<1>5. g \in Hids /\ data \in Bytes
  BY <1>2, <1>4, Fetch DEF Packets, Bytes
<1>6. s.st = "open" /\ s.peer = g
  <2>1. sock[i].st = "open" => sock[i].peer \in Hids
    BY <1>3 DEF Watched, LocalSockets
  <2>2. Head(h2d).cmd \in {"OKAY", "WRTE"} /\ Head(h2d).arg0 = g /\ Head(h2d).arg1 = i
    BY <1>2, <1>4
  <2>3. (sock[i].st = "open" => Linked(sock, i, g)) /\ (Head(h2d).cmd = "WRTE" => sock[i].st # "waiting")
    BY <2>1, <2>2, <1>3, <1>4, <1>5, SamePeer
  <2> QED BY <2>3, <1>2, <1>4 DEF Linked
<1>7. Stores(i, s, data, r)
  <2>1. /\ sock[i] \in LocalSockets /\ sock[i].st = "open" /\ sock[i].peer \in Hids
        /\ Head(h2d).arg0 = sock[i].peer
    BY <1>3, <1>5, <1>6
  <2>2. Stores(i, sock[i], data, local_socket_enqueue(i, data))
    BY <2>1, <1>3, <1>5, EnqueueBytes
  <2> QED BY <2>2
<1>8. ASSUME NEW j \in Ids, j # i
      PROVE  Turn(sock, d2h, h2d, host, prog, cause, sock', d2h', h2d', prog', cause', j)
  <2>1. sock'[j] = sock[j] /\ prog'[j] = prog[j] /\ cause'[j] = cause[j]
    BY <1>2, <1>3, <1>8 DEF Because
  <2>2. Quiet(d2h, d2h', j)
    BY <1>2, <1>4, <1>7, <1>8, SaysView DEF Stores
  <2> QED BY <2>1, <2>2, <1>2, <1>4, <1>8, Unmoved
<1>9. Turn(sock, d2h, h2d, host, prog, cause, sock', d2h', h2d', prog', cause', i)
  <2> PICK d : d = cause'[i]
    OBVIOUS
  <2>1. sock'[i] = t /\ prog'[i] = y
    BY <1>2, <1>3
  <2>2. r.took = 0 /\ r.wrote \in Bytes /\ FlattenSeq(t.queue) \in Bytes
    BY <1>7 DEF Stores
  <2>3. /\ y.inb = Cat(p.inb, r.wrote) /\ y.made = p.made /\ y.end = p.end
        /\ y.out = SubSeq(p.out, r.took + 1, Len(p.out))
    <3>1. r.took \in Nat
      BY <2>2
    <3> QED BY <3>1, <2>2, <1>3, <1>6, ServedBytes
  <2>4. y.out = p.out
    <3>1. p.out \in Bytes /\ 0 \in 0..Len(p.out)
      BY <1>3, KeptType, Shape DEF Bytes
    <3>2. SubSeq(p.out, 0 + 1, Len(p.out)) = p.out
      BY ONLY <3>1, Cut
    <3> QED BY <3>2, <2>2, <2>3
  <2>5. c = "none"
    BY <1>3, <1>6 DEF Own
  <2>6. /\ \A h \in Hids : Sends(d2h', i, h) => Sends(d2h, i, h) \/ (s.st = "open" /\ s.peer = h)
        /\ Asks(d2h', i) => Asks(d2h, i)
        /\ \A h \in Hids : Payload(d2h', i, h) = Payload(d2h, i, h)
    <3>1. PICK pk, e : pk = r.pkts /\ e = d2h
      OBVIOUS
    <3>2. /\ Says(i, s, pk) /\ (\A k \in DOMAIN pk : pk[k].cmd # "WRTE") /\ e \in Seq(Packets)
          /\ s.st # "smart" /\ d2h' = e \o pk
      BY <3>1, <1>2, <1>4, <1>6, <1>7 DEF Stores
    <3>3. /\ \A h \in Hids : Sends(e \o pk, i, h) => Sends(e, i, h) \/ (s.st = "open" /\ s.peer = h)
          /\ Asks(e \o pk, i) => Asks(e, i) \/ s.st = "smart"
          /\ \A h \in Hids : Payload(e \o pk, i, h) = Payload(e, i, h)
      BY ONLY <3>2, i \in Ids, SaysView
    <3> QED BY ONLY <3>1, <3>2, <3>3
  <2>7. Rests(d2h, d2h', p, y, i)
    BY <2>3, <2>4, <2>6 DEF Rests
  <2>8. Gives(sock, d2h, d2h', s, p, y, i)
    BY <2>7 DEF Gives
  <2>9. PICK A \in Bytes : A = Payload(h2d', g, i) /\ Payload(h2d, g, i) = Cat(data, A)
    <3>1. Fits(Head(h2d), "WRTE", g, i)
      BY <1>2, <1>4 DEF Fits
    <3> QED BY <3>1, <1>4, PayTaken
  <2>10. PICK b \in Bytes, f \in Bytes : b = p.inb /\ f = FlattenSeq(s.queue) /\ Kept(s, p) = Cat(b, f)
    BY <1>3, KeptType DEF Kept
  <2>11. CASE /\ r.why = "none" /\ t.st = "open" /\ t.peer = s.peer
              /\ Cat(r.wrote, FlattenSeq(t.queue)) = Cat(f, data)
    <3>1. PICK w \in Bytes, e \in Bytes : w = r.wrote /\ e = FlattenSeq(t.queue)
      BY <2>2
    <3>2. Kept(t, y) = Cat(Cat(b, w), e)
      BY <3>1, <2>3, <2>10 DEF Kept
    <3>3. Cat(Cat(b, w), e) = Cat(b, Cat(w, e)) /\ Cat(Cat(b, f), data) = Cat(b, Cat(f, data))
      <4>1. Cat(Cat(b, w), e) = Cat(b, Cat(w, e))
        BY ONLY b \in Bytes, w \in Bytes, e \in Bytes, Join
      <4>2. Cat(Cat(b, f), data) = Cat(b, Cat(f, data))
        BY ONLY b \in Bytes, f \in Bytes, <1>5, Join
      <4> QED BY <4>1, <4>2
    <3>4. Kept(t, y) = Cat(Kept(s, p), data)
      BY <3>1, <3>2, <3>3, <2>10, <2>11
    <3>5. Linked(sock, i, g) /\ \A h \in Hids : Linked(sock', i, h) => Linked(sock, i, h)
      BY <2>1, <2>11, <1>6 DEF Linked
    <3>6. Gets(sock, h2d, h2d', s, t, p, y, i)
      <4>1. Payload(h2d, g, i) = Cat(data, Payload(h2d', g, i))
        BY <2>9
      <4> QED BY <4>1, <3>4, <3>5, <1>5 DEF Gets
    <3>7. Ties(sock, d2h, h2d, host, sock', d2h', h2d', i)
      BY <3>5, <2>6, <1>4 DEF Ties, Joint, Linked
    <3>8. d = "none"
      BY <2>5, <2>11, <1>2
    <3>9. Reason(d2h, d2h', h2d, s, t, p, y, c, d, i)
      BY <3>8, <2>3, <2>11 DEF Reason
    <3>10. Stage(s, t)
      BY <2>11, <1>6 DEF Stage
    <3> QED BY <3>6, <3>7, <3>9, <3>10, <2>1, <2>8, <1>6 DEF Turn
  <2>12. CASE r.why = "error" /\ t = Gone /\ s.queue = <<>> /\ r.wrote = <<>>
    <3>1. d = "error"
      BY <2>5, <2>12, <1>2, <1>3 DEF Because
    <3>2. Cat(b, <<>>) = b
      BY ONLY b \in Bytes, Join
    <3>3. Kept(t, y) = Kept(s, p)
      BY <3>2, <2>3, <2>10, <2>12, Blank DEF Kept
    <3>4. Stage(s, t) /\ t.st = "gone"
      BY <2>12, <1>6, Blank DEF Stage
    <3>5. Gets(sock, h2d, h2d', s, t, p, y, i)
      BY <3>3, <3>4 DEF Gets
    <3>6. \A h \in Hids : ~Linked(sock', i, h)
      BY <3>4, <2>1 DEF Linked
    <3>7. Ties(sock, d2h, h2d, host, sock', d2h', h2d', i)
      BY <3>6, <2>6, <1>4 DEF Ties, Linked
    <3>8. Reason(d2h, d2h', h2d, s, t, p, y, c, d, i)
      BY <3>1, <3>4, <2>3 DEF Reason
    <3> QED BY <3>4, <3>5, <3>7, <3>8, <2>1, <2>8, <1>6 DEF Turn
  <2> QED BY <2>10, <2>11, <2>12, <1>7 DEF Stores
<1>10. \A j \in Ids : Turn(sock, d2h, h2d, host, prog, cause, sock', d2h', h2d', prog', cause', j)
  BY <1>8, <1>9
<1> QED BY <1>4, <1>10, DeviceMoves

-----------------------------------------------------------------------------
(* local_socket_event_func: it writes the queue, then it reads.            *)

\* No data among the packets.
NoData(pk) == \A k \in DOMAIN pk : pk[k].cmd # "WRTE"

\* What a function of socket s does to the bytes: the host's are kept, or what
\* is left of them is dropped, for the program does not stay; the program's are
\* not touched, or sent, or dropped, for the stream is closed.
Spares(s, t, p, y) ==
  \/ Kept(t, y) = Kept(s, p)
  \/ /\ t.st \notin {"waiting", "open"} /\ y.end # "open"
     /\ \E z \in Bytes : Kept(s, p) = Cat(Kept(t, y), z)
Emits(i, s, p, y, pk) ==
  /\ y.made = p.made
  /\ \/ NoData(pk) /\ (y.out = p.out \/ s.st = "closing")
     \/ \E data \in Bytes :
          /\ s.st = "open" /\ pk = <<Pkt("WRTE", i, s.peer, data)>> /\ p.out = Cat(data, y.out)
Motive(s, t, p, y, c, d, pk) ==
  /\ d = "none" <=> t.st \in {"none", "smart", "waiting", "open"}
  /\ y.end = p.end
  /\ d = "eof" /\ c # "eof" =>
       s.st \in {"smart", "waiting", "open"} /\ y.end # "open" /\ p.out = <<>> /\ y.out = <<>> /\ NoData(pk)
  /\ d = "host" => c = "host"
Does(i, s, t, p, y, c, d, pk) ==
  /\ s.st # "none" /\ Stage(s, t) /\ Moves(i, s, t, pk)
  /\ Spares(s, t, p, y) /\ Emits(i, s, p, y, pk) /\ Motive(s, t, p, y, c, d, pk)

\* The state of the streams, with all that it needs.
Sound(sk, dq, hq, ho, nx, pr, ca, lost) ==
  /\ WireInv(sk, dq, hq, ho, nx) /\ Peers(sk)
  /\ pr \in [Ids -> Programs] /\ ca \in [Ids -> Whys]
  /\ Streams(sk, dq, hq, ho, pr, ca, lost)

\* It survives what a function of one socket does.
LEMMA OneTurn ==
  ASSUME NEW sk, NEW dq, NEW hq, NEW ho, NEW nx, NEW pr, NEW ca, NEW lost,
         Sound(sk, dq, hq, ho, nx, pr, ca, lost),
         NEW i \in Ids, NEW t \in LocalSockets, NEW y \in Programs, NEW d \in Whys, NEW pk,
         Does(i, sk[i], t, pr[i], y, ca[i], d, pk)
  PROVE  Sound([sk EXCEPT ![i] = t], dq \o pk, hq, ho, nx,
               [pr EXCEPT ![i] = y], [ca EXCEPT ![i] = d], lost)
<1> PICK s, p, c : s = sk[i] /\ p = pr[i] /\ c = ca[i]
  OBVIOUS
<1>1. PICK sk2, dq2, pr2, ca2 :
        /\ sk2 = [sk EXCEPT ![i] = t] /\ dq2 = dq \o pk
        /\ pr2 = [pr EXCEPT ![i] = y] /\ ca2 = [ca EXCEPT ![i] = d]
  OBVIOUS
<1>2. /\ WireInv(sk, dq, hq, ho, nx) /\ Peers(sk)
      /\ pr \in [Ids -> Programs] /\ ca \in [Ids -> Whys]
      /\ Streams(sk, dq, hq, ho, pr, ca, lost) /\ LastWords(hq)
  BY DEF Sound, Streams
<1>3. sk \in [Ids -> LocalSockets] /\ dq \in Seq(Packets) /\ hq \in Seq(Packets)
  BY <1>2 DEF WireInv, WireType
<1>4. /\ sk2[i] = t /\ pr2[i] = y /\ ca2[i] = d
      /\ pr2 \in [Ids -> Programs] /\ ca2 \in [Ids -> Whys]
      /\ \A j \in Ids : j # i => sk2[j] = sk[j] /\ pr2[j] = pr[j] /\ ca2[j] = ca[j]
  BY <1>1, <1>2, <1>3
<1>5. /\ s.st # "none" /\ Stage(s, t) /\ Moves(i, s, t, pk)
      /\ Spares(s, t, p, y) /\ Emits(i, s, p, y, pk) /\ Motive(s, t, p, y, c, d, pk)
  BY DEF Does
<1>6. WireInv(sk2, dq2, hq, ho, nx)
  <2>1. Moves(i, sk[i], t, pk)
    BY <1>5
  <2>2. WireInv([sk EXCEPT ![i] = t], dq \o pk, hq, ho, nx)
    BY ONLY <2>1, <1>2, i \in Ids, t \in LocalSockets, Moved
  <2> QED BY <2>2, <1>1
<1>7. t.st = "open" => s.st = "open" /\ t.peer = s.peer
  BY <1>5 DEF Moves, Alike, Off, Stays
<1>8. Peers(sk2)
  BY <1>2, <1>4, <1>7 DEF Peers
<1>9. Says(i, s, pk)
  BY <1>5, MovesSay
<1>10. /\ \A j \in Ids : j # i => Quiet(dq, dq2, j)
       /\ \A h \in Hids : Sends(dq2, i, h) => Sends(dq, i, h) \/ (s.st = "open" /\ s.peer = h)
       /\ Asks(dq2, i) => Asks(dq, i) \/ s.st = "smart"
       /\ NoData(pk) => \A h \in Hids : Payload(dq2, i, h) = Payload(dq, i, h)
  <2>1. /\ \A j \in Ids : j # i => Quiet(dq, dq \o pk, j)
        /\ \A h \in Hids : Sends(dq \o pk, i, h) => Sends(dq, i, h) \/ (s.st = "open" /\ s.peer = h)
        /\ Asks(dq \o pk, i) => Asks(dq, i) \/ s.st = "smart"
        /\ (\A k \in DOMAIN pk : pk[k].cmd # "WRTE") =>
              \A h \in Hids : Payload(dq \o pk, i, h) = Payload(dq, i, h)
    BY ONLY <1>3, <1>9, i \in Ids, SaysView
  <2> QED BY <2>1, <1>1 DEF NoData
<1>11. ASSUME NEW j \in Ids, j # i
       PROVE  Turn(sk, dq, hq, ho, pr, ca, sk2, dq2, hq, pr2, ca2, j)
  <2>1. /\ sk2[j] = sk[j] /\ ca2[j] = ca[j]
        /\ pr2[j].inb = pr[j].inb /\ pr2[j].out = pr[j].out /\ pr2[j].made = pr[j].made
        /\ pr2[j].end = "open" => pr[j].end = "open"
    BY <1>4, <1>11
  <2>2. /\ Quiet(dq, dq2, j) /\ (Closes(hq, j) => Closes(hq, j))
        /\ sk[j].st \in {"waiting", "open"} => Deaf(hq, hq, j)
    BY <1>10, <1>11, SameQueue
  <2> QED BY ONLY <2>1, <2>2, <1>2, j \in Ids, Still
<1>12. Turn(sk, dq, hq, ho, pr, ca, sk2, dq2, hq, pr2, ca2, i)
  <2>1. Ties(sk, dq, hq, ho, sk2, dq2, hq, i)
    BY <1>4, <1>7, <1>10 DEF Ties, Joint, Linked
  <2>2. Gets(sk, hq, hq, s, t, p, y, i)
    BY <1>5 DEF Gets, Spares
  <2>3. Gives(sk, dq, dq2, s, p, y, i)
    <3>1. CASE NoData(pk) /\ (y.out = p.out \/ s.st = "closing")
      BY <3>1, <1>5, <1>10 DEF Gives, Rests, Emits
    <3>2. ASSUME NEW data \in Bytes, s.st = "open", pk = <<Pkt("WRTE", i, s.peer, data)>>,
                 p.out = Cat(data, y.out), y.made = p.made
          PROVE  Gives(sk, dq, dq2, s, p, y, i)
      <4>1. PICK h \in Hids : h = s.peer /\ Linked(sk, i, h)
        BY <3>2, <1>2 DEF Peers, Linked
      <4>2. PICK k : k = Pkt("WRTE", i, h, data)
        OBVIOUS
      <4>3. k \in Packets /\ Fits(k, "WRTE", i, h) /\ k.data = data
        BY <4>2 DEF Pkt, Packets, Cmds, Fits, Bytes
      <4>4. dq2 = Append(dq, k)
        <5>1. dq \o <<k>> = Append(dq, k)
          BY <4>3, <1>3, SendOne
        <5> QED BY <5>1, <4>1, <4>2, <3>2, <1>1
      <4>5. Payload(dq2, i, h) = Cat(Payload(dq, i, h), data)
        BY <4>3, <4>4, <1>3, PaySent
      <4> QED BY <4>1, <4>5, <3>2 DEF Gives
    <3> QED BY <3>1, <3>2, <1>5 DEF Emits
  <2>4. Reason(dq, dq2, hq, s, t, p, y, c, d, i)
    BY <1>5, <1>10 DEF Reason, Motive, Emits, Rests
  <2> QED BY <2>1, <2>2, <2>3, <2>4, <1>4, <1>5 DEF Turn
<1>13. \A j \in Ids : Turn(sk, dq, hq, ho, pr, ca, sk2, dq2, hq, pr2, ca2, j)
  BY <1>11, <1>12
<1>14. \A h \in Hids : Asks(hq, h) => Asks(hq, h)
  OBVIOUS
<1>15. Streams(sk2, dq2, hq, ho, pr2, ca2, lost)
  <2>1. pr2 \in [Ids -> Programs]
    BY <1>4
  <2> QED BY ONLY <1>2, <1>6, <1>8, <1>13, <1>14, <2>1, DeviceStep
<1> QED BY <1>1, <1>4, <1>6, <1>8, <1>15 DEF Sound

\* The same in a state, with socket i, its packets, its program and its cause.
In(i, s, q, p, c) ==
  Sound([sock EXCEPT ![i] = s], q, h2d, host, nextid, [prog EXCEPT ![i] = p],
        [cause EXCEPT ![i] = c], session = "lost")

\* One function of socket i after another.
LEMMA NextTurn ==
  ASSUME sock \in [Ids -> LocalSockets], prog \in [Ids -> Programs], cause \in [Ids -> Whys],
         NEW i \in Ids, NEW s, NEW q, NEW p, NEW c, In(i, s, q, p, c),
         NEW t \in LocalSockets, NEW y \in Programs, NEW d \in Whys, NEW pk,
         Does(i, s, t, p, y, c, d, pk)
  PROVE  In(i, t, q \o pk, y, d)
<1>1. PICK sk, pr, ca, lost :
        /\ sk = [sock EXCEPT ![i] = s] /\ pr = [prog EXCEPT ![i] = p]
        /\ ca = [cause EXCEPT ![i] = c] /\ lost = (session = "lost")
  OBVIOUS
<1>2. Sound(sk, q, h2d, host, nextid, pr, ca, lost)
  BY <1>1 DEF In
<1>3. sk[i] = s /\ pr[i] = p /\ ca[i] = c
  BY <1>1
<1>4. Does(i, sk[i], t, pr[i], y, ca[i], d, pk)
  BY <1>3
<1>5. Sound([sk EXCEPT ![i] = t], q \o pk, h2d, host, nextid,
            [pr EXCEPT ![i] = y], [ca EXCEPT ![i] = d], lost)
  BY ONLY <1>2, <1>4, i \in Ids, t \in LocalSockets, y \in Programs, d \in Whys, OneTurn
<1>6. /\ [sk EXCEPT ![i] = t] = [sock EXCEPT ![i] = t] /\ [pr EXCEPT ![i] = y] = [prog EXCEPT ![i] = y]
      /\ [ca EXCEPT ![i] = d] = [cause EXCEPT ![i] = d]
  BY <1>1
<1> QED BY <1>1, <1>5, <1>6 DEF In

\* Why a socket is closed, if it was open until now.
After(c, why) == IF c = "none" THEN why ELSE c

\* local_socket_close, as the bytes see it.
LEMMA CloseDoes ==
  ASSUME NEW i \in Ids, NEW s \in LocalSockets, NEW b, Watched(s, b),
         s.st \in {"smart", "waiting", "open", "closing"},
         NEW p \in Programs, NEW y \in Programs,
         y.inb = p.inb, y.out = p.out, y.made = p.made, y.end = p.end,
         NEW c, c = "none" <=> s.st \in {"none", "smart", "waiting", "open"},
         NEW why, why \in {"error", "eof"},
         s.st = "closing" => p.end # "open",
         why = "eof" => p.end # "open" /\ (s.st # "closing" => p.out = <<>>)
  PROVE  Does(i, s, local_socket_close(s), p, y, c, After(c, why), remote_socket_close(s))
<1> PICK t, pk, d : t = local_socket_close(s) /\ pk = remote_socket_close(s) /\ d = After(c, why)
  OBVIOUS
<1>1. t \in LocalSockets /\ t.st \in {"closing", "gone"} /\ Moves(i, s, t, pk)
  BY Closing
<1>2. NoData(pk)
  <2>1. CASE s.st = "open"
    <3>1. PICK k : k = Pkt("CLSE", 0, s.peer, <<>>)
      OBVIOUS
    <3>2. k.cmd = "CLSE" /\ pk = <<k>>
      BY <2>1, <3>1 DEF remote_socket_close, Pkt
    <3> QED BY <3>2 DEF NoData
  <2>2. CASE s.st # "open"
    <3>1. pk = <<>>
      BY <2>2 DEF remote_socket_close
    <3> QED BY <3>1 DEF NoData
  <2> QED BY <2>1, <2>2
<1>3. Emits(i, s, p, y, pk)
  BY <1>2 DEF Emits
<1>4. /\ d # "none" /\ (d = "host" => c = "host")
      /\ d = "eof" /\ c # "eof" => why = "eof" /\ s.st # "closing"
  BY DEF After
<1>5. Motive(s, t, p, y, c, d, pk)
  BY <1>1, <1>2, <1>4 DEF Motive
<1>6. Spares(s, t, p, y) /\ Stage(s, t) /\ s.st # "none"
  <2>1. CASE s.st # "closing"
    <3>1. s.st \in {"smart", "waiting", "open"} /\ (s.st \in {"smart", "waiting"} => s.queue = <<>>)
      BY <2>1 DEF Watched
    <3>2. Kept(t, y) = Kept(s, p) /\ Stage(s, t)
      BY <3>1, CloseKeeps
    <3> QED BY <3>1, <3>2 DEF Spares
  <2>2. CASE s.st = "closing"
    <3>1. t = Gone /\ Gone.queue = <<>> /\ Gone.st = "gone"
      BY <2>2, Blank DEF local_socket_close
    <3>2. PICK x \in Bytes, z \in Bytes : x = p.inb /\ z = FlattenSeq(s.queue) /\ Kept(s, p) = Cat(x, z)
      BY KeptType DEF Kept
    <3>3. FlattenSeq(<<>>) = <<>>
      BY FlatOne
    <3>4. Kept(t, y) = x
      <4>1. Cat(x, <<>>) = x
        BY ONLY x \in Bytes, Join
      <4> QED BY <4>1, <3>1, <3>2, <3>3 DEF Kept
    <3> QED BY <3>1, <3>2, <3>4, <2>2 DEF Spares, Stage
  <2> QED BY <2>1, <2>2
<1>7. Does(i, s, t, p, y, c, d, pk)
  BY <1>1, <1>3, <1>5, <1>6 DEF Does
<1> QED BY <1>7

\* Some of the queue, or all of it, goes to the program.
LEMMA Passes ==
  ASSUME NEW s \in LocalSockets, NEW t \in LocalSockets, NEW p \in Programs, NEW y \in Programs,
         NEW w \in Bytes, y.inb = Cat(p.inb, w),
         FlattenSeq(s.queue) = Cat(w, FlattenSeq(t.queue))
  PROVE  Kept(t, y) = Kept(s, p)
<1> PICK x \in Bytes, f \in Bytes : x = p.inb /\ f = FlattenSeq(t.queue)
  BY KeptType
<1>1. Cat(Cat(x, w), f) = Cat(x, Cat(w, f))
  BY ONLY x \in Bytes, w \in Bytes, f \in Bytes, Join
<1> QED BY <1>1 DEF Kept

\* local_socket_event_func on FDE_WRITE, as the bytes see it.
LEMMA WriteDoes ==
  ASSUME TypeOK, Local, NEW i \in Ids, W \in batch[i], NEW c,
         c = "none" <=> sock[i].st \in {"none", "smart", "waiting", "open"},
         NEW w, w = event_write(i), NEW p, p = prog[i], NEW y \in Programs,
         y.inb = Cat(p.inb, w.wrote), y.out = p.out, y.made = p.made, y.end = p.end
  PROVE  /\ Does(i, sock[i], w.s, p, y, c, After(c, w.why), w.pkts)
         /\ w.why # "none" => w.ret
<1> PICK s : s = sock[i]
  OBVIOUS
<1> PICK all : all = FlattenSeq(s.queue)
  OBVIOUS
<1> PICK n : n = adb_write(i, all)
  OBVIOUS
<1>1. s \in LocalSockets /\ Watched(s, batch[i]) /\ prog \in [Ids -> Programs] /\ p \in Programs
  BY DEF TypeOK, Local
<1>2. s.queue # <<>> /\ s.st \in {"open", "closing"} /\ (s.st = "open" => s.peer \in Hids)
  BY <1>1 DEF Watched, LocalSockets
<1>3. /\ w.s \in LocalSockets /\ Moves(i, s, w.s, w.pkts) /\ w.wrote \in Bytes
  BY WriteEvent DEF Bytes
<1>4. all \in Bytes /\ all \in Seq(Nat)
  BY <1>1, KeptType DEF Bytes
<1>5. n \in 0..Len(all)
  BY <1>1, <1>4, Written
<1>6. /\ SubSeq(all, 1, n) \in Bytes /\ rest(all, n) \in Bytes
      /\ all = Cat(SubSeq(all, 1, n), rest(all, n))
  BY <1>4, <1>5, Cut DEF rest
<1>e. FlattenSeq(<<>>) = <<>> /\ <<>> \in Bytes /\ Cat(all, <<>>) = all
  <2>1. FlattenSeq(<<>>) = <<>>
    BY FlatOne
  <2>2. <<>> \in Bytes /\ Cat(all, <<>>) = all
    BY ONLY <1>4, Join
  <2> QED BY <2>1, <2>2
<1>7. CASE Broken(i)
  <2>1. w = Closed(s, "error")
    BY <1>2, <1>7 DEF event_write
  <2>2. PICK t, pk, d : t = local_socket_close(s) /\ pk = remote_socket_close(s) /\ d = close_told(s)
    OBVIOUS
  <2>3. w.s = t /\ w.pkts = pk /\ w.wrote = <<>> /\ w.why = "error" /\ w.ret = TRUE
    BY <2>1, <2>2 DEF Closed, Nothing
  <2>4. p.end = "closed" /\ y.inb = p.inb
    <3>1. PICK x \in Bytes : x = p.inb
      BY <1>1, KeptType
    <3>2. Cat(x, <<>>) = x
      BY ONLY x \in Bytes, Join
    <3> QED BY <3>1, <3>2, <2>3, <1>7 DEF Broken
  <2>5. s.st \in {"smart", "waiting", "open", "closing"} /\ (s.st = "closing" => p.end # "open")
    BY <2>4, <1>2
  <2>6. Does(i, s, t, p, y, c, After(c, "error"), pk)
    BY <2>2, <2>4, <2>5, <1>1, CloseDoes
  <2> QED BY <2>3, <2>6
<1>8. CASE ~Broken(i) /\ n < Len(all)
  <2>1. PICK q : q = <<rest(all, n)>>
    OBVIOUS
  <2>2. PICK t : t = [s EXCEPT !.queue = q]
    OBVIOUS
  <2>3. w = [Nothing(s) EXCEPT !.s.queue = q, !.wrote = SubSeq(all, 1, n), !.ret = TRUE]
    BY <1>8, <2>1 DEF event_write
  <2>4. w.s = t /\ w.pkts = <<>> /\ w.wrote = SubSeq(all, 1, n) /\ w.why = "none" /\ w.ret = TRUE
    BY <2>2, <2>3 DEF Nothing
  <2>5. t.st = s.st /\ t.queue = q
    BY <2>2, <1>1 DEF LocalSockets
  <2>6. FlattenSeq(q) = rest(all, n)
    BY <2>1, <1>6, FlatOne DEF Bytes
  <2>7. Kept(t, y) = Kept(s, p)
    BY <2>4, <2>5, <2>6, <1>1, <1>3, <1>6, Passes
  <2>8. Emits(i, s, p, y, w.pkts) /\ Spares(s, t, p, y) /\ Stage(s, t) /\ s.st # "none"
    BY <2>4, <2>5, <2>7, <1>2 DEF Emits, Spares, Stage, NoData
  <2>9. After(c, w.why) = c
    BY <2>4 DEF After
  <2>10. Motive(s, t, p, y, c, c, w.pkts)
    BY <2>4, <2>5 DEF Motive
  <2> QED BY <2>4, <2>8, <2>9, <2>10, <1>3 DEF Does
<1>9. CASE ~Broken(i) /\ ~(n < Len(all)) /\ s.st = "closing"
  <2>1. w = [Nothing(s) EXCEPT !.s = Gone, !.wrote = all, !.ret = TRUE]
    BY <1>9 DEF event_write
  <2>2. w.s = Gone /\ w.pkts = <<>> /\ w.wrote = all /\ w.why = "none" /\ w.ret = TRUE
    BY <2>1 DEF Nothing
  <2>3. Gone \in LocalSockets /\ Gone.queue = <<>> /\ Gone.st = "gone"
    BY Blank
  <2>4. Kept(Gone, y) = Kept(s, p)
    BY <2>2, <2>3, <1>1, <1>4, <1>e, Passes
  <2>5. Emits(i, s, p, y, w.pkts) /\ Spares(s, Gone, p, y) /\ Stage(s, Gone) /\ s.st # "none"
    BY <2>2, <2>3, <2>4, <1>9 DEF Emits, Spares, Stage, NoData
  <2>6. After(c, w.why) = c
    BY <2>2 DEF After
  <2>7. Motive(s, Gone, p, y, c, c, w.pkts)
    BY <2>2, <2>3, <1>9 DEF Motive
  <2> QED BY <2>2, <2>5, <2>6, <2>7, <1>3 DEF Does
<1>10. CASE ~Broken(i) /\ ~(n < Len(all)) /\ s.st = "open"
  <2>1. PICK m, k : m = s.mask \ {W} /\ k = Pkt("OKAY", i, s.peer, <<>>)
    OBVIOUS
  <2>2. PICK t : t = [s EXCEPT !.queue = <<>>, !.mask = m]
    OBVIOUS
  <2>3. w = [Nothing(s) EXCEPT !.s.queue = <<>>, !.s.mask = m, !.wrote = all, !.pkts = <<k>>]
    BY <1>10, <2>1 DEF event_write, remote_socket_ready, Nothing
  <2>4. w.s = t /\ w.pkts = <<k>> /\ w.wrote = all /\ w.why = "none" /\ k.cmd = "OKAY"
    BY <2>1, <2>2, <2>3 DEF Nothing, Pkt
  <2>5. t.st = s.st /\ t.queue = <<>>
    BY <2>2, <1>1 DEF LocalSockets
  <2>6. Kept(t, y) = Kept(s, p)
    BY <2>4, <2>5, <1>1, <1>3, <1>4, <1>e, Passes
  <2>7. Emits(i, s, p, y, w.pkts) /\ Spares(s, t, p, y) /\ Stage(s, t) /\ s.st # "none"
    BY <2>4, <2>5, <2>6, <1>2 DEF Emits, Spares, Stage, NoData
  <2>8. After(c, w.why) = c
    BY <2>4 DEF After
  <2>9. Motive(s, t, p, y, c, c, w.pkts)
    BY <2>4, <2>5 DEF Motive
  <2> QED BY <2>4, <2>7, <2>8, <2>9, <1>3 DEF Does
<1> QED BY <1>2, <1>7, <1>8, <1>9, <1>10

\* smart_socket_enqueue: what it leaves and what it sends.
Requests(s, r) ==
  /\ r.s.queue = <<>> /\ NoData(r.pkts)
  /\ \/ r.why = "none" /\ r.s.st \in {"smart", "waiting"}
     \/ r.why = "request" /\ r.s.st = "gone" /\ r.ret

\* It touches no bytes of the stream.
LEMMA RequestDoes ==
  ASSUME NEW i \in Ids, NEW s \in LocalSockets, s.st = "smart", s.queue = <<>>
  PROVE  Requests(s, smart_socket_enqueue(i, s))
<1> PICK req, n : req = ToSet(prog[i].req) /\ n = Len(prog[i].req)
  OBVIOUS
<1> PICK r : r = smart_socket_enqueue(i, s)
  OBVIOUS
<1> PICK t : t = stop_reading([s EXCEPT !.st = "waiting"])
  OBVIOUS
<1> PICK k : k = Pkt("OPEN", i, 0, <<>>)
  OBVIOUS
<1>1. r = CASE "BAD" \in req -> [Closed(s, "request") EXCEPT !.took = n]
            [] "BAD" \notin req /\ "REQ" \in req ->
                 IF ~online
                   THEN [Closed(s, "request") EXCEPT !.took = n, !.told = <<"FAIL">>]
                   ELSE [Nothing(s) EXCEPT !.s = t, !.took = n, !.pkts = <<k>>]
            [] OTHER -> [Nothing(s) EXCEPT !.took = n]
  BY DEF smart_socket_enqueue, connect_to_remote
<1>2. t.st = "waiting" /\ t.queue = <<>> /\ k.cmd = "OPEN"
  BY DEF stop_reading, LocalSockets, Pkt
<1>3. local_socket_close(s) = Gone /\ remote_socket_close(s) = <<>> /\ close_told(s) = <<>>
  BY DEF local_socket_close, remote_socket_close, close_told
<1>4. Closed(s, "request") = [Nothing(s) EXCEPT !.s = Gone, !.pkts = <<>>, !.told = <<>>,
                                                !.why = "request", !.ret = TRUE]
  BY <1>3 DEF Closed
<1>5. Gone.st = "gone" /\ Gone.queue = <<>> /\ NoData(<<>>) /\ NoData(<<k>>)
  BY <1>2, Blank DEF NoData
<1>6. CASE "BAD" \in req \/ ("REQ" \in req /\ ~online)
  <2>1. r.s = Gone /\ r.pkts = <<>> /\ r.why = "request" /\ r.ret = TRUE
    <3>1. CASE "BAD" \in req
      <4>1. r = [Closed(s, "request") EXCEPT !.took = n]
        BY ONLY <1>1, <3>1
      <4> QED BY ONLY <4>1, <1>4 DEF Nothing
    <3>2. CASE "BAD" \notin req /\ "REQ" \in req /\ ~online
      <4>1. r = [Closed(s, "request") EXCEPT !.took = n, !.told = <<"FAIL">>]
        BY ONLY <1>1, <3>2
      <4> QED BY ONLY <4>1, <1>4 DEF Nothing
    <3> QED BY <3>1, <3>2, <1>6
  <2>2. Requests(s, r)
    BY <2>1, <1>5 DEF Requests
  <2> QED BY <2>2
<1>7. CASE "BAD" \notin req /\ "REQ" \in req /\ online
  <2>1. r.s = t /\ r.pkts = <<k>> /\ r.why = "none"
    BY <1>1, <1>7 DEF Nothing
  <2>2. Requests(s, r)
    BY <2>1, <1>2, <1>5 DEF Requests
  <2> QED BY <2>2
<1>8. CASE "BAD" \notin req /\ "REQ" \notin req
  <2>1. r.s = s /\ r.pkts = <<>> /\ r.why = "none"
    BY <1>1, <1>8 DEF Nothing
  <2>2. Requests(s, r)
    BY <2>1, <1>5 DEF Requests
  <2> QED BY <2>2
<1> QED BY <1>6, <1>7, <1>8

\* What is left to read of program p, after k bytes (or parts of a request).
Left(s, p, k) == IF s.st = "smart" THEN p.out ELSE SubSeq(p.out, k + 1, Len(p.out))

\* What the functions up to the end of file do with n bytes.
ReadsFine(i, s, c, n, u) ==
  \A p, y \in Programs :
    /\ p.out = prog[i].out /\ y.inb = p.inb /\ y.made = p.made /\ y.end = p.end
    /\ y.out = Left(s, p, u.took)
    => /\ Does(i, s, u.s, p, y, c, After(c, u.why), u.pkts)
       /\ s.st # "smart" => u.took = n
       /\ u.why # "none" => u.ret

\* local_socket_event_func on FDE_READ, up to the end of file, as the bytes see
\* it.
LEMMA ReadsDo ==
  ASSUME prog \in [Ids -> Programs], online \in BOOLEAN, NEW i \in Ids,
         NEW s \in LocalSockets, s.st \in {"smart", "open", "closing"},
         NEW b, Watched(s, b), R \in b,
         NEW n \in Nat, n <= Len(prog[i].out),
         NEW c, c = "none" <=> s.st \in {"none", "smart", "waiting", "open"}
  PROVE  ReadsFine(i, s, c, n, Reads(i, s, n))
<1> PICK u : u = Reads(i, s, n)
  OBVIOUS
<1> SUFFICES ASSUME NEW p \in Programs, NEW y \in Programs, p.out = prog[i].out,
                    y.inb = p.inb, y.made = p.made, y.end = p.end, y.out = Left(s, p, u.took)
             PROVE  /\ Does(i, s, u.s, p, y, c, After(c, u.why), u.pkts)
                    /\ s.st # "smart" => u.took = n
                    /\ u.why # "none" => u.ret
  BY DEF ReadsFine
<1>1. ReadResult(i, s, u)
  BY ReadsEvent
<1>2. Moves(i, s, u.s, u.pkts) /\ s.st # "none"
  BY <1>1 DEF ReadResult
<1>3. CASE s.st = "smart"
  <2>1. s.queue = <<>>
    BY <1>3 DEF Watched
  <2>2. Requests(s, u)
    <3>1. u = smart_socket_enqueue(i, s)
      BY <1>3 DEF Reads
    <3> QED BY <3>1, <2>1, <1>3, RequestDoes
  <2>3. c = "none" /\ y.out = p.out
    BY <1>3 DEF Left
  <2>4. PICK t, pk, d, e : t = u.s /\ pk = u.pkts /\ d = u.why /\ e = After(c, u.why)
    OBVIOUS
  <2>5. /\ t.queue = <<>> /\ NoData(pk) /\ e = d
        /\ \/ d = "none" /\ t.st \in {"smart", "waiting"}
           \/ d = "request" /\ t.st = "gone"
    BY <2>2, <2>3, <2>4 DEF Requests, After
  <2>6. Kept(t, y) = Kept(s, p)
    BY <2>1, <2>5 DEF Kept
  <2>7. Stage(s, t) /\ Spares(s, t, p, y) /\ Emits(i, s, p, y, pk)
    BY <2>3, <2>5, <2>6, <1>3 DEF Stage, Spares, Emits
  <2>8. Motive(s, t, p, y, c, e, pk)
    BY <2>3, <2>5 DEF Motive
  <2>9. Does(i, s, t, p, y, c, e, pk)
    BY <2>4, <2>7, <2>8, <1>2 DEF Does
  <2> QED BY <2>2, <2>4, <2>9, <1>3 DEF Requests
<1>4. CASE s.st = "open" /\ n > 0
  <2>1. PICK data, t : data = SubSeq(prog[i].out, 1, n) /\ t = stop_reading(s)
    OBVIOUS
  <2>2. PICK pk : pk = <<Pkt("WRTE", i, s.peer, data)>>
    OBVIOUS
  <2>3. u = [Nothing(s) EXCEPT !.s = t, !.took = n, !.pkts = pk]
    BY <1>4, <2>1, <2>2 DEF Reads
  <2>4. u.s = t /\ u.pkts = pk /\ u.took = n /\ u.why = "none"
    BY <2>3 DEF Nothing
  <2>5. t.st = s.st /\ t.queue = s.queue
    BY <2>1 DEF stop_reading, LocalSockets
  <2>6. data \in Bytes /\ p.out = Cat(data, y.out)
    <3>1. p.out \in Bytes
      BY KeptType
    <3>2. n \in 0..Len(p.out)
      <4>1. PICK l \in Nat : l = Len(p.out)
        BY <3>1, Shape DEF Bytes
      <4>2. n <= l
        BY <4>1
      <4> QED BY <4>1, <4>2
    <3>3. /\ SubSeq(p.out, 1, n) \in Bytes
          /\ p.out = Cat(SubSeq(p.out, 1, n), SubSeq(p.out, n + 1, Len(p.out)))
      BY ONLY <3>1, <3>2, Cut
    <3>4. y.out = SubSeq(p.out, n + 1, Len(p.out))
      BY <2>4, <1>4 DEF Left
    <3> QED BY <3>3, <3>4, <2>1
  <2>7. Kept(t, y) = Kept(s, p)
    BY <2>5 DEF Kept
  <2>8. Stage(s, t) /\ Spares(s, t, p, y) /\ Emits(i, s, p, y, pk)
    BY <2>2, <2>5, <2>6, <2>7, <1>4 DEF Stage, Spares, Emits
  <2>9. After(c, u.why) = c /\ c = "none"
    BY <2>4, <1>4 DEF After
  <2>10. Motive(s, t, p, y, c, c, pk)
    BY <2>5, <2>9 DEF Motive
  <2> QED BY <2>4, <2>8, <2>9, <2>10, <1>2 DEF Does
<1>5. CASE s.st # "smart" /\ ~(s.st = "open" /\ n > 0)
  <2>1. u = [Nothing(s) EXCEPT !.took = n]
    BY <1>5 DEF Reads
  <2>2. u.s = s /\ u.pkts = <<>> /\ u.took = n /\ u.why = "none"
    BY <2>1 DEF Nothing
  <2>3. s.st = "closing" \/ (s.st = "open" /\ n = 0)
    BY <1>5
  <2>4. s.st = "closing" \/ y.out = p.out
    <3>1. ASSUME n = 0 PROVE SubSeq(p.out, n + 1, Len(p.out)) = p.out
      <4>1. p.out \in Bytes
        BY KeptType
      <4>2. n \in 0..Len(p.out)
        BY <4>1, <3>1, Shape DEF Bytes
      <4> QED BY ONLY <4>1, <4>2, <3>1, Cut
    <3> QED BY <3>1, <2>2, <2>3, <1>5 DEF Left
  <2>5. Kept(s, y) = Kept(s, p)
    BY DEF Kept
  <2>6. Stage(s, s) /\ Spares(s, s, p, y) /\ Emits(i, s, p, y, <<>>)
    BY <2>4, <2>5 DEF Stage, Spares, Emits, NoData
  <2>7. After(c, u.why) = c
    BY <2>2 DEF After
  <2>8. Motive(s, s, p, y, c, c, <<>>)
    BY DEF Motive
  <2> QED BY <2>2, <2>6, <2>7, <2>8, <1>2 DEF Does
<1> QED BY <1>3, <1>4, <1>5

\* The cause of a socket, after a function that may have closed it.
LEMMA Becauses ==
  ASSUME cause \in [Ids -> Whys], NEW i \in Ids, NEW why
  PROVE  /\ Because(i, why) = [cause EXCEPT ![i] = After(cause[i], why)]
         /\ why = "none" => cause = [cause EXCEPT ![i] = After(cause[i], why)]
<1>1. cause = [cause EXCEPT ![i] = cause[i]]
  OBVIOUS
<1>2. CASE cause[i] = "none"
  BY <1>1, <1>2 DEF Because, After
<1>3. CASE cause[i] # "none"
  BY <1>1, <1>3 DEF Because, After
<1> QED BY <1>2, <1>3

\* What the writing half of local_socket_event_func leaves.
WriteLeaves(i, s, p, c, ev, w) ==
  /\ w.s \in LocalSockets /\ w.wrote \in Bytes /\ w.why \in Whys /\ w.pkts \in Seq(Packets)
  /\ Watched(w.s, IF w.ret THEN {} ELSE IF W \in ev THEN ev \ {W} ELSE ev)
  /\ ~w.ret => w.s.st \in {"smart", "open", "closing"}
  /\ w.why # "none" => w.ret
  /\ w.ret \in BOOLEAN
  /\ w.s.st = "smart" <=> s.st = "smart"
  /\ \A y \in Programs :
       y.inb = Cat(p.inb, w.wrote) /\ y.out = p.out /\ y.made = p.made /\ y.end = p.end =>
         Does(i, s, w.s, p, y, c, After(c, w.why), w.pkts)

\* It passes on some of the queue, or does nothing.
LEMMA WritesDo ==
  ASSUME IInv, BInv, NEW i \in Ids, batch[i] # {},
         NEW w, w = IF W \in batch[i] THEN event_write(i) ELSE Nothing(sock[i])
  PROVE  WriteLeaves(i, sock[i], prog[i], cause[i], batch[i], w)
<1> PICK s, p, c, ev : s = sock[i] /\ p = prog[i] /\ c = cause[i] /\ ev = batch[i]
  OBVIOUS
<1>1. TypeOK /\ Local
  BY IInvType DEF IInv
<1>2. s \in LocalSockets /\ p \in Programs /\ Watched(s, ev) /\ ev \in SUBSET {R, W}
  BY <1>1 DEF TypeOK, Local
<1>3. c = "none" <=> s.st \in {"none", "smart", "waiting", "open"}
  BY DEF BInv, Streams, Own
<1>4. CASE W \in ev
  <2>1. w = event_write(i) /\ W \in batch[i]
    BY <1>4
  <2>2. /\ s.st \in {"open", "closing"}
        /\ w.s \in LocalSockets /\ w.s.st \in {"open", "closing", "gone"}
        /\ Moves(i, s, w.s, w.pkts)
        /\ Watched(w.s, IF w.ret THEN {} ELSE ev \ {W})
        /\ w.wrote \in Seq(Nat) /\ w.why \in Whys
        /\ w.ret \in BOOLEAN /\ (~w.ret => w.s.st = "open")
    BY <2>1, <1>1, WriteEvent
  <2>3. w.pkts \in Seq(Packets)
    BY <2>2, MovesType
  <2>4. ASSUME NEW y \in Programs,
               y.inb = Cat(p.inb, w.wrote), y.out = p.out, y.made = p.made, y.end = p.end
        PROVE  Does(i, s, w.s, p, y, c, After(c, w.why), w.pkts) /\ (w.why # "none" => w.ret)
    <3>1. c = "none" <=> sock[i].st \in {"none", "smart", "waiting", "open"}
      BY <1>3
    <3>2. Does(i, sock[i], w.s, p, y, c, After(c, w.why), w.pkts) /\ (w.why # "none" => w.ret)
      BY <3>1, <2>1, <2>4, <1>1, WriteDoes
    <3> QED BY <3>2
  <2>5. w.why # "none" => w.ret
    <3>1. PICK x \in Bytes, v \in Bytes : x = p.inb /\ v = w.wrote
      BY <2>2, <1>2, KeptType DEF Bytes
    <3>2. PICK z \in Bytes : z = Cat(x, v)
      BY ONLY x \in Bytes, v \in Bytes, Join
    <3>3. PICK y : y = [p EXCEPT !.inb = z]
      OBVIOUS
    <3>4. y \in Programs /\ y.inb = z /\ y.out = p.out /\ y.made = p.made /\ y.end = p.end
      BY <3>3, <1>2 DEF Programs, Bytes
    <3> QED BY <3>1, <3>2, <3>4, <2>4
  <2> QED BY <2>2, <2>3, <2>4, <2>5, <1>4 DEF WriteLeaves, Bytes
<1>5. CASE W \notin ev
  <2>1. w = Nothing(s)
    BY <1>5
  <2>2. w.s = s /\ w.pkts = <<>> /\ w.wrote = <<>> /\ w.why = "none" /\ w.ret = FALSE
    BY <2>1 DEF Nothing
  <2>3. s.st \in {"smart", "open", "closing"}
    BY <1>2 DEF Watched, LocalSockets
  <2>4. Moves(i, s, s, <<>>)
    BY DEF Moves, Alike
  <2>5. ASSUME NEW y \in Programs,
               y.inb = Cat(p.inb, w.wrote), y.out = p.out, y.made = p.made, y.end = p.end
        PROVE  Does(i, s, w.s, p, y, c, After(c, w.why), w.pkts)
    <3>1. PICK x \in Bytes : x = p.inb
      BY <1>2, KeptType
    <3>2. Cat(x, <<>>) = x
      BY ONLY x \in Bytes, Join
    <3>3. Kept(s, y) = Kept(s, p)
      BY <3>1, <3>2, <2>2, <2>5 DEF Kept
    <3>4. Stage(s, s) /\ Spares(s, s, p, y) /\ Emits(i, s, p, y, <<>>)
      BY <3>3, <2>5 DEF Stage, Spares, Emits, NoData
    <3>5. After(c, w.why) = c
      BY <2>2 DEF After
    <3>6. Motive(s, s, p, y, c, c, <<>>)
      BY <2>5, <1>3 DEF Motive
    <3> QED BY <3>4, <3>5, <3>6, <2>2, <2>3, <2>4 DEF Does
  <2>6. w.pkts \in Seq(Packets) /\ w.wrote \in Bytes
    BY <2>2, EmptySeq DEF Bytes
  <2> QED BY <2>2, <2>3, <2>5, <2>6, <1>2, <1>5 DEF WriteLeaves, Whys
<1>6. WriteLeaves(i, s, p, c, ev, w)
  BY <1>4, <1>5
<1> QED BY <1>6

\* A program z, of which k bytes or parts are then read.
Meanwhile(s, p, k, z, y) ==
  /\ z.out = p.out /\ z.end = p.end
  /\ y.inb = z.inb /\ y.made = z.made /\ y.end = z.end /\ y.out = Left(s, p, k)

\* From socket s to t with the packets pk, whatever was sent before.
Carries(i, s, p, c, t, k, pk, d) ==
  \A q \in Seq(Packets), y \in Programs, z \in Programs :
    Meanwhile(s, p, k, z, y) /\ In(i, s, q, z, c) => In(i, t, q \o pk, y, d)

\* What the reading half leaves.
ReadLeaves(i, s, p, c, r) ==
  /\ DOMAIN r = Fields /\ r.s \in LocalSockets /\ r.took \in Nat /\ r.why \in Whys
  /\ Carries(i, s, p, c, r.s, r.took, r.pkts, After(c, r.why))

\* It reads, and closes the socket at the end of the file once all is read.
LEMMA ReadsLeave ==
  ASSUME sock \in [Ids -> LocalSockets], prog \in [Ids -> Programs], cause \in [Ids -> Whys],
         online \in BOOLEAN, NEW i \in Ids,
         NEW s \in LocalSockets, s.st \in {"smart", "open", "closing"},
         NEW b, Watched(s, b), R \in b,
         NEW c \in Whys, c = "none" <=> s.st \in {"none", "smart", "waiting", "open"},
         s.st = "smart" => prog[i].out = <<>>
  PROVE  ReadLeaves(i, s, prog[i], c, event_read(i, s))
<1> PICK p : p = prog[i]
  OBVIOUS
<1> PICK n : n = Smaller(Len(p.out), MaxPayload)
  OBVIOUS
<1>0. p \in Programs /\ p.out \in Bytes
  BY KeptType
<1>1. n \in Nat /\ n <= Len(p.out)
  BY <1>0, SocketsAssumption, Shape DEF Smaller, Bytes
<1> PICK u : u = Reads(i, s, n)
  OBVIOUS
<1> PICK r : r = event_read(i, s)
  OBVIOUS
<1>2. r = IF at_eof(i, n) /\ ~u.ret
            THEN [Closed(u.s, "eof") EXCEPT !.pkts = u.pkts \o @, !.took = u.took]
            ELSE u
  BY DEF event_read, Reads
<1>3. ReadResult(i, s, u)
  BY <1>1, ReadsEvent
<1>4. /\ u.s \in LocalSockets /\ u.pkts \in Seq(Packets) /\ u.why \in Whys /\ DOMAIN u = Fields
      /\ u.took \in Nat /\ Watched(u.s, {})
      /\ ~u.ret => IF s.st = "smart" THEN u.s.st \in {"smart", "waiting"} ELSE u.s.st = s.st
  BY <1>3, MovesType DEF ReadResult
<1>5. After(c, u.why) \in Whys
  BY <1>4 DEF After
<1>f. ReadsFine(i, s, c, n, u)
  <2>1. n \in Nat /\ n <= Len(prog[i].out)
    BY <1>1
  <2>2. ReadsFine(i, s, c, n, Reads(i, s, n))
    BY <2>1, ReadsDo
  <2> QED BY <2>2
<1>6. ASSUME NEW q \in Seq(Packets), NEW y \in Programs, NEW z \in Programs,
             Meanwhile(s, p, u.took, z, y), In(i, s, q, z, c)
      PROVE  /\ In(i, u.s, q \o u.pkts, y, After(c, u.why))
             /\ s.st # "smart" => u.took = n
             /\ u.why # "none" => u.ret
  <2>1. z.out = prog[i].out /\ n <= Len(prog[i].out)
    BY <1>1, <1>6 DEF Meanwhile
  <2>2. y.out = Left(s, z, u.took)
    BY <1>6 DEF Left, Meanwhile
  <2>3. /\ Does(i, s, u.s, z, y, c, After(c, u.why), u.pkts)
        /\ s.st # "smart" => u.took = n
        /\ u.why # "none" => u.ret
    BY <2>1, <2>2, <1>6, <1>f DEF ReadsFine, Meanwhile
  <2>4. In(i, u.s, q \o u.pkts, y, After(c, u.why))
    BY <2>3, <1>4, <1>5, <1>6, NextTurn
  <2> QED BY <2>3, <2>4
<1>7. CASE ~(at_eof(i, n) /\ ~u.ret)
  <2>1. r = u
    BY <1>2, <1>7
  <2>2. Carries(i, s, p, c, u.s, u.took, u.pkts, After(c, u.why))
    BY <1>6 DEF Carries
  <2>3. ReadLeaves(i, s, p, c, r)
    BY <2>1, <2>2, <1>4 DEF ReadLeaves
  <2> QED BY <2>3
<1>8. CASE at_eof(i, n) /\ ~u.ret
  <2>1. PICK t, pk, d : t = local_socket_close(u.s) /\ pk = remote_socket_close(u.s) /\ d = close_told(u.s)
    OBVIOUS
  <2>2. r = [[Nothing(u.s) EXCEPT !.s = t, !.pkts = pk, !.told = d, !.why = "eof", !.ret = TRUE]
               EXCEPT !.pkts = u.pkts \o @, !.took = u.took]
    BY <1>2, <1>8, <2>1 DEF Closed
  <2>3. DOMAIN r = Fields /\ r.s = t /\ r.pkts = u.pkts \o pk /\ r.took = u.took /\ r.why = "eof"
    BY <2>2, Zenon DEF Nothing, Fields
  <2>4. /\ u.s.st \in {"smart", "waiting", "open", "closing"}
        /\ u.s.st \in {"smart", "waiting"} <=> s.st = "smart"
        /\ u.s.st = "closing" <=> s.st = "closing"
    BY <1>4, <1>8
  <2>5. t \in LocalSockets /\ Moves(i, u.s, t, pk)
    BY <2>1, <2>4, <1>4, Closing
  <2>6. pk \in Seq(Packets)
    BY <2>5, MovesType
  <2>7. p.end # "open" /\ n = Len(p.out)
    BY <1>8 DEF at_eof
  <2>8. ASSUME NEW q \in Seq(Packets), NEW y \in Programs, NEW z \in Programs,
               Meanwhile(s, p, r.took, z, y), In(i, s, q, z, c)
        PROVE  In(i, r.s, q \o r.pkts, y, After(c, r.why))
    <3>1. Meanwhile(s, p, u.took, z, y) /\ y.out = Left(s, p, u.took)
      BY <2>3, <2>8 DEF Meanwhile
    <3>2. /\ In(i, u.s, q \o u.pkts, y, After(c, u.why))
          /\ s.st # "smart" => u.took = n
          /\ u.why # "none" => u.ret
      BY <3>1, <2>8, <1>6
    <3>3. After(c, u.why) = c
      BY <3>2, <1>8 DEF After
    <3>4. u.s.st # "closing" => y.out = <<>>
      <4>1. CASE s.st = "smart"
        BY <4>1, <3>1 DEF Left
      <4>2. CASE s.st # "smart"
        <5>1. y.out = SubSeq(p.out, n + 1, Len(p.out))
          BY <4>2, <3>1, <3>2 DEF Left
        <5>2. n \in 0..Len(p.out)
          <6>1. PICK l \in Nat : l = Len(p.out)
            BY <1>0, Shape DEF Bytes
          <6>2. n = l
            BY <6>1, <2>7
          <6> QED BY <6>1, <6>2
        <5>3. SubSeq(p.out, n + 1, Len(p.out)) = <<>>
          BY ONLY <1>0, <2>7, <5>2, Cut
        <5> QED BY <5>1, <5>3
      <4> QED BY <4>1, <4>2
    <3>5. y.end # "open"
      BY <2>7, <2>8 DEF Meanwhile
    <3>6. c = "none" <=> u.s.st \in {"none", "smart", "waiting", "open"}
      BY <2>4
    <3>7. Does(i, u.s, t, y, y, c, After(c, "eof"), pk)
      BY <2>1, <2>4, <3>4, <3>5, <3>6, <1>4, CloseDoes
    <3>8. After(c, "eof") \in Whys
      BY DEF After, Whys
    <3>9. PICK v : v = q \o u.pkts
      OBVIOUS
    <3>10. In(i, u.s, v, y, c)
      BY <3>2, <3>3, <3>9
    <3>11. In(i, t, v \o pk, y, After(c, "eof"))
      BY <3>7, <3>8, <3>10, <2>5, NextTurn
    <3>12. (q \o u.pkts) \o pk = q \o (u.pkts \o pk)
      <4>1. PICK v1 \in Seq(Packets), v2 \in Seq(Packets) : v1 = u.pkts /\ v2 = pk
        BY <1>4, <2>6
      <4>2. (q \o v1) \o v2 = q \o (v1 \o v2)
        BY ONLY q \in Seq(Packets), v1 \in Seq(Packets), v2 \in Seq(Packets), ConcatAssociative,
                SMTT(30)
      <4> QED BY <4>1, <4>2
    <3> QED BY <3>9, <3>11, <3>12, <2>3
  <2>9. "eof" \in Whys
    BY DEF Whys
  <2>10. Carries(i, s, p, c, r.s, r.took, r.pkts, After(c, r.why))
    BY <2>8 DEF Carries
  <2>11. ReadLeaves(i, s, p, c, r)
    BY <2>3, <2>5, <2>9, <2>10, <1>4 DEF ReadLeaves
  <2> QED BY <2>11
<1> QED BY <1>7, <1>8

\* local_socket_event_func keeps the bytes.
LEMMA EventBytes ==
  ASSUME IInv, IInv', BInv, NEW i \in Ids, local_socket_event_func(i)
  PROVE  BInv'
<1> PICK s, ev, p, c : s = sock[i] /\ ev = batch[i] /\ p = prog[i] /\ c = cause[i]
  OBVIOUS
<1> PICK w : w = IF W \in ev THEN event_write(i) ELSE Nothing(s)
  OBVIOUS
<1> PICK r : r = IF R \in ev /\ ~w.ret THEN event_read(i, w.s) ELSE Nothing(w.s)
  OBVIOUS
<1> PICK x : x = [r EXCEPT !.wrote = w.wrote, !.told = w.told \o @]
  OBVIOUS
<1> PICK y : y = Served(i, x)
  OBVIOUS
<1>1. /\ ev # {}
      /\ sock' = [sock EXCEPT ![i] = r.s]
      /\ d2h' = d2h \o w.pkts \o r.pkts
      /\ prog' = [prog EXCEPT ![i] = y]
      /\ cause' = IF w.why # "none" THEN Because(i, w.why)
                  ELSE IF r.why # "none" THEN Because(i, r.why) ELSE cause
      /\ h2d' = h2d /\ host' = host /\ session' = session
  BY Zenon DEF local_socket_event_func, hostVars
<1>2. /\ sock \in [Ids -> LocalSockets] /\ prog \in [Ids -> Programs] /\ cause \in [Ids -> Whys]
      /\ s \in LocalSockets /\ p \in Programs /\ c \in Whys /\ online \in BOOLEAN
      /\ WireInv(sock, d2h, h2d, host, nextid) /\ d2h \in Seq(Packets)
  BY DEF IInv, Others, WireInv, WireType
<1>3. Own(s, p, c, Asks(d2h, i))
  BY DEF BInv, Streams
<1>4. y \in Programs
  <2>1. prog'[i] = y /\ prog' \in [Ids -> Programs]
    BY <1>1, <1>2, Zenon DEF IInv, Others
  <2> QED BY <2>1
<1>5. WriteLeaves(i, s, p, c, ev, w)
  <2>1. batch[i] # {} /\ w = IF W \in batch[i] THEN event_write(i) ELSE Nothing(sock[i])
    BY <1>1, Zenon
  <2>2. WriteLeaves(i, sock[i], prog[i], cause[i], batch[i], w)
    BY <2>1, WritesDo
  <2> QED BY <2>2
<1>6. In(i, s, d2h, p, c)
  <2>1. /\ sock = [sock EXCEPT ![i] = s] /\ prog = [prog EXCEPT ![i] = p]
        /\ cause = [cause EXCEPT ![i] = c]
    BY <1>2
  <2>2. Sound(sock, d2h, h2d, host, nextid, prog, cause, session = "lost")
    BY <1>2, PeersIn DEF Sound, BInv
  <2> QED BY <2>1, <2>2 DEF In
<1> PICK v : v = d2h \o w.pkts
  OBVIOUS
<1>7. v \in Seq(Packets) /\ d2h' = v \o r.pkts
  <2>1. w.pkts \in Seq(Packets)
    BY <1>5 DEF WriteLeaves
  <2> QED BY <2>1, <1>1, <1>2, ConcatProperties
<1>8. ASSUME NEW z \in Programs,
             z.inb = Cat(p.inb, w.wrote), z.out = p.out, z.made = p.made, z.end = p.end
      PROVE  In(i, w.s, v, z, After(c, w.why))
  <2>1. Does(i, s, w.s, p, z, c, After(c, w.why), w.pkts) /\ w.s \in LocalSockets
    BY <1>5, <1>8 DEF WriteLeaves
  <2>2. After(c, w.why) \in Whys
    BY <1>2, <1>5 DEF WriteLeaves, After
  <2> QED BY <2>1, <2>2, <1>2, <1>6, NextTurn
<1>9. ASSUME NEW d, In(i, r.s, v \o r.pkts, y, d), cause' = [cause EXCEPT ![i] = d] PROVE BInv'
  <2>1. Streams([sock EXCEPT ![i] = r.s], v \o r.pkts, h2d, host, [prog EXCEPT ![i] = y],
                [cause EXCEPT ![i] = d], session = "lost")
    BY <1>9 DEF In, Sound
  <2>2. Streams(sock', d2h', h2d', host', prog', cause', session' = "lost")
    BY <2>1, <1>1, <1>7, <1>9, Zenon
  <2> QED BY ONLY <2>2 DEF BInv
<1>10. ASSUME DOMAIN r = Fields, r.took \in Nat
       PROVE  /\ y.inb = Cat(p.inb, w.wrote) /\ y.made = p.made /\ y.end = p.end
              /\ y.out = Left(s, p, r.took)
  <2>1. x.wrote = w.wrote /\ x.took = r.took
    BY <1>10 DEF Fields
  <2>2. x.wrote \in Bytes /\ x.took \in Nat
    BY <2>1, <1>5, <1>10 DEF WriteLeaves
  <2>3. prog \in [Ids -> Programs]
    BY <1>2
  <2>4. /\ Served(i, x).inb = Cat(prog[i].inb, x.wrote) /\ Served(i, x).made = prog[i].made
        /\ Served(i, x).end = prog[i].end
        /\ sock[i].st = "smart" => Served(i, x).out = prog[i].out
        /\ sock[i].st # "smart" => Served(i, x).out = SubSeq(prog[i].out, x.took + 1, Len(prog[i].out))
    BY ONLY <2>2, <2>3, i \in Ids, ServedBytes
  <2>5. /\ y.inb = Cat(p.inb, w.wrote) /\ y.made = p.made /\ y.end = p.end
        /\ s.st = "smart" => y.out = p.out
        /\ s.st # "smart" => y.out = SubSeq(p.out, r.took + 1, Len(p.out))
    BY ONLY <2>1, <2>4, y = Served(i, x), s = sock[i], p = prog[i], Zenon
  <2> QED BY <2>5, Zenon DEF Left
<1>11. CASE ~(R \in ev /\ ~w.ret)
  <2>1. r = Nothing(w.s)
    BY <1>11
  <2>2. DOMAIN r = Fields /\ r.s = w.s /\ r.pkts = <<>> /\ r.took = 0 /\ r.why = "none"
    BY ONLY <2>1 DEF Nothing, Fields
  <2>3. /\ y.inb = Cat(p.inb, w.wrote) /\ y.made = p.made /\ y.end = p.end
        /\ y.out = Left(s, p, 0)
    <3>1. r.took \in Nat
      BY ONLY <2>2
    <3> QED BY <3>1, <2>2, <1>10
  <2>4. y.out = p.out
    <3>1. p.out \in Bytes
      BY <1>2, KeptType
    <3>2. 0 \in 0..Len(p.out)
      BY <3>1, Shape DEF Bytes
    <3>3. SubSeq(p.out, 0 + 1, Len(p.out)) = p.out
      BY ONLY <3>1, <3>2, Cut
    <3> QED BY <3>3, <2>3 DEF Left
  <2>5. In(i, w.s, v, y, After(c, w.why))
    BY <2>3, <2>4, <1>4, <1>8
  <2>6. v \o r.pkts = v
    BY <2>2, <1>7, ConcatEmptySeq, Zenon
  <2>7. cause' = [cause EXCEPT ![i] = After(c, w.why)]
    BY <2>2, <1>1, <1>2, Becauses, Zenon
  <2> QED BY <2>2, <2>5, <2>6, <2>7, <1>9, Zenon
<1>12. CASE R \in ev /\ ~w.ret
  <2>1. r = event_read(i, w.s)
    BY <1>12
  <2>2. PICK b : b = IF W \in ev THEN ev \ {W} ELSE ev
    OBVIOUS
  <2>3. /\ w.s \in LocalSockets /\ w.s.st \in {"smart", "open", "closing"} /\ Watched(w.s, b)
        /\ R \in b /\ w.why = "none" /\ (w.s.st = "smart" <=> s.st = "smart")
    <3>1. R \in b
      BY <1>12, <2>2 DEF R, W
    <3> QED BY <3>1, <2>2, <1>5, <1>12 DEF WriteLeaves
  <2>4. After(c, w.why) = c
    BY <2>3 DEF After
  <2>5. PICK o \in Bytes, f \in Bytes, g \in Bytes : o = p.inb /\ f = w.wrote /\ g = Cat(o, f)
    <3>1. p.inb \in Bytes /\ w.wrote \in Bytes
      BY <1>2, <1>5, KeptType DEF WriteLeaves
    <3>2. Cat(p.inb, w.wrote) \in Bytes
      BY ONLY <3>1, Join
    <3> QED BY <3>1, <3>2
  <2>6. PICK z : z = [p EXCEPT !.inb = g]
    OBVIOUS
  <2>7. z \in Programs /\ z.inb = Cat(p.inb, w.wrote) /\ z.out = p.out /\ z.made = p.made /\ z.end = p.end
    BY <2>5, <2>6, <1>2 DEF Programs, Bytes
  <2>8. In(i, w.s, v, z, c)
    BY <2>4, <2>7, <1>8
  <2>9. c = "none" <=> w.s.st \in {"none", "smart", "waiting", "open"}
    <3>1. PICK t \in LocalSockets : t = w.s
      BY <2>3
    <3>2. Own(t, z, c, Asks(v, i))
      <4>1. PICK sk, pr, ca : /\ sk = [sock EXCEPT ![i] = t] /\ pr = [prog EXCEPT ![i] = z]
                              /\ ca = [cause EXCEPT ![i] = c]
        OBVIOUS
      <4>2. Streams(sk, v, h2d, host, pr, ca, session = "lost")
        BY <4>1, <3>1, <2>8 DEF In, Sound
      <4>3. sk[i] = t /\ pr[i] = z /\ ca[i] = c
        BY <4>1, <1>2
      <4>4. Own(sk[i], pr[i], ca[i], Asks(v, i))
        BY <4>2 DEF Streams
      <4> QED BY <4>3, <4>4
    <3> QED BY <3>1, <3>2 DEF Own
  <2>10. w.s.st = "smart" => prog[i].out = <<>>
    BY <2>3, <1>3 DEF Own
  <2>11. ReadLeaves(i, w.s, p, c, r)
    <3>1. ReadLeaves(i, w.s, prog[i], c, event_read(i, w.s))
      BY ONLY <2>3, <2>9, <2>10, <1>2, ReadsLeave
    <3> QED BY <3>1, <2>1
  <2>12. /\ DOMAIN r = Fields /\ r.took \in Nat /\ r.why \in Whys
         /\ Carries(i, w.s, p, c, r.s, r.took, r.pkts, After(c, r.why))
    BY <2>11 DEF ReadLeaves
  <2>13. Meanwhile(w.s, p, r.took, z, y)
    BY <2>3, <2>7, <2>12, <1>10, Zenon DEF Meanwhile, Left
  <2>14. In(i, r.s, v \o r.pkts, y, After(c, r.why))
    BY <2>7, <2>8, <2>12, <2>13, <1>4, <1>7, Zenon DEF Carries
  <2>15. cause' = [cause EXCEPT ![i] = After(c, r.why)]
    BY <2>3, <1>1, <1>2, Becauses, Zenon
  <2> QED BY <2>14, <2>15, <1>9
<1> QED BY <1>11, <1>12

-----------------------------------------------------------------------------
(* A step of the host: what it does to the stream of socket i and host id  *)
(* h.                                                                      *)

\* The stream stays what it was.
Holds(sk, dq, ho, dq2, ho2, i, h) ==
  /\ Joint(sk, ho2, i, h) => Joint(sk, ho, i, h)
  /\ ho2[h].sent = ho[h].sent
  /\ ho2[h].id = i =>
       ho[h].id = i \/ (Tie(sk, dq, ho, i, h) /\ ho[h].st \in {"opening", "open"})
  /\ Tie(sk, dq2, ho2, i, h) => Tie(sk, dq, ho, i, h)
  /\ ho2[h].st \in {"opening", "open"} => ho[h].st \in {"opening", "open", "none"}
  /\ ho2[h].st = "ended" => ho[h].st \in {"opening", "open", "ended"}
  /\ Tie(sk, dq, ho, i, h) /\ ho2[h].st \in {"opening", "open", "ended"} =>
       Cat(ho2[h].got, Payload(dq2, i, h)) = Cat(ho[h].got, Payload(dq, i, h))

\* The stream is new: no byte has gone either way.
Begins(sk, dq, hq, pr, dq2, ho2, i, h) ==
  /\ Asks(dq, i)
  /\ Joint(sk, ho2, i, h) => Cat(Kept(sk[i], pr[i]), Payload(hq, h, i)) = <<>>
  /\ ho2[h].sent = 0 /\ Cat(ho2[h].got, Payload(dq2, i, h)) = <<>>

\* Streams survives what the host does, stream by stream.
LEMMA HostStep ==
  ASSUME NEW sk, NEW dq, NEW hq, NEW ho, NEW nx, WireInv(sk, dq, hq, ho, nx),
         NEW pr, NEW ca, NEW lost, Streams(sk, dq, hq, ho, pr, ca, lost),
         NEW dq2, NEW ho2,
         \A i \in Ids : Asks(dq2, i) => Asks(dq, i),
         \A h \in Hids : Theirs(sk, dq2, hq, ho2, h),
         \A i \in Ids, h \in Hids :
           \/ Holds(sk, dq, ho, dq2, ho2, i, h) \/ Begins(sk, dq, hq, pr, dq2, ho2, i, h)
  PROVE  Streams(sk, dq2, hq, ho2, pr, ca, lost)
<1>1. LastWords(hq)
  BY DEF Streams
<1>2. \A i \in Ids : Own(sk[i], pr[i], ca[i], Asks(dq, i))
  BY DEF Streams
<1>3. \A i \in Ids : Own(sk[i], pr[i], ca[i], Asks(dq2, i))
  BY <1>2 DEF Own
<1>4. \A i \in Ids : Closes(hq, i) \/ ca[i] = "host" => Over(sk, dq, ho, i)
  BY DEF Streams
<1>5. \A i \in Ids, h \in Hids : Tie(sk, dq, ho, i, h) => ho[h].st # "none"
  BY DEF WireInv, Wire, HostSide
<1>6. ASSUME NEW i \in Ids, Closes(hq, i) \/ ca[i] = "host"
      PROVE  Over(sk, dq2, ho2, i)
  <2>1. Over(sk, dq, ho, i)
    BY <1>4, <1>6
  <2>2. ~Asks(dq, i) /\ ~Asks(dq2, i)
    BY <2>1 DEF Over
  <2>3. \A h \in Hids : Holds(sk, dq, ho, dq2, ho2, i, h)
    BY <2>2 DEF Begins
  <2>4. \A h \in Hids : Tie(sk, dq2, ho2, i, h) => ho2[h].st \notin {"opening", "open"}
    BY <2>1, <2>3, <1>5 DEF Holds, Over
  <2> QED BY <2>1, <2>2, <2>4 DEF Over
<1>7. ASSUME NEW i \in Ids, NEW h \in Hids
      PROVE  /\ Inward(sk, hq, ho2, pr, lost, i, h) /\ Parted(sk, ho2, pr, ca, i, h)
             /\ Outward(sk, dq2, ho2, pr, i, h) /\ Finished(sk, dq2, ho2, pr, ca, i, h)
  <2>1. /\ Inward(sk, hq, ho, pr, lost, i, h) /\ Parted(sk, ho, pr, ca, i, h)
        /\ Outward(sk, dq, ho, pr, i, h) /\ Finished(sk, dq, ho, pr, ca, i, h)
    BY DEF Streams
  <2>2. CASE Holds(sk, dq, ho, dq2, ho2, i, h)
    <3>1. Inward(sk, hq, ho2, pr, lost, i, h)
      BY <2>1, <2>2 DEF Inward, Holds
    <3>2. Parted(sk, ho2, pr, ca, i, h)
      BY <2>1, <2>2, <1>4 DEF Parted, Holds, Over
    <3>3. Outward(sk, dq2, ho2, pr, i, h)
      BY <2>1, <2>2, <1>5 DEF Outward, Holds, Up, Joint, Tie
    <3>4. Finished(sk, dq2, ho2, pr, ca, i, h)
      BY <2>1, <2>2, <1>5 DEF Finished, Holds
    <3> QED BY <3>1, <3>2, <3>3, <3>4
  <2>3. CASE Begins(sk, dq, hq, pr, dq2, ho2, i, h)
    <3>1. Asks(dq, i) /\ ca[i] # "host" /\ ~Closes(hq, i) /\ pr[i].made = 0 /\ pr[i].out = <<>>
      BY <2>3, <1>2, <1>4 DEF Begins, Over, Own
    <3>2. Upto(0) = <<>> /\ Dense(<<>>) /\ <<>> \in Bytes /\ Cat(<<>>, <<>>) = <<>>
      <4>1. 0 \in Nat
        OBVIOUS
      <4> QED BY <4>1, UptoType, Join
    <3>3. Inward(sk, hq, ho2, pr, lost, i, h)
      BY <2>3, <3>2 DEF Inward, Begins
    <3>4. Parted(sk, ho2, pr, ca, i, h)
      BY <3>1 DEF Parted
    <3>5. Outward(sk, dq2, ho2, pr, i, h) /\ Finished(sk, dq2, ho2, pr, ca, i, h)
      BY <2>3, <3>1, <3>2 DEF Outward, Finished, Begins
    <3> QED BY <3>3, <3>4, <3>5
  <2> QED BY <2>2, <2>3
<1> QED BY <1>1, <1>3, <1>6, <1>7 DEF Streams

\* A packet of the host without data.
LEMMA HostSays ==
  ASSUME NEW sk, NEW dq, NEW hq \in Seq(Packets), NEW ho, NEW pr, NEW ca, NEW lost,
         Streams(sk, dq, hq, ho, pr, ca, lost), NEW k \in Packets, k.cmd # "WRTE",
         k.cmd = "CLSE" => k.arg1 \in Ids /\ Over(sk, dq, ho, k.arg1) /\ ~lost,
         k.cmd = "OPEN" => k.arg0 \in Hids /\ ho[k.arg0].got = <<>> /\ ho[k.arg0].st # "ended"
  PROVE  Streams(sk, dq, Append(hq, k), ho, pr, ca, lost)
<1>1. PICK hq2 : hq2 = Append(hq, k)
  OBVIOUS
<1>2. LastWords(hq2)
  <2>1. LastWords(hq)
    BY DEF Streams
  <2> QED BY <2>1, <1>1, LastSent
<1>3. /\ \A h \in Hids : Asks(hq2, h) => Asks(hq, h) \/ (k.cmd = "OPEN" /\ k.arg0 = h)
      /\ \A i \in Ids : Closes(hq2, i) <=> Closes(hq, i) \/ (k.cmd = "CLSE" /\ k.arg1 = i)
  <2>1. /\ \A h \in Hids : h \in Ends
        /\ \A i \in Ids : i \in Ends
    BY DEF Ends
  <2> QED BY <2>1, <1>1, ViewSent
<1>4. \A i \in Ids, h \in Hids : Payload(hq2, h, i) = Payload(hq, h, i)
  <2>1. \A i \in Ids, h \in Hids : ~Fits(k, "WRTE", h, i)
    BY DEF Fits
  <2> QED BY <2>1, <1>1, PaySent
<1>5. \A h \in Hids : Theirs(sk, dq, hq2, ho, h)
  <2>1. \A h \in Hids : Theirs(sk, dq, hq, ho, h)
    BY DEF Streams
  <2> QED BY <2>1, <1>3 DEF Theirs
<1>6. \A i \in Ids : Closes(hq2, i) \/ ca[i] = "host" => Over(sk, dq, ho, i)
  <2>1. \A i \in Ids : Closes(hq, i) \/ ca[i] = "host" => Over(sk, dq, ho, i)
    BY DEF Streams
  <2> QED BY <2>1, <1>3
<1>7. ASSUME NEW i \in Ids, NEW h \in Hids PROVE Inward(sk, hq2, ho, pr, lost, i, h)
  <2>1. Inward(sk, hq, ho, pr, lost, i, h)
    BY DEF Streams
  <2>2. ~lost \/ Closes(hq2, i) => ~lost \/ Closes(hq, i)
    BY <1>3
  <2> QED BY <2>1, <2>2, <1>4 DEF Inward
<1> QED BY <1>1, <1>2, <1>5, <1>6, <1>7 DEF Streams

\* The host opens, acknowledges, ends or forgets streams.
LEMMA HostTurns ==
  ASSUME NEW sk, NEW dq, NEW hq, NEW ho, NEW nx, WireInv(sk, dq, hq, ho, nx),
         NEW pr, NEW ca, NEW lost, Streams(sk, dq, hq, ho, pr, ca, lost), NEW ho2,
         \A h \in Hids : ho2[h].id = ho[h].id /\ ho2[h].sent = ho[h].sent /\ ho2[h].got = ho[h].got,
         \A h \in Hids :
           \/ ho2[h].st = ho[h].st
           \/ ho2[h].st = "closed"
           \/ ho[h].st = "none" /\ ho2[h].st = "opening"
           \/ /\ ho[h].st \in {"opening", "open"} /\ ho2[h].st = "ended"
              /\ ~Asks(hq, h) /\ \A i \in Ids : ~Joint(sk, ho, i, h) /\ ~Sends(dq, i, h)
  PROVE  Streams(sk, dq, hq, ho2, pr, ca, lost)
<1>1. \A i \in Ids, h \in Hids :
        /\ Joint(sk, ho2, i, h) <=> Joint(sk, ho, i, h)
        /\ Tie(sk, dq, ho2, i, h) <=> Tie(sk, dq, ho, i, h)
  BY DEF Joint, Tie
<1>2. \A i \in Ids, h \in Hids : Holds(sk, dq, ho, dq, ho2, i, h)
  BY <1>1 DEF Holds
<1>3. ASSUME NEW h \in Hids PROVE Theirs(sk, dq, hq, ho2, h)
  <2>1. Theirs(sk, dq, hq, ho, h)
    BY DEF Streams
  <2> QED BY <2>1, <1>1 DEF Theirs
<1> QED BY ONLY <1>2, <1>3, WireInv(sk, dq, hq, ho, nx), Streams(sk, dq, hq, ho, pr, ca, lost), HostStep

\* What the queue to the host is without its first packet.
LEMMA Shorter ==
  ASSUME NEW q \in Seq(Packets), q # <<>>
  PROVE  /\ \A i \in Ids : Asks(Tail(q), i) => Asks(q, i)
         /\ \A i \in Ids, h \in Hids : Sends(Tail(q), i, h) => Sends(q, i, h)
         /\ \A i \in Ids, h \in Hids :
              Head(q).cmd \in {"OKAY", "WRTE"} /\ Head(q).arg0 = i /\ Head(q).arg1 = h => Sends(q, i, h)
         /\ \A i \in Ids, h \in Hids :
              ~Fits(Head(q), "WRTE", i, h) => Payload(Tail(q), i, h) = Payload(q, i, h)
<1>1. /\ \A h \in Hids : h \in Ends
      /\ \A i \in Ids : i \in Ends
  BY DEF Ends
<1> QED BY <1>1, ViewTaken, PayTaken

\* The host passes over a packet, which is no data for a stream it has.
LEMMA HostPasses ==
  ASSUME NEW sk, NEW dq \in Seq(Packets), NEW hq, NEW ho, NEW nx, WireInv(sk, dq, hq, ho, nx),
         NEW pr, NEW ca, NEW lost, Streams(sk, dq, hq, ho, pr, ca, lost), dq # <<>>,
         \A h \in Hids : Head(dq).cmd = "WRTE" /\ Head(dq).arg1 = h => ho[h].st \notin {"opening", "open"}
  PROVE  Streams(sk, Tail(dq), hq, ho, pr, ca, lost)
<1>1. PICK dq2 : dq2 = Tail(dq)
  OBVIOUS
<1>2. /\ \A i \in Ids : Asks(dq2, i) => Asks(dq, i)
      /\ \A i \in Ids, h \in Hids : Sends(dq2, i, h) => Sends(dq, i, h)
      /\ \A i \in Ids, h \in Hids :
           Head(dq).cmd \in {"OKAY", "WRTE"} /\ Head(dq).arg0 = i /\ Head(dq).arg1 = h => Sends(dq, i, h)
      /\ \A i \in Ids, h \in Hids :
           ~Fits(Head(dq), "WRTE", i, h) => Payload(dq2, i, h) = Payload(dq, i, h)
  BY <1>1, Shorter
<1>3. \A h \in Hids : Theirs(sk, dq, hq, ho, h)
  BY DEF Streams
<1>4. \A h \in Hids : Theirs(sk, dq2, hq, ho, h)
  BY <1>2, <1>3 DEF Theirs
<1>5. ASSUME NEW i \in Ids, NEW h \in Hids PROVE Holds(sk, dq, ho, dq2, ho, i, h)
  <2>1. Tie(sk, dq2, ho, i, h) => Tie(sk, dq, ho, i, h)
    BY <1>2 DEF Tie
  <2>2. ho[h].st \in {"opening", "open", "ended"} => Payload(dq2, i, h) = Payload(dq, i, h)
    BY <1>2, <1>3 DEF Theirs, Fits
  <2> QED BY <2>1, <2>2 DEF Holds
<1>6. Streams(sk, dq2, hq, ho, pr, ca, lost)
  BY ONLY <1>2, <1>4, <1>5, WireInv(sk, dq, hq, ho, nx), Streams(sk, dq, hq, ho, pr, ca, lost), HostStep
<1> QED BY <1>1, <1>6

\* The host takes an OKAY: it learns the id of the socket.
LEMMA HostLearns ==
  ASSUME NEW sk, NEW dq \in Seq(Packets), NEW hq, NEW ho, NEW nx, WireInv(sk, dq, hq, ho, nx),
         NEW pr, NEW ca, NEW lost, Streams(sk, dq, hq, ho, pr, ca, lost), dq # <<>>,
         NEW i \in Ids, NEW h \in Hids, Head(dq).cmd = "OKAY", Head(dq).arg0 = i, Head(dq).arg1 = h,
         ho[h].st \in {"opening", "open"}, NEW ho2,
         \A g \in Hids : g # h => ho2[g] = ho[g],
         ho2[h].st = "open", ho2[h].id = i, ho2[h].sent = ho[h].sent, ho2[h].got = ho[h].got
  PROVE  Streams(sk, Tail(dq), hq, ho2, pr, ca, lost)
<1>1. PICK dq2 : dq2 = Tail(dq)
  OBVIOUS
<1>2. /\ \A j \in Ids : Asks(dq2, j) => Asks(dq, j)
      /\ \A j \in Ids, g \in Hids : Sends(dq2, j, g) => Sends(dq, j, g)
      /\ Sends(dq, i, h)
      /\ \A j \in Ids, g \in Hids : Payload(dq2, j, g) = Payload(dq, j, g)
  <2>1. \A j \in Ids, g \in Hids : ~Fits(Head(dq), "WRTE", j, g)
    BY DEF Fits
  <2> QED BY <2>1, <1>1, Shorter
<1>3. \A g \in Hids : Theirs(sk, dq, hq, ho, g)
  BY DEF Streams
<1>4. i # 0
  BY NotTrans DEF Trans
<1>5. Tie(sk, dq, ho, i, h) /\ sk[i].st # "waiting"
  BY <1>2 DEF Tie, WireInv, Wire, DeviceSide
<1>6. ASSUME NEW g \in Hids PROVE Theirs(sk, dq2, hq, ho2, g)
  <2>1. Theirs(sk, dq, hq, ho, g)
    BY <1>3
  <2>2. CASE g = h
    BY <2>1, <2>2, <1>4 DEF Theirs
  <2>3. CASE g # h
    BY <2>1, <2>3, <1>2 DEF Theirs, Joint
  <2> QED BY <2>2, <2>3
<1>7. ASSUME NEW j \in Ids, NEW g \in Hids PROVE Holds(sk, dq, ho, dq2, ho2, j, g)
  <2>1. CASE g # h
    <3>1. ho2[g] = ho[g]
      BY <2>1
    <3>2. Tie(sk, dq2, ho2, j, g) => Tie(sk, dq, ho, j, g)
      BY <3>1, <1>2 DEF Tie
    <3>3. Joint(sk, ho2, j, g) => Joint(sk, ho, j, g)
      BY <3>1 DEF Joint
    <3> QED BY <3>1, <3>2, <3>3, <1>2 DEF Holds
  <2>2. CASE g = h
    <3>1. ho2[g].id = j => j = i
      BY <2>2
    <3>2. Tie(sk, dq2, ho2, j, g) => Tie(sk, dq, ho, j, g)
      BY <3>1, <2>2, <1>2, <1>5 DEF Tie
    <3>3. Joint(sk, ho2, j, g) => Joint(sk, ho, j, g)
      BY <3>1, <2>2, <1>5 DEF Joint
    <3> QED BY <3>1, <3>2, <3>3, <2>2, <1>2, <1>5 DEF Holds
  <2> QED BY <2>1, <2>2
<1>8. Streams(sk, dq2, hq, ho2, pr, ca, lost)
  BY ONLY <1>2, <1>6, <1>7, WireInv(sk, dq, hq, ho, nx), Streams(sk, dq, hq, ho, pr, ca, lost), HostStep
<1> QED BY <1>1, <1>8

\* The host takes data.
LEMMA HostGets ==
  ASSUME NEW sk, NEW dq \in Seq(Packets), NEW hq, NEW ho, NEW nx, WireInv(sk, dq, hq, ho, nx),
         NEW pr, NEW ca, NEW lost, Streams(sk, dq, hq, ho, pr, ca, lost), dq # <<>>,
         NEW i \in Ids, NEW h \in Hids, Fits(Head(dq), "WRTE", i, h),
         ho[h].st \in {"opening", "open"}, ho[h].got \in Bytes, NEW ho2,
         \A g \in Hids : g # h => ho2[g] = ho[g],
         ho2[h].st = ho[h].st, ho2[h].id = ho[h].id, ho2[h].sent = ho[h].sent,
         ho2[h].got = Cat(ho[h].got, Head(dq).data)
  PROVE  Streams(sk, Tail(dq), hq, ho2, pr, ca, lost)
<1>1. PICK dq2, d : dq2 = Tail(dq) /\ d = Head(dq).data
  OBVIOUS
<1>2. /\ \A j \in Ids : Asks(dq2, j) => Asks(dq, j)
      /\ \A j \in Ids, g \in Hids : Sends(dq2, j, g) => Sends(dq, j, g)
      /\ Sends(dq, i, h)
      /\ \A j \in Ids, g \in Hids :
           ~(j = i /\ g = h) => Payload(dq2, j, g) = Payload(dq, j, g)
  <2>1. \A j \in Ids, g \in Hids : ~(j = i /\ g = h) => ~Fits(Head(dq), "WRTE", j, g)
    BY DEF Fits
  <2>2. Head(dq).cmd \in {"OKAY", "WRTE"} /\ Head(dq).arg0 = i /\ Head(dq).arg1 = h
    BY DEF Fits
  <2> QED BY <2>1, <2>2, <1>1, Shorter
<1>3. \A g \in Hids : Theirs(sk, dq, hq, ho, g)
  BY DEF Streams
<1>4. Tie(sk, dq, ho, i, h)
  BY <1>2 DEF Tie
<1>5. ~Asks(hq, h) /\ \A j \in Ids : Tie(sk, dq, ho, j, h) => j = i
  <2>1. HostSide(sk, dq, hq, ho, h) /\ Matched(sk, dq, ho)
    BY DEF WireInv, Wire
  <2>2. ~Asks(hq, h)
    BY <2>1, <1>4 DEF HostSide
  <2>3. \A j \in Ids : Tie(sk, dq, ho, j, h) => j = i
    BY <2>1, <1>4 DEF Matched
  <2> QED BY <2>2, <2>3
<1>6. ASSUME NEW g \in Hids PROVE Theirs(sk, dq2, hq, ho2, g)
  <2>1. Theirs(sk, dq, hq, ho, g)
    BY <1>3
  <2>2. CASE g = h
    BY <2>1, <2>2, <1>5 DEF Theirs
  <2>3. CASE g # h
    BY <2>1, <2>3, <1>2 DEF Theirs, Joint
  <2> QED BY <2>2, <2>3
<1>7. Cat(ho2[h].got, Payload(dq2, i, h)) = Cat(ho[h].got, Payload(dq, i, h))
  <2>1. /\ Payload(dq, i, h) = Cat(d, Payload(dq2, i, h)) /\ d \in Bytes
        /\ Payload(dq2, i, h) \in Bytes
    BY <1>1, PayTaken
  <2>2. Cat(Cat(ho[h].got, d), Payload(dq2, i, h)) = Cat(ho[h].got, Cat(d, Payload(dq2, i, h)))
    BY ONLY <2>1, ho[h].got \in Bytes, Join
  <2> QED BY <2>1, <2>2, <1>1
<1>8. ASSUME NEW j \in Ids, NEW g \in Hids PROVE Holds(sk, dq, ho, dq2, ho2, j, g)
  <2>1. CASE g # h
    <3>1. ho2[g] = ho[g]
      BY <2>1
    <3>2. Tie(sk, dq2, ho2, j, g) => Tie(sk, dq, ho, j, g)
      BY <3>1, <1>2 DEF Tie
    <3>3. Joint(sk, ho2, j, g) => Joint(sk, ho, j, g)
      BY <3>1 DEF Joint
    <3> QED BY <3>1, <3>2, <3>3, <2>1, <1>2 DEF Holds
  <2>2. CASE g = h
    <3>2. Tie(sk, dq2, ho2, j, g) => Tie(sk, dq, ho, j, g)
      BY <2>2, <1>2 DEF Tie
    <3>3. Joint(sk, ho2, j, g) => Joint(sk, ho, j, g)
      BY <2>2 DEF Joint
    <3> QED BY <3>2, <3>3, <2>2, <1>5, <1>7 DEF Holds
  <2> QED BY <2>1, <2>2
<1>9. Streams(sk, dq2, hq, ho2, pr, ca, lost)
  BY ONLY <1>2, <1>6, <1>8, WireInv(sk, dq, hq, ho, nx), Streams(sk, dq, hq, ho, pr, ca, lost), HostStep
<1> QED BY <1>1, <1>9

\* The host accepts an OPEN: the stream of g and socket i is new.
LEMMA HostBegins ==
  ASSUME NEW sk, NEW dq \in Seq(Packets), NEW hq \in Seq(Packets), NEW ho, NEW nx,
         WireInv(sk, dq, hq, ho, nx),
         NEW pr, NEW ca, NEW lost, Streams(sk, dq, hq, ho, pr, ca, lost), dq # <<>>,
         NEW i \in Ids, NEW g \in Hids, Head(dq).cmd = "OPEN", Asks(dq, i),
         sk[i].st = "waiting" => Kept(sk[i], pr[i]) = <<>>,
         ho[g].st = "none", ho[g].id = 0, ho[g].sent = 0, ho[g].got = <<>>, NEW ho2,
         \A h \in Hids : h # g => ho2[h] = ho[h],
         ho2[g].st = "open", ho2[g].id = i, ho2[g].sent = 0, ho2[g].got = <<>>
  PROVE  Streams(sk, Tail(dq), hq, ho2, pr, ca, lost)
<1>1. PICK dq2 : dq2 = Tail(dq)
  OBVIOUS
<1>2. /\ \A j \in Ids : Asks(dq2, j) => Asks(dq, j)
      /\ \A j \in Ids, h \in Hids : Sends(dq2, j, h) => Sends(dq, j, h)
      /\ \A j \in Ids, h \in Hids : Payload(dq2, j, h) = Payload(dq, j, h)
  <2>1. \A j \in Ids, h \in Hids : ~Fits(Head(dq), "WRTE", j, h)
    BY DEF Fits
  <2> QED BY <2>1, <1>1, Shorter
<1>3. \A h \in Hids : Theirs(sk, dq, hq, ho, h)
  BY DEF Streams
<1>4. i # 0
  BY NotTrans DEF Trans
<1>5. /\ \A j \in Ids : ~Tie(sk, dq, ho, j, g)
      /\ \A h \in Hids : ~Tie(sk, dq, ho, i, h)
  BY DEF WireInv, Wire, HostSide, DeviceSide
<1>6. ASSUME NEW h \in Hids PROVE Theirs(sk, dq2, hq, ho2, h)
  <2>1. Theirs(sk, dq, hq, ho, h)
    BY <1>3
  <2>2. CASE h = g
    BY <2>1, <2>2, <1>4 DEF Theirs
  <2>3. CASE h # g
    BY <2>1, <2>3, <1>2 DEF Theirs, Joint
  <2> QED BY <2>2, <2>3
<1>7. Payload(hq, g, i) = <<>>
  <2>1. Replies(sk, hq, ho)
    BY DEF WireInv, Wire
  <2>2. \A k \in DOMAIN hq : ~Bears(hq, k, g, i)
    BY <2>1, <1>4 DEF Replies, Bears, Fits
  <2> QED BY <2>2, PayNone
<1>8. Payload(dq2, i, g) = <<>>
  <2>1. ~Sends(dq, i, g)
    BY <1>5 DEF Tie
  <2>2. \A k \in DOMAIN dq : ~Bears(dq, k, i, g)
    BY <2>1 DEF Sends, Bears, Fits
  <2> QED BY <2>2, <1>2, PayNone
<1>9. Begins(sk, dq, hq, pr, dq2, ho2, i, g)
  <2>1. Cat(<<>>, <<>>) = <<>>
    BY Join
  <2>2. ~Linked(sk, i, g)
    BY <1>5 DEF Tie
  <2> QED BY <2>1, <2>2, <1>7, <1>8 DEF Begins, Joint
<1>10. ASSUME NEW j \in Ids, NEW h \in Hids, ~(j = i /\ h = g) PROVE Holds(sk, dq, ho, dq2, ho2, j, h)
  <2>1. CASE h # g
    <3>1. ho2[h] = ho[h]
      BY <2>1
    <3>2. Tie(sk, dq2, ho2, j, h) => Tie(sk, dq, ho, j, h)
      BY <3>1, <1>2 DEF Tie
    <3>3. Joint(sk, ho2, j, h) => Joint(sk, ho, j, h)
      BY <3>1 DEF Joint
    <3> QED BY <3>1, <3>2, <3>3, <1>2 DEF Holds
  <2>2. CASE h = g
    <3>1. j # i
      BY <1>10, <2>2
    <3>2. ho2[h].id # j
      BY <3>1, <2>2
    <3>3. Tie(sk, dq2, ho2, j, h) => Tie(sk, dq, ho, j, h)
      BY <3>2, <2>2, <1>2 DEF Tie
    <3>4. Joint(sk, ho2, j, h) => Joint(sk, ho, j, h)
      BY <3>2 DEF Joint
    <3> QED BY <3>2, <3>3, <3>4, <2>2, <1>5 DEF Holds
  <2> QED BY <2>1, <2>2
<1>11. \A j \in Ids, h \in Hids :
         \/ Holds(sk, dq, ho, dq2, ho2, j, h) \/ Begins(sk, dq, hq, pr, dq2, ho2, j, h)
  BY <1>9, <1>10
<1>12. Streams(sk, dq2, hq, ho2, pr, ca, lost)
  BY ONLY <1>2, <1>6, <1>11, WireInv(sk, dq, hq, ho, nx), Streams(sk, dq, hq, ho, pr, ca, lost), HostStep
<1> QED BY <1>1, <1>12

\* The host writes n bytes.
LEMMA HostGives ==
  ASSUME NEW sk \in [Ids -> LocalSockets], NEW dq, NEW hq \in Seq(Packets), NEW ho, NEW nx,
         WireInv(sk, dq, hq, ho, nx), NEW pr \in [Ids -> Programs], NEW ca,
         NEW lost, ~lost, Streams(sk, dq, hq, ho, pr, ca, lost),
         NEW i \in Ids, NEW h \in Hids, ho[h].st = "open", ho[h].id = i,
         NEW m \in Nat, NEW n \in Nat, ho[h].sent = m,
         NEW k \in Packets, Fits(k, "WRTE", h, i), k.data = [l \in 1..n |-> m + l], NEW ho2,
         \A g \in Hids : g # h => ho2[g] = ho[g],
         ho2[h].st = "open", ho2[h].id = i, ho2[h].sent = m + n, ho2[h].got = ho[h].got
  PROVE  Streams(sk, dq, Append(hq, k), ho2, pr, ca, lost)
<1>1. PICK hq2 : hq2 = Append(hq, k)
  OBVIOUS
<1>2. Tie(sk, dq, ho, i, h)
  BY DEF Tie
<1>3. ~Closes(hq, i) /\ ca[i] # "host"
  BY <1>2 DEF Streams, Over
<1>4. LastWords(hq2)
  <2>1. LastWords(hq) /\ k.arg1 = i
    BY DEF Streams, Fits
  <2> QED BY <2>1, <1>1, <1>3, LastSent
<1>5. /\ \A g \in Hids : Asks(hq2, g) => Asks(hq, g)
      /\ \A j \in Ids : Closes(hq2, j) => Closes(hq, j)
  <2>1. /\ \A g \in Hids : g \in Ends
        /\ \A j \in Ids : j \in Ends
    BY DEF Ends
  <2>2. k.cmd = "WRTE"
    BY DEF Fits
  <2> QED BY <2>1, <2>2, <1>1, ViewSent
<1>6. \A j \in Ids, g \in Hids :
        /\ Joint(sk, ho2, j, g) <=> Joint(sk, ho, j, g)
        /\ Tie(sk, dq, ho2, j, g) <=> Tie(sk, dq, ho, j, g)
  BY DEF Joint, Tie
<1>7. \A g \in Hids : ho2[g].id = ho[g].id /\ ho2[g].st = ho[g].st /\ ho2[g].got = ho[g].got
  OBVIOUS
<1>8. ASSUME NEW g \in Hids PROVE Theirs(sk, dq, hq2, ho2, g)
  <2>1. Theirs(sk, dq, hq, ho, g)
    BY DEF Streams
  <2>2. ho2[g].id = 0 => ho2[g].sent = 0
    BY <2>1, NotTrans DEF Theirs, Trans
  <2> QED BY <2>1, <2>2, <1>5, <1>6, <1>7 DEF Theirs
<1>9. \A j \in Ids : Own(sk[j], pr[j], ca[j], Asks(dq, j))
  BY DEF Streams
<1>10. ASSUME NEW j \in Ids, Closes(hq2, j) \/ ca[j] = "host" PROVE Over(sk, dq, ho2, j)
  <2>1. Over(sk, dq, ho, j)
    BY <1>5, <1>10 DEF Streams
  <2> QED BY <2>1, <1>6, <1>7 DEF Over
<1>11. ASSUME NEW j \in Ids, NEW g \in Hids
       PROVE  /\ Inward(sk, hq2, ho2, pr, lost, j, g) /\ Parted(sk, ho2, pr, ca, j, g)
              /\ Outward(sk, dq, ho2, pr, j, g) /\ Finished(sk, dq, ho2, pr, ca, j, g)
  <2>1. /\ Inward(sk, hq, ho, pr, lost, j, g) /\ Parted(sk, ho, pr, ca, j, g)
        /\ Outward(sk, dq, ho, pr, j, g) /\ Finished(sk, dq, ho, pr, ca, j, g)
    BY DEF Streams
  <2>2. Outward(sk, dq, ho2, pr, j, g) /\ Finished(sk, dq, ho2, pr, ca, j, g)
    BY <2>1, <1>6, <1>7 DEF Outward, Finished, Up
  <2>3. CASE g # h
    <3>1. ~Fits(k, "WRTE", g, j) /\ ho2[g] = ho[g]
      BY <2>3 DEF Fits
    <3>2. Payload(hq2, g, j) = Payload(hq, g, j)
      BY <3>1, <1>1, PaySent
    <3> QED BY <3>1, <3>2, <2>1, <2>2, <1>5, <1>6 DEF Inward, Parted
  <2>4. CASE g = h /\ j # i
    <3>1. ho[g].id # j
      BY <2>4
    <3>2. ~Joint(sk, ho, j, g)
      <4>1. Matched(sk, dq, ho)
        BY DEF WireInv, Wire
      <4>2. ~Tie(sk, dq, ho, j, g)
        BY <4>1, <2>4, <1>2 DEF Matched
      <4> QED BY <4>2 DEF Tie, Joint
    <3> QED BY <3>1, <3>2, <2>2, <1>6, <1>7 DEF Inward, Parted
  <2>5. CASE g = h /\ j = i
    <3>1. Parted(sk, ho2, pr, ca, j, g)
      BY <2>5, <1>3 DEF Parted
    <3>2. PICK x, y, d : x = Kept(sk[i], pr[i]) /\ y = Payload(hq, h, i) /\ d = k.data
      OBVIOUS
    <3>3. x \in Bytes
      BY <3>2, KeptType
    <3>4. y \in Bytes /\ d \in Bytes /\ Payload(hq2, h, i) = Cat(y, d)
      BY <3>2, <1>1, PaySent
    <3>5. Joint(sk, ho, i, h) => Cat(x, y) = Upto(m)
      BY <2>1, <2>5, <3>2 DEF Inward
    <3>6. Cat(Upto(m), d) = Upto(m + n) /\ m + n \in Nat
      BY <3>2, UptoMore
    <3>7. Cat(Cat(x, y), d) = Cat(x, Cat(y, d))
      BY ONLY <3>3, <3>4, Join
    <3>8. Joint(sk, ho, i, h) => Cat(x, Payload(hq2, h, i)) = Upto(m + n)
      BY <3>4, <3>5, <3>6, <3>7
    <3>9. Dense(Upto(m + n))
      BY <3>6, UptoType
    <3>10. Inward(sk, hq2, ho2, pr, lost, i, h)
      BY <3>2, <3>8, <3>9, <1>6 DEF Inward
    <3> QED BY <3>1, <3>10, <2>2, <2>5
  <2> QED BY <2>3, <2>4, <2>5
<1> QED BY <1>1, <1>4, <1>8, <1>9, <1>10, <1>11 DEF Streams

\* The link is lost with some of the packets that were on it.
LEMMA LinkCut ==
  ASSUME NEW sk \in [Ids -> LocalSockets], NEW dq, NEW hq \in Seq(Packets), NEW ho,
         NEW pr \in [Ids -> Programs], NEW ca,
         NEW lost, ~lost, Streams(sk, dq, hq, ho, pr, ca, lost),
         \A h \in Hids : ho[h].st \notin {"opening", "open", "ended"}, NEW n \in 0..Len(hq)
  PROVE  Streams(sk, <<>>, SubSeq(hq, 1, n), ho, pr, ca, TRUE)
<1>1. PICK hq2, dq2 : hq2 = SubSeq(hq, 1, n) /\ dq2 = <<>>
  OBVIOUS
<1>2. /\ LastWords(hq2) /\ hq2 \in Seq(Packets)
      /\ \A i \in Ids : Closes(hq2, i) => Closes(hq, i)
      /\ \A i \in Ids, h \in Hids : Closes(hq2, i) => Payload(hq2, h, i) = Payload(hq, h, i)
  <2>1. LastWords(hq)
    BY DEF Streams
  <2> QED BY <2>1, <1>1, LastCut
<1>3. \A i \in Ids : ~Asks(dq2, i) /\ \A h \in Hids : ~Sends(dq2, i, h)
  <2>1. DOMAIN dq2 = {}
    BY <1>1
  <2> QED BY <2>1 DEF Asks, Sends
<1>4. \A h \in Hids : Asks(hq2, h) => Asks(hq, h)
  <2>1. PICK l \in Nat : l = Len(hq)
    BY Shape
  <2>2. n \in 0..l /\ DOMAIN hq = 1..l /\ \A k \in 1..n : hq[k] \in Packets /\ k \in 1..l
    BY <2>1, Shape
  <2>3. Len(hq2) = n /\ \A k \in 1..n : hq2[k] = hq[k]
    <3>1. 1 \in Int /\ n \in Int /\ \A k \in 1..n : hq[k] \in Packets
      BY <2>2
    <3>2. CASE n = 0
      BY <3>2, <1>1
    <3>3. CASE n # 0
      <4>1. n \in Nat /\ 1 <= n + 1 /\ n <= Len(hq) /\ 1 \in 1..(Len(hq) + 1)
        BY <3>3, <2>1, <2>2
      <4>2. Len(hq2) = n /\ \A k \in 1..n : hq2[k] = hq[1 + k - 1]
        BY <4>1, <1>1, SubSeqProperties
      <4>3. \A k \in 1..n : 1 + k - 1 = k
        BY <4>1
      <4> QED BY <4>2, <4>3
    <3> QED BY <3>2, <3>3
  <2>4. DOMAIN hq2 = 1..n
    BY <2>3, <1>2, Shape
  <2> QED BY <2>2, <2>3, <2>4 DEF Asks, AskedAt
<1>5. \A i \in Ids : Own(sk[i], pr[i], ca[i], Asks(dq2, i))
  <2>1. \A i \in Ids : Own(sk[i], pr[i], ca[i], Asks(dq, i))
    BY DEF Streams
  <2> QED BY <2>1, <1>3 DEF Own
<1>6. ASSUME NEW i \in Ids, Closes(hq2, i) \/ ca[i] = "host" PROVE Over(sk, dq2, ho, i)
  <2>1. Over(sk, dq, ho, i)
    BY <1>2, <1>6 DEF Streams
  <2> QED BY <2>1, <1>3 DEF Over, Tie
<1>7. ASSUME NEW h \in Hids PROVE Theirs(sk, dq2, hq2, ho, h)
  <2>1. Theirs(sk, dq, hq, ho, h)
    BY DEF Streams
  <2> QED BY <2>1, <1>4 DEF Theirs
<1>8. ASSUME NEW i \in Ids, NEW h \in Hids
      PROVE  /\ Inward(sk, hq2, ho, pr, TRUE, i, h) /\ Parted(sk, ho, pr, ca, i, h)
             /\ Outward(sk, dq2, ho, pr, i, h) /\ Finished(sk, dq2, ho, pr, ca, i, h)
  <2>1. Inward(sk, hq, ho, pr, lost, i, h) /\ Parted(sk, ho, pr, ca, i, h)
    BY DEF Streams
  <2>2. Outward(sk, dq2, ho, pr, i, h) /\ Finished(sk, dq2, ho, pr, ca, i, h)
    BY DEF Outward, Finished, Up
  <2>3. PICK x, y, v : x = Kept(sk[i], pr[i]) /\ y = Payload(hq, h, i) /\ v = Payload(hq2, h, i)
    OBVIOUS
  <2>4. x \in Bytes
    BY <2>3, KeptType
  <2>5. v \in Bytes /\ \E z \in Bytes : y = Cat(v, z)
    BY <2>3, <1>1, PayCut
  <2>6. PICK z \in Bytes : y = Cat(v, z)
    BY <2>5
  <2>7. Cat(x, Cat(v, z)) = Cat(Cat(x, v), z) /\ Cat(x, v) \in Bytes
    BY ONLY <2>4, <2>5, z \in Bytes, Join
  <2>8. Joint(sk, ho, i, h) => Dense(Cat(Cat(x, v), z)) /\ Cat(x, y) = Upto(ho[h].sent)
    BY <2>1, <2>3, <2>6, <2>7 DEF Inward
  <2>9. Joint(sk, ho, i, h) => Dense(Cat(x, v))
    BY <2>7, <2>8, DenseFirst
  <2>10. Closes(hq2, i) => v = y
    BY <2>3, <1>2
  <2>11. Inward(sk, hq2, ho, pr, TRUE, i, h)
    BY <2>3, <2>8, <2>9, <2>10 DEF Inward
  <2> QED BY <2>1, <2>2, <2>11
<1> QED BY <1>1, <1>2, <1>5, <1>6, <1>7, <1>8 DEF Streams

-----------------------------------------------------------------------------
(* The host's steps keep the bytes.                                        *)

\* The host moves: adbd has not seen it yet.
LEMMA HostBytes ==
  ASSUME UNCHANGED hostOnly, NEW lost, lost = (session' = "lost"),
         Streams(sock, d2h', h2d', host', prog, cause, lost)
  PROVE  BInv'
<1>1. sock' = sock /\ prog' = prog /\ cause' = cause
  BY DEF hostOnly
<1>2. Streams(sock', d2h', h2d', host', prog', cause', lost)
  BY <1>1
<1> QED BY <1>2 DEF BInv

\* What the invariants say, for a step of the host.
LEMMA HostFacts ==
  ASSUME IInv, BInv
  PROVE  /\ Connected /\ WireInv(sock, d2h, h2d, host, nextid)
         /\ h2d \in Seq(Packets) /\ d2h \in Seq(Packets)
         /\ host \in [Hids -> HostStreams] /\ sock \in [Ids -> LocalSockets]
         /\ prog \in [Ids -> Programs]
         /\ Streams(sock, d2h, h2d, host, prog, cause, session = "lost")
         /\ \A h \in Hids : HostSide(sock, d2h, h2d, host, h)
         /\ \A h \in Hids : host[h].st = "open" => host[h].id \in Ids
         /\ \A h \in Hids : host[h].st \in {"opening", "open"} => session = "on"
<1>1. /\ Connected /\ WireInv(sock, d2h, h2d, host, nextid)
      /\ h2d \in Seq(Packets) /\ d2h \in Seq(Packets)
      /\ host \in [Hids -> HostStreams] /\ sock \in [Ids -> LocalSockets]
      /\ \A h \in Hids : HostSide(sock, d2h, h2d, host, h)
  BY DEF IInv, WireInv, WireType, Wire
<1>2. prog \in [Ids -> Programs] /\ Streams(sock, d2h, h2d, host, prog, cause, session = "lost")
  BY DEF IInv, Others, BInv
<1>3. ASSUME NEW h \in Hids, host[h].st = "open" PROVE host[h].id \in Ids
  <2>1. host[h].id \in Ids \cup {0} /\ host[h].id # 0
    BY <1>1, <1>3 DEF HostSide, HostStreams
  <2> QED BY <2>1
<1> QED BY <1>1, <1>2, <1>3 DEF Connected

\* The host forgets all its streams.
LEMMA ForgetsBytes ==
  ASSUME NEW ho \in [Hids -> HostStreams], NEW ho2,
         ho2 = [h \in Hids |-> IF ho[h].st = "none" THEN ho[h]
                               ELSE [ho[h] EXCEPT !.st = "closed"]]
  PROVE  \A h \in Hids :
           /\ ho2[h].id = ho[h].id /\ ho2[h].sent = ho[h].sent /\ ho2[h].got = ho[h].got
           /\ ho2[h].st = ho[h].st \/ ho2[h].st = "closed"
           /\ ho2[h].st \in {"none", "closed"}
<1> SUFFICES ASSUME NEW h \in Hids
             PROVE  /\ ho2[h].id = ho[h].id /\ ho2[h].sent = ho[h].sent /\ ho2[h].got = ho[h].got
                    /\ ho2[h].st = ho[h].st \/ ho2[h].st = "closed"
                    /\ ho2[h].st \in {"none", "closed"}
  OBVIOUS
<1>1. PICK r \in HostStreams : r = ho[h]
  OBVIOUS
<1>2. CASE r.st = "none"
  BY <1>1, <1>2
<1>3. CASE r.st # "none"
  <2>1. PICK z : z = [r EXCEPT !.st = "closed"]
    OBVIOUS
  <2>2. ho2[h] = z
    BY <1>1, <1>3, <2>1
  <2>3. z.st = "closed" /\ z.id = r.id /\ z.sent = r.sent /\ z.got = r.got
    BY <2>1 DEF HostStreams
  <2> QED BY <1>1, <2>2, <2>3
<1> QED BY <1>2, <1>3

\* host_connect keeps the bytes.
LEMMA ConnectBytes == ASSUME IInv, BInv, host_connect PROVE BInv'
<1> PICK k : k = Pkt("CNXN", 0, 0, <<>>)
  OBVIOUS
<1>1. /\ session \in {"off", "on"} /\ session' = "wait" /\ h2d' = Append(h2d, k)
      /\ host' = [h \in Hids |-> IF host[h].st = "none" THEN host[h]
                                 ELSE [host[h] EXCEPT !.st = "closed"]]
      /\ d2h' = d2h
  BY DEF host_connect
<1>u. UNCHANGED hostOnly
  BY DEF host_connect
<1>2. PICK lost : lost = FALSE
  OBVIOUS
<1>3. /\ WireInv(sock, d2h, h2d, host, nextid) /\ h2d \in Seq(Packets)
      /\ host \in [Hids -> HostStreams] /\ Streams(sock, d2h, h2d, host, prog, cause, session = "lost")
  BY HostFacts
<1>4. (session = "lost") = lost /\ (session' = "lost") = lost
  BY <1>1, <1>2
<1>5. Streams(sock, d2h, h2d, host, prog, cause, lost)
  BY <1>3, <1>4
<1>6. k \in Packets /\ k.cmd = "CNXN"
  BY EmptySeq DEF Pkt, Packets, Cmds
<1>7. PICK ho2 : ho2 = host'
  OBVIOUS
<1>8. \A h \in Hids :
        /\ ho2[h].id = host[h].id /\ ho2[h].sent = host[h].sent /\ ho2[h].got = host[h].got
        /\ ho2[h].st = host[h].st \/ ho2[h].st = "closed"
  BY <1>1, <1>3, <1>7, ForgetsBytes
<1>9. Streams(sock, d2h, h2d, ho2, prog, cause, lost)
  BY ONLY <1>3, <1>5, <1>8, HostTurns
<1>10. Streams(sock, d2h, Append(h2d, k), ho2, prog, cause, lost)
  BY ONLY <1>3, <1>6, <1>9, HostSays
<1>11. Streams(sock, d2h', h2d', host', prog, cause, lost)
  BY <1>1, <1>7, <1>10
<1> QED BY <1>u, <1>4, <1>11, HostBytes

\* link_lost keeps what arrived.
LEMMA LostBytes == ASSUME IInv, BInv, link_lost PROVE BInv'
<1> PICK k : k = Pkt("SYNC0", 0, 0, <<>>)
  OBVIOUS
<1>1. /\ session \in {"wait", "on"} /\ session' = "lost"
      /\ host' = [h \in Hids |-> IF host[h].st = "none" THEN host[h]
                                 ELSE [host[h] EXCEPT !.st = "closed"]]
      /\ d2h' = <<>>
  BY DEF link_lost
<1>u. UNCHANGED hostOnly
  BY DEF link_lost
<1>n. PICK n \in 0..Len(h2d) : h2d' = Append(SubSeq(h2d, 1, n), k)
  BY DEF link_lost
<1>2. PICK lost, lost2 : lost = FALSE /\ lost2 = TRUE
  OBVIOUS
<1>3. /\ WireInv(sock, d2h, h2d, host, nextid) /\ h2d \in Seq(Packets)
      /\ host \in [Hids -> HostStreams] /\ Streams(sock, d2h, h2d, host, prog, cause, session = "lost")
      /\ sock \in [Ids -> LocalSockets] /\ prog \in [Ids -> Programs]
  BY HostFacts
<1>4. (session = "lost") = lost /\ (session' = "lost") = lost2
  BY <1>1, <1>2
<1>5. Streams(sock, d2h, h2d, host, prog, cause, lost)
  BY <1>3, <1>4
<1>6. k \in Packets /\ k.cmd = "SYNC0"
  BY EmptySeq DEF Pkt, Packets, Cmds
<1>7. PICK ho2 : ho2 = host'
  OBVIOUS
<1>8. \A h \in Hids :
        /\ ho2[h].id = host[h].id /\ ho2[h].sent = host[h].sent /\ ho2[h].got = host[h].got
        /\ ho2[h].st = host[h].st \/ ho2[h].st = "closed"
        /\ ho2[h].st \in {"none", "closed"}
  BY <1>1, <1>3, <1>7, ForgetsBytes
<1>9. Streams(sock, d2h, h2d, ho2, prog, cause, lost)
  BY ONLY <1>3, <1>5, <1>8, HostTurns
<1>10. PICK hq2, dq2 : hq2 = SubSeq(h2d, 1, n) /\ dq2 = <<>>
  OBVIOUS
<1>11. Streams(sock, dq2, hq2, ho2, prog, cause, lost2)
  <2>1. \A h \in Hids : ho2[h].st \notin {"opening", "open", "ended"}
    BY <1>8
  <2> QED BY <2>1, <1>2, <1>3, <1>9, <1>10, LinkCut
<1>12. hq2 \in Seq(Packets)
  <2>1. LastWords(h2d)
    BY <1>5 DEF Streams
  <2> QED BY <2>1, <1>3, <1>10, LastCut
<1>13. Streams(sock, dq2, Append(hq2, k), ho2, prog, cause, lost2)
  BY ONLY <1>6, <1>11, <1>12, HostSays
<1>14. Streams(sock, d2h', h2d', host', prog, cause, lost2)
  BY <1>1, <1>n, <1>7, <1>10, <1>13
<1> QED BY <1>u, <1>4, <1>14, HostBytes

\* host_open keeps the bytes.
LEMMA OpensBytes == ASSUME IInv, BInv, NEW h \in Hids, host_open(h) PROVE BInv'
<1> PICK k : k = Pkt("OPEN", h, 0, <<>>)
  OBVIOUS
<1> PICK r : r = [host[h] EXCEPT !.st = "opening"]
  OBVIOUS
<1>1. /\ session = "on" /\ host[h].st = "none" /\ host' = [host EXCEPT ![h].st = "opening"]
      /\ h2d' = Append(h2d, k) /\ d2h' = d2h /\ session' = session
  BY DEF host_open
<1>u. UNCHANGED hostOnly
  BY DEF host_open
<1>2. PICK lost : lost = FALSE
  OBVIOUS
<1>3. /\ WireInv(sock, d2h, h2d, host, nextid) /\ h2d \in Seq(Packets)
      /\ host \in [Hids -> HostStreams] /\ Streams(sock, d2h, h2d, host, prog, cause, session = "lost")
      /\ HostSide(sock, d2h, h2d, host, h)
  BY HostFacts
<1>4. (session = "lost") = lost /\ (session' = "lost") = lost
  BY <1>1, <1>2
<1>5. Streams(sock, d2h, h2d, host, prog, cause, lost)
  BY <1>3, <1>4
<1>6. k \in Packets /\ k.cmd = "OPEN" /\ k.arg0 = h
  BY EmptySeq DEF Pkt, Packets, Cmds
<1>7. PICK ho2 : ho2 = host'
  OBVIOUS
<1>8. ho2 = [host EXCEPT ![h] = r]
  BY <1>1, <1>3, <1>7
<1>9. r.st = "opening" /\ r.id = host[h].id /\ r.sent = host[h].sent /\ r.got = host[h].got /\ r.got = <<>>
  <2>1. host[h] \in HostStreams
    BY <1>3
  <2>2. host[h].got = <<>>
    BY <1>1, <1>3 DEF HostSide, Silent
  <2> QED BY <2>1, <2>2 DEF HostStreams
<1>10. \A g \in Hids :
         /\ ho2[g].id = host[g].id /\ ho2[g].sent = host[g].sent /\ ho2[g].got = host[g].got
         /\ ho2[g].st = host[g].st \/ (host[g].st = "none" /\ ho2[g].st = "opening")
  BY <1>1, <1>3, <1>8, <1>9
<1>11. ho2[h].got = <<>> /\ ho2[h].st # "ended"
  BY <1>3, <1>8, <1>9
<1>12. Streams(sock, d2h, h2d, ho2, prog, cause, lost)
  BY ONLY <1>3, <1>5, <1>10, HostTurns
<1>13. Streams(sock, d2h, Append(h2d, k), ho2, prog, cause, lost)
  BY ONLY <1>3, <1>6, <1>11, <1>12, h \in Hids, HostSays
<1>14. Streams(sock, d2h', h2d', host', prog, cause, lost)
  BY <1>1, <1>7, <1>13
<1> QED BY <1>u, <1>4, <1>14, HostBytes

\* host_ack keeps the bytes.
LEMMA AcksBytes == ASSUME IInv, BInv, NEW h \in Hids, host_ack(h) PROVE BInv'
<1> PICK i : i = host[h].id
  OBVIOUS
<1> PICK k : k = Pkt("OKAY", h, i, <<>>)
  OBVIOUS
<1> PICK r : r = [host[h] EXCEPT !.owes = FALSE]
  OBVIOUS
<1>1. /\ host[h].st = "open" /\ host' = [host EXCEPT ![h].owes = FALSE]
      /\ h2d' = Append(h2d, k) /\ d2h' = d2h /\ session' = session
  BY DEF host_ack
<1>u. UNCHANGED hostOnly
  BY DEF host_ack
<1>2. PICK lost : lost = FALSE
  OBVIOUS
<1>3. /\ WireInv(sock, d2h, h2d, host, nextid) /\ h2d \in Seq(Packets)
      /\ host \in [Hids -> HostStreams] /\ Streams(sock, d2h, h2d, host, prog, cause, session = "lost")
      /\ i \in Ids /\ session = "on"
  BY <1>1, HostFacts
<1>4. (session = "lost") = lost /\ (session' = "lost") = lost
  BY <1>1, <1>2, <1>3
<1>5. Streams(sock, d2h, h2d, host, prog, cause, lost)
  BY <1>3, <1>4
<1>6. k \in Packets /\ k.cmd = "OKAY"
  BY <1>3, EmptySeq DEF Pkt, Packets, Cmds
<1>7. PICK ho2 : ho2 = host'
  OBVIOUS
<1>8. ho2 = [host EXCEPT ![h] = r]
  BY <1>1, <1>3, <1>7
<1>9. r.st = host[h].st /\ r.id = host[h].id /\ r.sent = host[h].sent /\ r.got = host[h].got
  <2>1. host[h] \in HostStreams
    BY <1>3
  <2> QED BY <2>1 DEF HostStreams
<1>10. \A g \in Hids :
         /\ ho2[g].id = host[g].id /\ ho2[g].sent = host[g].sent /\ ho2[g].got = host[g].got
         /\ ho2[g].st = host[g].st
  BY <1>3, <1>8, <1>9
<1>12. Streams(sock, d2h, h2d, ho2, prog, cause, lost)
  BY ONLY <1>3, <1>5, <1>10, HostTurns
<1>13. Streams(sock, d2h, Append(h2d, k), ho2, prog, cause, lost)
  BY ONLY <1>3, <1>6, <1>12, HostSays
<1>14. Streams(sock, d2h', h2d', host', prog, cause, lost)
  BY <1>1, <1>7, <1>13
<1> QED BY <1>u, <1>4, <1>14, HostBytes

\* A stream that the host closed is over.
LEMMA OverNow ==
  ASSUME NEW sk, NEW dq, NEW hq, NEW ho, NEW nx, WireInv(sk, dq, hq, ho, nx),
         NEW i \in Ids, NEW h \in Hids, Tie(sk, dq, ho, i, h), ho[h].st \notin {"opening", "open"}
  PROVE  Over(sk, dq, ho, i)
<1>1. Matched(sk, dq, ho) /\ DeviceSide(sk, dq, ho, nx, i)
  BY DEF WireInv, Wire
<1>2. sk[i].st \notin {"none", "smart"} /\ ~Asks(dq, i)
  BY <1>1 DEF DeviceSide
<1>3. \A g \in Hids : Tie(sk, dq, ho, i, g) => g = h
  BY <1>1 DEF Matched
<1> QED BY <1>2, <1>3 DEF Over

\* host_close keeps the bytes.
LEMMA ClosesBytes == ASSUME IInv, IInv', BInv, NEW h \in Hids, host_close(h) PROVE BInv'
<1> PICK i : i = host[h].id
  OBVIOUS
<1> PICK k : k = Pkt("CLSE", h, i, <<>>)
  OBVIOUS
<1> PICK r : r = [host[h] EXCEPT !.st = "closed"]
  OBVIOUS
<1>1. /\ host[h].st = "open" /\ host' = [host EXCEPT ![h].st = "closed"]
      /\ h2d' = Append(h2d, k) /\ d2h' = d2h /\ session' = session
  BY DEF host_close
<1>u. UNCHANGED hostOnly
  BY DEF host_close
<1>2. PICK lost : lost = FALSE
  OBVIOUS
<1>3. /\ WireInv(sock, d2h, h2d, host, nextid) /\ h2d \in Seq(Packets)
      /\ host \in [Hids -> HostStreams] /\ Streams(sock, d2h, h2d, host, prog, cause, session = "lost")
      /\ i \in Ids /\ session = "on"
  BY <1>1, HostFacts
<1>4. (session = "lost") = lost /\ (session' = "lost") = lost
  BY <1>1, <1>2, <1>3
<1>5. Streams(sock, d2h, h2d, host, prog, cause, lost)
  BY <1>3, <1>4
<1>6. k \in Packets /\ k.cmd = "CLSE" /\ k.arg1 = i
  BY <1>3, EmptySeq DEF Pkt, Packets, Cmds
<1>7. PICK ho2, hq2 : ho2 = host' /\ hq2 = h2d'
  OBVIOUS
<1>8. ho2 = [host EXCEPT ![h] = r]
  BY <1>1, <1>3, <1>7
<1>9. r.st = "closed" /\ r.id = host[h].id /\ r.sent = host[h].sent /\ r.got = host[h].got
  <2>1. host[h] \in HostStreams
    BY <1>3
  <2> QED BY <2>1 DEF HostStreams
<1>10. \A g \in Hids :
         /\ ho2[g].id = host[g].id /\ ho2[g].sent = host[g].sent /\ ho2[g].got = host[g].got
         /\ ho2[g].st = host[g].st \/ ho2[g].st = "closed"
  BY <1>3, <1>8, <1>9
<1>11. Streams(sock, d2h, h2d, ho2, prog, cause, lost)
  BY ONLY <1>3, <1>5, <1>10, HostTurns
<1>12. Over(sock, d2h, ho2, i)
  <2>1. WireInv(sock, d2h, hq2, ho2, nextid)
    BY <1>1, <1>u, <1>7 DEF IInv, hostOnly
  <2>2. Tie(sock, d2h, ho2, i, h) /\ ho2[h].st \notin {"opening", "open"}
    BY <1>3, <1>8, <1>9 DEF Tie
  <2>3. i \in Ids
    BY <1>3
  <2> QED BY ONLY <2>1, <2>2, <2>3, h \in Hids, OverNow
<1>13. Streams(sock, d2h, Append(h2d, k), ho2, prog, cause, lost)
  BY ONLY <1>2, <1>3, <1>6, <1>11, <1>12, HostSays
<1>14. Streams(sock, d2h', h2d', host', prog, cause, lost)
  BY <1>1, <1>7, <1>13
<1> QED BY <1>u, <1>4, <1>14, HostBytes

\* host_write keeps the bytes.
LEMMA WritesBytes ==
  ASSUME IInv, BInv, NEW h \in Hids, NEW n \in 1..MaxPayload, host_write(h, n)
  PROVE  BInv'
<1> PICK i, m : i = host[h].id /\ m = host[h].sent
  OBVIOUS
<1> PICK data : data = [l \in 1..n |-> m + l]
  OBVIOUS
<1> PICK k : k = Pkt("WRTE", h, i, data)
  OBVIOUS
<1> PICK r : r = [host[h] EXCEPT !.ready = FALSE, !.sent = @ + n]
  OBVIOUS
<1>1. /\ host[h].st = "open"
      /\ host' = [host EXCEPT ![h].ready = FALSE, ![h].sent = @ + n]
      /\ h2d' = Append(h2d, k) /\ d2h' = d2h /\ session' = session
  BY DEF host_write
<1>u. UNCHANGED hostOnly
  BY DEF host_write
<1>2. PICK lost : lost = FALSE
  OBVIOUS
<1>3. /\ WireInv(sock, d2h, h2d, host, nextid) /\ h2d \in Seq(Packets)
      /\ host \in [Hids -> HostStreams] /\ Streams(sock, d2h, h2d, host, prog, cause, session = "lost")
      /\ i \in Ids /\ session = "on" /\ sock \in [Ids -> LocalSockets] /\ prog \in [Ids -> Programs]
  BY <1>1, HostFacts
<1>4. (session = "lost") = lost /\ (session' = "lost") = lost
  BY <1>1, <1>2, <1>3
<1>5. Streams(sock, d2h, h2d, host, prog, cause, lost)
  BY <1>3, <1>4
<1>6. m \in Nat /\ n \in Nat /\ host[h] \in HostStreams
  BY <1>3 DEF HostStreams
<1>7. data \in Seq(Nat)
  BY <1>6, UptoMore DEF Bytes
<1>8. k \in Packets /\ Fits(k, "WRTE", h, i) /\ k.data = data
  BY <1>3, <1>7 DEF Pkt, Packets, Cmds, Fits
<1>9. PICK ho2 : ho2 = host'
  OBVIOUS
<1>10. ho2 = [host EXCEPT ![h] = r]
  BY <1>1, <1>3, <1>6, <1>9 DEF HostStreams
<1>11. r.st = "open" /\ r.id = i /\ r.got = host[h].got /\ r.sent = m + n
  <2>1. PICK s \in Nat : s = m + n
    BY <1>6
  <2>2. r = [host[h] EXCEPT !.ready = FALSE, !.sent = s]
    BY <2>1, <1>6 DEF HostStreams
  <2> QED BY <2>1, <2>2, <1>1, <1>6 DEF HostStreams
<1>12. /\ \A g \in Hids : g # h => ho2[g] = host[g]
       /\ ho2[h].st = "open" /\ ho2[h].id = i /\ ho2[h].got = host[h].got /\ ho2[h].sent = m + n
  BY <1>3, <1>10, <1>11
<1>13. Streams(sock, d2h, Append(h2d, k), ho2, prog, cause, lost)
  <2>1. /\ ~lost /\ host[h].st = "open" /\ host[h].id = i /\ host[h].sent = m
        /\ k.data = [l \in 1..n |-> m + l]
    BY <1>1, <1>2, <1>8
  <2>2. /\ WireInv(sock, d2h, h2d, host, nextid) /\ h2d \in Seq(Packets) /\ i \in Ids
        /\ sock \in [Ids -> LocalSockets] /\ prog \in [Ids -> Programs]
    BY <1>3
  <2>3. m \in Nat /\ n \in Nat /\ k \in Packets /\ Fits(k, "WRTE", h, i)
    BY <1>6, <1>8
  <2> QED BY ONLY <2>1, <2>2, <2>3, <1>5, <1>12, h \in Hids, HostGives, SMTT(30)
<1>14. Streams(sock, d2h', h2d', host', prog, cause, lost)
  BY <1>1, <1>9, <1>13
<1> QED BY <1>u, <1>4, <1>14, HostBytes

\* host_receive keeps the bytes.
LEMMA ReceivesBytes == ASSUME IInv, IInv', BInv, host_receive PROVE BInv'
<1> PICK p : p = Head(d2h)
  OBVIOUS
<1> PICK h : h = p.arg1
  OBVIOUS
<1> PICK i : i = p.arg0
  OBVIOUS
<1> DEFINE known == session = "on" /\ h \in Hids /\ host[h].st \in {"opening", "open"}
           Okayed == /\ p.cmd = "OKAY" /\ known
                     /\ host' = [host EXCEPT ![h].st = "open", ![h].id = i, ![h].ready = TRUE]
                     /\ h2d' = h2d
           Data == /\ p.cmd = "WRTE" /\ known
                   /\ host' = [host EXCEPT ![h].got = @ \o p.data, ![h].owes = TRUE]
                   /\ h2d' = h2d
           Ended == /\ p.cmd = "CLSE" /\ known
                    /\ host' = [host EXCEPT ![h].st = "ended"]
                    /\ h2d' = IF host[h].st = "open" THEN Append(h2d, Pkt("CLSE", h, host[h].id, <<>>))
                              ELSE h2d
           Accepted == /\ p.cmd = "OPEN" /\ session = "on"
                       /\ \E g \in Hids :
                            /\ host[g].st = "none"
                            /\ host' = [host EXCEPT ![g].st = "open", ![g].id = i, ![g].ready = TRUE]
                            /\ h2d' = Append(h2d, Pkt("OKAY", g, i, <<>>))
           Refused == /\ p.cmd = "OPEN" /\ session = "on"
                      /\ h2d' = Append(h2d, Pkt("CLSE", 0, i, <<>>))
                      /\ host' = host
           Ignored == /\ session = "wait" \/ (p.cmd # "OPEN" /\ ~known)
                      /\ host' = host /\ h2d' = h2d
<1>1. /\ session \in {"wait", "on"} /\ d2h # <<>> /\ d2h' = Tail(d2h)
      /\ session' = IF p.cmd = "CNXN" THEN "on" ELSE session
      /\ Okayed \/ Data \/ Ended \/ Accepted \/ Refused \/ Ignored
  BY Zenon DEF host_receive
<1>u. UNCHANGED hostOnly
  BY Zenon DEF host_receive
<1> HIDE DEF Okayed, Data, Ended, Accepted, Refused, Ignored
<1>2. PICK lost : lost = FALSE
  OBVIOUS
<1>3. /\ Connected /\ WireInv(sock, d2h, h2d, host, nextid) /\ h2d \in Seq(Packets)
      /\ host \in [Hids -> HostStreams] /\ Streams(sock, d2h, h2d, host, prog, cause, session = "lost")
      /\ d2h \in Seq(Packets) /\ sock \in [Ids -> LocalSockets] /\ prog \in [Ids -> Programs]
      /\ \A g \in Hids : HostSide(sock, d2h, h2d, host, g)
  BY HostFacts
<1>4. (session = "lost") = lost /\ (session' = "lost") = lost /\ ~lost
  BY <1>1, <1>2
<1>5. Streams(sock, d2h, h2d, host, prog, cause, lost) /\ d2h # <<>>
  BY <1>1, <1>3, <1>4
<1>w. /\ d2h \in Seq(Packets) /\ d2h # <<>> /\ WireInv(sock, d2h, h2d, host, nextid)
      /\ Streams(sock, d2h, h2d, host, prog, cause, lost)
  BY <1>3, <1>5
<1>6. /\ p = d2h[1] /\ 1 \in DOMAIN d2h /\ p \in Packets
      /\ \A m \in DOMAIN Tail(d2h) :
           m + 1 \in DOMAIN d2h /\ Tail(d2h)[m] = d2h[m + 1] /\ m + 1 > 1
  <2>1. d2h \in Seq(Packets) /\ d2h # <<>>
    BY <1>1, <1>3
  <2>2. PICK n \in Nat : n = Len(d2h)
    BY <2>1, Shape
  <2>3. /\ n > 0 /\ DOMAIN d2h = 1..n /\ Head(d2h) = d2h[1] /\ Head(d2h) \in Packets
        /\ DOMAIN Tail(d2h) = 1..(n - 1)
        /\ \A k \in 1..(n - 1) : Tail(d2h)[k] = d2h[k + 1]
    BY <2>1, <2>2, Taken, Shape
  <2> QED BY <2>2, <2>3
<1>7. /\ p.cmd \in {"OKAY", "WRTE", "OPEN"} => i \in Ids
      /\ p.cmd \in {"OKAY", "WRTE", "CLSE"} => h \in Hids
  <2>1. FromDevice(d2h)
    BY DEF IInv, WireInv, WireType
  <2> QED BY <2>1, <1>6 DEF FromDevice
<1>8. PICK dq2, hq2, ho2 : dq2 = Tail(d2h) /\ hq2 = h2d' /\ ho2 = host'
  OBVIOUS
<1>9. WireInv(sock, dq2, hq2, ho2, nextid)
  BY <1>1, <1>u, <1>8 DEF IInv, hostOnly
\* It is enough to show this.
<1>10. ASSUME Streams(sock, dq2, hq2, ho2, prog, cause, lost) PROVE BInv'
  BY <1>1, <1>4, <1>8, <1>10, <1>u, HostBytes
\* A packet that is passed over.
<1>11. ASSUME \A g \in Hids : p.cmd = "WRTE" /\ p.arg1 = g => host[g].st \notin {"opening", "open"}
       PROVE  Streams(sock, dq2, h2d, host, prog, cause, lost)
  <2>1. Streams(sock, Tail(d2h), h2d, host, prog, cause, lost)
    <3>1. \A g \in Hids : Head(d2h).cmd = "WRTE" /\ Head(d2h).arg1 = g => host[g].st \notin {"opening", "open"}
      BY <1>11
    <3> QED BY ONLY <3>1, <1>w, HostPasses
  <2> QED BY <2>1, <1>8
<1>12. CASE Okayed
  <2>1. /\ p.cmd = "OKAY" /\ h \in Hids /\ host[h].st \in {"opening", "open"}
        /\ host' = [host EXCEPT ![h].st = "open", ![h].id = i, ![h].ready = TRUE] /\ h2d' = h2d
    BY <1>12 DEF Okayed
  <2>2. PICK r : r = [host[h] EXCEPT !.st = "open", !.id = i, !.ready = TRUE]
    OBVIOUS
  <2>3. i \in Ids /\ host[h] \in HostStreams
    BY <2>1, <1>3, <1>7
  <2>4. ho2 = [host EXCEPT ![h] = r]
    BY <2>1, <2>2, <2>3, <1>3, <1>8 DEF HostStreams
  <2>5. r.st = "open" /\ r.id = i /\ r.sent = host[h].sent /\ r.got = host[h].got
    BY <2>2, <2>3 DEF HostStreams
  <2>6. /\ \A g \in Hids : g # h => ho2[g] = host[g]
        /\ ho2[h].st = "open" /\ ho2[h].id = i /\ ho2[h].sent = host[h].sent /\ ho2[h].got = host[h].got
    BY <2>1, <2>4, <2>5, <1>3
  <2>7. Head(d2h).cmd = "OKAY" /\ Head(d2h).arg0 = i /\ Head(d2h).arg1 = h
    BY <2>1
  <2>8. Streams(sock, Tail(d2h), h2d, ho2, prog, cause, lost)
    BY ONLY <2>1, <2>3, <2>6, <2>7, <1>w, HostLearns
  <2> QED BY <2>1, <2>8, <1>8, <1>10
<1>13. CASE Data
  <2>1. /\ p.cmd = "WRTE" /\ h \in Hids /\ host[h].st \in {"opening", "open"}
        /\ host' = [host EXCEPT ![h].got = @ \o p.data, ![h].owes = TRUE] /\ h2d' = h2d
    BY <1>13 DEF Data
  <2>2. PICK d : d = Cat(host[h].got, p.data)
    OBVIOUS
  <2>3. PICK r : r = [host[h] EXCEPT !.got = d, !.owes = TRUE]
    OBVIOUS
  <2>4. i \in Ids /\ host[h] \in HostStreams
    BY <2>1, <1>3, <1>7
  <2>5. host[h].got \in Bytes
    BY ONLY <2>4 DEF HostStreams, Bytes
  <2>6. ho2 = [host EXCEPT ![h] = r]
    <3>1. d = host[h].got \o p.data
      BY <2>2 DEF Cat
    <3> QED BY <3>1, <2>1, <2>3, <2>4, <1>3, <1>8 DEF HostStreams
  <2>7. r.st = host[h].st /\ r.id = host[h].id /\ r.sent = host[h].sent /\ r.got = d
    BY <2>3, <2>4 DEF HostStreams
  <2>8. /\ \A g \in Hids : g # h => ho2[g] = host[g]
        /\ ho2[h].st = host[h].st /\ ho2[h].id = host[h].id /\ ho2[h].sent = host[h].sent
        /\ ho2[h].got = Cat(host[h].got, Head(d2h).data)
    BY <2>1, <2>2, <2>6, <2>7, <1>3
  <2>9. Fits(Head(d2h), "WRTE", i, h)
    BY <2>1 DEF Fits
  <2>10. Streams(sock, Tail(d2h), h2d, ho2, prog, cause, lost)
    BY ONLY <2>1, <2>4, <2>5, <2>8, <2>9, <1>w, HostGets
  <2> QED BY <2>1, <2>10, <1>8, <1>10
<1>14. CASE Ended
  <2>1. /\ p.cmd = "CLSE" /\ h \in Hids /\ host[h].st \in {"opening", "open"}
        /\ host' = [host EXCEPT ![h].st = "ended"]
        /\ h2d' = IF host[h].st = "open" THEN Append(h2d, Pkt("CLSE", h, host[h].id, <<>>))
                  ELSE h2d
    BY <1>14 DEF Ended
  <2>2. PICK r : r = [host[h] EXCEPT !.st = "ended"]
    OBVIOUS
  <2>3. host[h] \in HostStreams
    BY <2>1, <1>3
  <2>4. ho2 = [host EXCEPT ![h] = r]
    BY <2>1, <2>2, <2>3, <1>3, <1>8
  <2>5. r.st = "ended" /\ r.id = host[h].id /\ r.sent = host[h].sent /\ r.got = host[h].got
    BY <2>2, <2>3 DEF HostStreams
  <2>6. \A g \in Hids :
          /\ ho2[g].id = host[g].id /\ ho2[g].sent = host[g].sent /\ ho2[g].got = host[g].got
          /\ ho2[g].st = host[g].st \/ g = h
    BY <2>1, <2>4, <2>5, <1>3
  <2>7. Closes(d2h, h)
    BY <2>1, <1>6 DEF Closes
  <2>8. ~Asks(h2d, h) /\ \A j \in Ids : ~Joint(sock, host, j, h)
    <3>1. HostSide(sock, d2h, h2d, host, h)
      BY <2>1, <1>3
    <3> QED BY <3>1, <2>7 DEF HostSide, Joint
  <2>9. \A j \in Ids : ~Sends(dq2, j, h)
    <3>1. Silence(d2h)
      BY DEF IInv, WireInv, Wire
    <3>2. \A m \in DOMAIN d2h : m > 1 => d2h[m].arg1 # h
      BY <3>1, <2>1, <1>6 DEF Silence
    <3>3. \A m \in DOMAIN dq2 : dq2[m].arg1 # h
      BY <3>2, <1>6, <1>8
    <3> QED BY <3>3 DEF Sends
  <2>10. Streams(sock, dq2, h2d, host, prog, cause, lost)
    BY <2>1, <1>11
  <2>11. WireInv(sock, dq2, h2d, host, nextid)
    BY <2>1, <1>1, <1>3, <1>8, HostIgnores
  <2>12. ho2[h].st = "ended"
    BY <2>1, <2>4, <2>5, <1>3
  <2>13. Streams(sock, dq2, h2d, ho2, prog, cause, lost)
    <3>1. \A g \in Hids :
            \/ ho2[g].st = host[g].st
            \/ ho2[g].st = "closed"
            \/ host[g].st = "none" /\ ho2[g].st = "opening"
            \/ /\ host[g].st \in {"opening", "open"} /\ ho2[g].st = "ended"
               /\ ~Asks(h2d, g) /\ \A j \in Ids : ~Joint(sock, host, j, g) /\ ~Sends(dq2, j, g)
      BY <2>1, <2>6, <2>8, <2>9, <2>12
    <3> QED BY ONLY <3>1, <2>6, <2>10, <2>11, HostTurns
  <2>14. CASE host[h].st = "open"
    <3>1. PICK j : j = host[h].id
      OBVIOUS
    <3>2. PICK k : k = Pkt("CLSE", h, j, <<>>)
      OBVIOUS
    <3>3. j \in Ids
      BY <2>1, <2>14, <3>1, HostFacts
    <3>4. k \in Packets /\ k.cmd = "CLSE" /\ k.arg1 = j
      BY <2>1, <3>2, <3>3, EmptySeq DEF Pkt, Packets, Cmds
    <3>5. hq2 = Append(h2d, k)
      BY <2>1, <2>14, <3>1, <3>2, <1>8
    <3>6. Over(sock, dq2, ho2, j)
      <4>1. Tie(sock, dq2, ho2, j, h) /\ ho2[h].st \notin {"opening", "open"}
        BY <2>1, <2>6, <2>12, <3>1 DEF Tie
      <4>2. h \in Hids
        BY <2>1
      <4> QED BY ONLY <4>1, <4>2, <3>3, <1>9, OverNow
    <3>7. Streams(sock, dq2, Append(h2d, k), ho2, prog, cause, lost)
      BY ONLY <3>3, <3>4, <3>6, <2>13, <1>3, <1>4, HostSays
    <3> QED BY <3>5, <3>7, <1>10
  <2>15. CASE host[h].st # "open"
    BY <2>1, <2>13, <2>15, <1>8, <1>10
  <2> QED BY <2>14, <2>15
<1>15. ASSUME p.cmd = "OPEN"
       PROVE  Asks(d2h, i) /\ ~Asks(dq2, i) /\ sock[i].st \notin {"none", "smart"}
              /\ \A g \in Hids : ~Tie(sock, d2h, host, i, g)
  <2>1. DeviceSide(sock, d2h, host, nextid, i)
    BY <1>3, <1>7, <1>15 DEF WireInv, Wire
  <2>2. AskedAt(d2h, 1, i) /\ Asks(d2h, i)
    BY <1>6, <1>15 DEF Asks, AskedAt
  <2>3. AsksOnce(d2h, i)
    BY <2>1 DEF DeviceSide
  <2>4. ~Asks(dq2, i)
    <3>1. SUFFICES ASSUME NEW m \in DOMAIN dq2, AskedAt(dq2, m, i) PROVE FALSE
      BY DEF Asks
    <3>2. PICK l : l = m + 1
      OBVIOUS
    <3>3. l \in DOMAIN d2h /\ dq2[m] = d2h[l] /\ l # 1
      BY <3>2, <1>6, <1>8
    <3>4. AskedAt(d2h, l, i)
      BY <3>1, <3>3 DEF AskedAt
    <3> QED BY <3>3, <3>4, <2>2, <2>3, <1>6 DEF AsksOnce
  <2> QED BY <2>1, <2>2, <2>4 DEF DeviceSide
<1>16. CASE Accepted
  <2>1. p.cmd = "OPEN"
    BY <1>16 DEF Accepted
  <2>2. PICK g \in Hids : /\ host[g].st = "none"
                          /\ host' = [host EXCEPT ![g].st = "open", ![g].id = i, ![g].ready = TRUE]
                          /\ h2d' = Append(h2d, Pkt("OKAY", g, i, <<>>))
    BY <1>16, Zenon DEF Accepted
  <2>3. PICK k : k = Pkt("OKAY", g, i, <<>>)
    OBVIOUS
  <2>4. PICK r : r = [host[g] EXCEPT !.st = "open", !.id = i, !.ready = TRUE]
    OBVIOUS
  <2>5. i \in Ids /\ host[g] \in HostStreams /\ host[g] = Silent
    BY <2>1, <2>2, <1>3, <1>7 DEF HostSide
  <2>6. ho2 = [host EXCEPT ![g] = r]
    BY <2>2, <2>4, <2>5, <1>3, <1>8 DEF HostStreams
  <2>7. host[g].id = 0 /\ host[g].sent = 0 /\ host[g].got = <<>>
    BY <2>5 DEF Silent
  <2>8. r.st = "open" /\ r.id = i /\ r.sent = host[g].sent /\ r.got = host[g].got
    BY <2>4, <2>5 DEF HostStreams
  <2>9. /\ \A f \in Hids : f # g => ho2[f] = host[f]
        /\ ho2[g].st = "open" /\ ho2[g].id = i /\ ho2[g].sent = 0 /\ ho2[g].got = <<>>
    BY <2>6, <2>7, <2>8, <1>3
  <2>10. sock[i].st = "waiting" => Kept(sock[i], prog[i]) = <<>>
    <3>1. Watched(sock[i], batch[i]) /\ Heard(sock[i], prog[i])
      BY <2>5 DEF IInv, Local
    <3>2. sock[i].st = "waiting" => sock[i].queue = <<>> /\ prog[i].inb = <<>>
      BY <3>1 DEF Watched, Heard
    <3>3. FlattenSeq(<<>>) = <<>> /\ Cat(<<>>, <<>>) = <<>>
      BY FlatOne, Join
    <3> QED BY <3>2, <3>3 DEF Kept
  <2>11. Asks(d2h, i) /\ Head(d2h).cmd = "OPEN"
    BY <2>1, <1>15
  <2>12. Streams(sock, Tail(d2h), h2d, ho2, prog, cause, lost)
    BY ONLY <2>2, <2>5, <2>7, <2>9, <2>10, <2>11, <1>3, <1>5, g \in Hids, HostBegins
  <2>13. k \in Packets /\ k.cmd = "OKAY"
    BY <2>3, <2>5, EmptySeq DEF Pkt, Packets, Cmds
  <2>14. Streams(sock, Tail(d2h), Append(h2d, k), ho2, prog, cause, lost)
    BY ONLY <2>12, <2>13, <1>3, HostSays
  <2> QED BY <2>2, <2>3, <2>14, <1>8, <1>10
<1>17. CASE Refused
  <2>1. PICK k : k = Pkt("CLSE", 0, i, <<>>)
    OBVIOUS
  <2>2. p.cmd = "OPEN" /\ h2d' = Append(h2d, k) /\ host' = host
    BY <1>17, <2>1 DEF Refused
  <2>3. i \in Ids
    BY <2>2, <1>7
  <2>4. k \in Packets /\ k.cmd = "CLSE" /\ k.arg1 = i
    BY <2>1, <2>3, EmptySeq DEF Pkt, Packets, Cmds
  <2>5. Streams(sock, dq2, h2d, host, prog, cause, lost)
    BY <2>2, <1>11
  <2>6. Over(sock, dq2, host, i)
    <3>1. ~Asks(dq2, i) /\ sock[i].st \notin {"none", "smart"}
          /\ \A g \in Hids : ~Tie(sock, d2h, host, i, g)
      BY <2>2, <1>15
    <3>2. \A g \in Hids : Sends(dq2, i, g) => Sends(d2h, i, g)
      BY <2>3, <1>3, <1>5, <1>8, Shorter
    <3>3. \A g \in Hids : ~Tie(sock, dq2, host, i, g)
      BY <3>1, <3>2 DEF Tie
    <3> QED BY <3>1, <3>3 DEF Over
  <2>7. Streams(sock, dq2, Append(h2d, k), host, prog, cause, lost)
    BY ONLY <2>3, <2>4, <2>5, <2>6, <1>3, <1>4, HostSays
  <2> QED BY <2>2, <2>7, <1>8, <1>10
<1>18. CASE Ignored
  <2>1. (session = "wait" \/ (p.cmd # "OPEN" /\ ~known)) /\ host' = host /\ h2d' = h2d
    BY <1>18 DEF Ignored
  <2>2. \A g \in Hids : p.cmd = "WRTE" /\ p.arg1 = g => host[g].st \notin {"opening", "open"}
    BY <2>1, <1>1, <1>3 DEF Connected
  <2>3. Streams(sock, dq2, h2d, host, prog, cause, lost)
    BY <2>2, <1>11
  <2> QED BY <2>1, <2>3, <1>8, <1>10
<1> QED BY <1>1, <1>12, <1>13, <1>14, <1>16, <1>17, <1>18

-----------------------------------------------------------------------------
(* The theorems about the bytes.                                           *)

\* No stream, so no bytes.
LEMMA InitialBytes == Init => BInv
<1> SUFFICES ASSUME Init PROVE BInv
  OBVIOUS
<1>1. /\ sock = [i \in Ids |-> Unused] /\ d2h = <<>> /\ h2d = <<>>
      /\ prog = [i \in Ids |-> Idle] /\ host = [h \in Hids |-> Silent]
      /\ session = "off" /\ cause = [i \in Ids |-> "none"]
  BY DEF Init
<1>2. /\ Silent.st = "none" /\ Silent.id = 0 /\ Silent.sent = 0 /\ Silent.got = <<>>
      /\ Idle.made = 0 /\ Idle.out = <<>> /\ Idle.inb = <<>>
      /\ Unused.st = "none" /\ Unused.queue = <<>>
  BY DEF Silent, Idle, Unused
<1>3. \A k \in DOMAIN <<>> : FALSE
  OBVIOUS
<1>4. /\ \A x : ~Asks(d2h, x) /\ ~Asks(h2d, x) /\ ~Closes(h2d, x)
      /\ \A i, h : ~Sends(d2h, i, h)
  BY <1>1, <1>3 DEF Sends, Asks, Closes
<1>5. LastWords(h2d)
  BY <1>1, <1>3 DEF LastWords
<1>6. Dense(Kept(Unused, Idle))
  <2>1. FlattenSeq(<<>>) = <<>> /\ Cat(<<>>, <<>>) = <<>>
    BY FlatOne, Join
  <2>2. Kept(Unused, Idle) = <<>>
    BY <2>1, <1>2 DEF Kept
  <2>3. Dense(<<>>)
    <3>1. 0 \in Nat
      OBVIOUS
    <3> QED BY <3>1, UptoType
  <2> QED BY <2>2, <2>3
<1>7. ASSUME NEW i \in Ids
      PROVE  Own(sock[i], prog[i], cause[i], Asks(d2h, i)) /\ cause[i] # "host" /\ cause[i] # "eof"
  <2>1. sock[i] = Unused /\ prog[i] = Idle /\ cause[i] = "none" /\ ~Asks(d2h, i)
    BY <1>1, <1>4
  <2> QED BY <2>1, <1>2, <1>6 DEF Own
<1>8. \A i \in Ids, h \in Hids : ~Joint(sock, host, i, h)
  BY <1>1, <1>2 DEF Joint, Linked
<1>9. ASSUME NEW h \in Hids PROVE Theirs(sock, d2h, h2d, host, h)
  BY <1>1, <1>2, <1>4 DEF Theirs
<1>10. ASSUME NEW i \in Ids, NEW h \in Hids, NEW lost
       PROVE  /\ Inward(sock, h2d, host, prog, lost, i, h) /\ Parted(sock, host, prog, cause, i, h)
              /\ Outward(sock, d2h, host, prog, i, h) /\ Finished(sock, d2h, host, prog, cause, i, h)
  BY <1>7, <1>8 DEF Inward, Parted, Outward, Finished, Up, Joint
<1> QED BY <1>4, <1>5, <1>7, <1>9, <1>10 DEF BInv, Streams

\* Every step keeps the bytes.
LEMMA InductiveBytes == IInv /\ IInv' /\ BInv /\ [Next]_vars => BInv'
<1> SUFFICES ASSUME IInv, IInv', BInv, [Next]_vars PROVE BInv'
  OBVIOUS
<1>0. ASSUME sock' = sock, d2h' = d2h, h2d' = h2d, prog' = prog, host' = host,
             session' = session, cause' = cause
      PROVE  BInv'
  BY <1>0 DEF BInv
<1>1. CASE UNCHANGED vars
  BY <1>0, <1>1 DEF vars
<1>2. CASE fdevent_process
  BY <1>0, <1>2 DEF fdevent_process, envVars
<1>3. CASE MainPacket
  BY <1>3, DropBytes, CnxnBytes, OpenBytes, RefuseBytes, OkayBytes, ClseBytes, WrteBytes, Sync0Bytes
     DEF MainPacket
<1>4. CASE ss_listener_event_func
  BY <1>4, ListenBytes
<1>5. CASE close_all_sockets
  BY <1>5, CloseAllBytes
<1>6. ASSUME NEW i \in Ids, local_socket_event_func(i) PROVE BInv'
  BY <1>6, EventBytes
<1>7. ASSUME NEW i \in Ids, prog_write(i) \/ prog_request(i) \/ prog_read(i) \/ prog_close(i)
      PROVE  BInv'
  BY <1>7, ProgBytes
<1>8. CASE host_connect
  BY <1>8, ConnectBytes
<1>9. CASE host_receive
  BY <1>9, ReceivesBytes
<1>10. CASE link_lost
  BY <1>10, LostBytes
<1>11. ASSUME NEW h \in Hids, host_open(h) PROVE BInv'
  BY <1>11, OpensBytes
<1>12. ASSUME NEW h \in Hids, host_ack(h) PROVE BInv'
  BY <1>12, AcksBytes
<1>13. ASSUME NEW h \in Hids, host_close(h) PROVE BInv'
  BY <1>13, ClosesBytes
<1>14. ASSUME NEW h \in Hids, NEW n \in 1..MaxPayload, host_write(h, n) PROVE BInv'
  BY <1>14, WritesBytes
<1> QED BY <1>1, <1>2, <1>3, <1>4, <1>5, <1>6, <1>7, <1>8, <1>9, <1>10, <1>11, <1>12, <1>13, <1>14
        DEF Next

\* The inductive invariant of the bytes: what one end wrote is at the other end,
\* on the wire or in a queue, in order and once, for every stream, also for one
\* of which only one end knows yet or still.
THEOREM BytesInvariant == Spec => []BInv
<1>1. Init => IInv /\ BInv
  BY Initial, InitialBytes
<1>2. IInv /\ BInv /\ [Next]_vars => IInv' /\ BInv'
  BY Inductive, InductiveBytes
<1> QED BY <1>1, <1>2, PTL DEF Spec

\* Nothing is lost, repeated or reordered on a stream that both ends have: the
\* bytes that local_socket_enqueue wrote, that its queue holds and that are
\* under way are all that the host sent, and the other way round.
THEOREM DeliveredBytes == Spec => []Delivered
<1>1. IInv /\ BInv => Delivered
  <2> SUFFICES ASSUME IInv, BInv PROVE Delivered
    OBVIOUS
  <2>1. /\ sock \in [Ids -> LocalSockets] /\ prog \in [Ids -> Programs]
        /\ host \in [Hids -> HostStreams]
        /\ d2h \in Seq(Packets) /\ h2d \in Seq(Packets)
        /\ \A h \in Hids : host[h].st \in {"opening", "open"} => session = "on"
        /\ Streams(sock, d2h, h2d, host, prog, cause, session = "lost")
    BY HostFacts
  <2>2. ASSUME NEW i \in Ids PROVE prog[i].inb = Upto(Len(prog[i].inb))
    <3>1. Dense(Kept(sock[i], prog[i]))
      BY <2>1 DEF Streams, Own
    <3>2. prog[i].inb \in Bytes /\ FlattenSeq(sock[i].queue) \in Bytes
      BY <2>1, KeptType
    <3>3. Dense(Cat(prog[i].inb, FlattenSeq(sock[i].queue)))
      BY <3>1 DEF Kept
    <3>4. Dense(prog[i].inb)
      BY ONLY <3>2, <3>3, DenseFirst
    <3> QED BY <3>4 DEF Dense
  <2>3. ASSUME NEW i \in Ids, NEW h \in Hids, Paired(i, h)
        PROVE  /\ prog[i].inb \o FlattenSeq(sock[i].queue) \o Payload(h2d, h, i) = Upto(host[h].sent)
               /\ host[h].got \o Payload(d2h, i, h) \o prog[i].out = Upto(prog[i].made)
    <3>1. Linked(sock, i, h) /\ host[h].st = "open" /\ session # "lost"
      BY <2>1, <2>3 DEF Paired, Linked
    <3>2. Inward(sock, h2d, host, prog, session = "lost", i, h) /\ Outward(sock, d2h, host, prog, i, h)
      BY <2>1 DEF Streams
    <3>3. Cat(Kept(sock[i], prog[i]), Payload(h2d, h, i)) = Upto(host[h].sent)
      BY <3>1, <3>2 DEF Inward, Joint
    <3>4. Cat(Cat(host[h].got, Payload(d2h, i, h)), prog[i].out) = Upto(prog[i].made)
      BY <3>1, <3>2 DEF Outward, Up
    <3>5. prog[i].inb \o FlattenSeq(sock[i].queue) \o Payload(h2d, h, i) = Upto(host[h].sent)
      BY <3>3 DEF Kept, Cat
    <3>6. host[h].got \o Payload(d2h, i, h) \o prog[i].out = Upto(prog[i].made)
      BY <3>4 DEF Cat
    <3> QED BY <3>5, <3>6
  <2> QED BY <2>2, <2>3 DEF Delivered
<1> QED BY <1>1, Invariance, BytesInvariant, PTL

\* A socket that the host closed delivers what it had taken before it goes, as
\* long as its program stays: local_socket_close drops no queue.
THEOREM Drained == Spec => []DrainedBeforeGone
<1>1. IInv /\ BInv => DrainedBeforeGone
  <2> SUFFICES ASSUME IInv, BInv, NEW i \in Ids, NEW h \in Hids,
                      sock[i].st = "gone", cause[i] = "host", host[h].id = i, prog[i].end = "open"
               PROVE  prog[i].inb = Upto(host[h].sent)
    BY DEF DrainedBeforeGone
  <2>1. Kept(sock[i], prog[i]) = Upto(host[h].sent)
    BY DEF BInv, Streams, Parted
  <2>2. sock[i].queue = <<>> /\ prog \in [Ids -> Programs]
    BY DEF IInv, Local, Watched, Others
  <2>3. prog[i].inb \in Bytes
    BY <2>2 DEF Programs, Bytes
  <2>4. FlattenSeq(<<>>) = <<>> /\ Cat(prog[i].inb, <<>>) = prog[i].inb
    BY <2>3, FlatOne, Join
  <2> QED BY <2>1, <2>2, <2>4 DEF Kept
<1> QED BY <1>1, Invariance, BytesInvariant, PTL

-----------------------------------------------------------------------------
(* Streams that the host has left.                                         *)

\* After place k of the host's packets comes one that ends the stream of i.
Herald(q, k, i) == \E m \in DOMAIN q : m > k /\ Ending(q[m], i)

\* The packet at place k makes or may make a stream of socket i and host id h.
Starts(q, k, i, h) == AskedAt(q, k, h) \/ Fits(q[k], "OKAY", h, i)

\* A stream that the host has left, and one that adbd is still to learn of, is
\* followed by its end.
Heralded(sk, hq, ho, i, h) ==
  ho[h].st = "closed" =>
    /\ Linked(sk, i, h) => Herald(hq, 0, i)
    /\ \A k \in DOMAIN hq : Starts(hq, k, i, h) => Herald(hq, k, i)

OInv ==
  /\ \A i \in Ids : sock[i].st = "open" => online
  /\ \A i \in Ids, h \in Hids : Heralded(sock, h2d, host, i, h)

\* The next packet is taken: what was behind it still is.
LEMMA HeraldTaken ==
  ASSUME NEW q \in Seq(Packets), q # <<>>, NEW i, NEW k \in Nat, Herald(q, k, i),
         k = 0 => ~Ending(Head(q), i)
  PROVE  Herald(Tail(q), IF k = 0 THEN 0 ELSE k - 1, i)
<1>1. /\ Head(q) = q[1] /\ Len(q) \in Nat \ {0} /\ DOMAIN Tail(q) = 1..(Len(q) - 1)
      /\ \A j \in 1..(Len(q) - 1) : Tail(q)[j] = q[j + 1]
  BY Taken
<1>2. DOMAIN q = 1..Len(q)
  BY Shape
<1>3. PICK m \in 1..Len(q) : m > k /\ Ending(q[m], i)
  BY <1>2 DEF Herald
<1>4. m # 1
  BY <1>1, <1>3
<1>5. m - 1 \in 1..(Len(q) - 1) /\ m - 1 > (IF k = 0 THEN 0 ELSE k - 1) /\ (m - 1) + 1 = m
  BY <1>1, <1>3, <1>4
<1>6. Tail(q)[m - 1] = q[m]
  BY <1>1, <1>5
<1> QED BY <1>1, <1>3, <1>5, <1>6 DEF Herald

\* adbd takes a packet: a stream that ends is gone, and one that starts has its
\* end behind it.
LEMMA TakenHeralded ==
  ASSUME NEW sk, NEW sk2, NEW hq \in Seq(Packets), hq # <<>>, NEW ho,
         NEW i \in Ids, NEW h \in Hids, Heralded(sk, hq, ho, i, h),
         Linked(sk2, i, h) => (Linked(sk, i, h) /\ ~Ending(Head(hq), i)) \/ Starts(hq, 1, i, h)
  PROVE  Heralded(sk2, Tail(hq), ho, i, h)
<1> SUFFICES ASSUME ho[h].st = "closed"
             PROVE  /\ Linked(sk2, i, h) => Herald(Tail(hq), 0, i)
                    /\ \A k \in DOMAIN Tail(hq) : Starts(Tail(hq), k, i, h) => Herald(Tail(hq), k, i)
  BY DEF Heralded
<1>1. /\ Linked(sk, i, h) => Herald(hq, 0, i)
      /\ \A k \in DOMAIN hq : Starts(hq, k, i, h) => Herald(hq, k, i)
  BY DEF Heralded
<1>2. /\ Len(hq) \in Nat \ {0} /\ DOMAIN Tail(hq) = 1..(Len(hq) - 1) /\ DOMAIN hq = 1..Len(hq)
      /\ \A j \in 1..(Len(hq) - 1) : Tail(hq)[j] = hq[j + 1]
  BY Taken, Shape
<1>3. ASSUME Linked(sk2, i, h) PROVE Herald(Tail(hq), 0, i)
  <2>1. CASE Linked(sk, i, h) /\ ~Ending(Head(hq), i)
    <3>1. Herald(hq, 0, i) /\ 0 \in Nat
      BY <1>1, <2>1
    <3>2. Herald(Tail(hq), IF 0 = 0 THEN 0 ELSE 0 - 1, i)
      BY ONLY <3>1, <2>1, hq \in Seq(Packets), hq # <<>>, HeraldTaken
    <3> QED BY <3>2
  <2>2. CASE Starts(hq, 1, i, h)
    <3>1. 1 \in DOMAIN hq /\ 1 \in Nat
      BY <1>2
    <3>2. Herald(hq, 1, i)
      BY <1>1, <2>2, <3>1
    <3>3. Herald(Tail(hq), IF 1 = 0 THEN 0 ELSE 1 - 1, i)
      BY ONLY <3>1, <3>2, hq \in Seq(Packets), hq # <<>>, 1 # 0, HeraldTaken
    <3> QED BY <3>3
  <2> QED BY <1>3, <2>1, <2>2
<1>4. ASSUME NEW k \in DOMAIN Tail(hq), Starts(Tail(hq), k, i, h) PROVE Herald(Tail(hq), k, i)
  <2>1. k + 1 \in DOMAIN hq /\ k + 1 \in Nat /\ k + 1 # 0 /\ (k + 1) - 1 = k /\ Tail(hq)[k] = hq[k + 1]
    BY <1>2
  <2>2. Herald(hq, k + 1, i)
    BY <1>1, <1>4, <2>1 DEF Starts, AskedAt
  <2>3. Herald(Tail(hq), IF k + 1 = 0 THEN 0 ELSE (k + 1) - 1, i)
    BY ONLY <2>1, <2>2, hq \in Seq(Packets), hq # <<>>, HeraldTaken
  <2> QED BY <2>1, <2>3
<1> QED BY <1>3, <1>4

\* The host sends a packet, and leaves no stream with it.
LEMMA SentHeralded ==
  ASSUME NEW sk, NEW hq \in Seq(Packets), NEW p \in Packets, NEW ho, NEW ho2,
         NEW i \in Ids, NEW h \in Hids, Heralded(sk, hq, ho, i, h),
         ho2[h].st = "closed" =>
           ho[h].st = "closed" /\ ~(p.cmd = "OPEN" /\ p.arg0 = h) /\ ~Fits(p, "OKAY", h, i)
  PROVE  Heralded(sk, Append(hq, p), ho2, i, h)
<1> SUFFICES ASSUME ho2[h].st = "closed"
             PROVE  /\ Linked(sk, i, h) => Herald(Append(hq, p), 0, i)
                    /\ \A k \in DOMAIN Append(hq, p) :
                         Starts(Append(hq, p), k, i, h) => Herald(Append(hq, p), k, i)
  BY DEF Heralded
<1>1. /\ Linked(sk, i, h) => Herald(hq, 0, i)
      /\ \A k \in DOMAIN hq : Starts(hq, k, i, h) => Herald(hq, k, i)
  BY DEF Heralded
<1>2. /\ Len(hq) \in Nat /\ DOMAIN hq = 1..Len(hq) /\ DOMAIN Append(hq, p) = 1..(Len(hq) + 1)
      /\ \A j \in 1..Len(hq) : Append(hq, p)[j] = hq[j]
      /\ Append(hq, p)[Len(hq) + 1] = p
  BY Appended, Shape
<1>3. ASSUME NEW k, Herald(hq, k, i) PROVE Herald(Append(hq, p), k, i)
  BY <1>2, <1>3 DEF Herald
<1>4. ASSUME NEW k \in DOMAIN Append(hq, p), Starts(Append(hq, p), k, i, h)
      PROVE  Herald(Append(hq, p), k, i)
  <2>1. k \in DOMAIN hq /\ Append(hq, p)[k] = hq[k]
    <3>1. k # Len(hq) + 1
      BY <1>2, <1>4 DEF Starts, AskedAt
    <3> QED BY <3>1, <1>2
  <2> QED BY <2>1, <1>1, <1>3, <1>4 DEF Starts, AskedAt
<1> QED BY <1>1, <1>3, <1>4

\* The packet that ends a stream is sent.
LEMMA EndHeralded ==
  ASSUME NEW sk, NEW hq \in Seq(Packets), NEW p \in Packets, NEW ho,
         NEW i \in Ids, NEW h \in Hids, p.cmd \notin {"OPEN", "OKAY"},
         Linked(sk, i, h) \/ (\E k \in DOMAIN hq : Starts(hq, k, i, h)) => Ending(p, i)
  PROVE  Heralded(sk, Append(hq, p), ho, i, h)
<1>1. /\ Len(hq) \in Nat /\ DOMAIN hq = 1..Len(hq) /\ DOMAIN Append(hq, p) = 1..(Len(hq) + 1)
      /\ \A j \in 1..Len(hq) : Append(hq, p)[j] = hq[j]
      /\ Append(hq, p)[Len(hq) + 1] = p
  BY Appended, Shape
<1>2. Linked(sk, i, h) => Herald(Append(hq, p), 0, i)
  BY <1>1 DEF Herald
<1>3. ASSUME NEW k \in DOMAIN Append(hq, p), Starts(Append(hq, p), k, i, h)
      PROVE  Herald(Append(hq, p), k, i)
  <2>1. k \in DOMAIN hq /\ Append(hq, p)[k] = hq[k] /\ Len(hq) + 1 > k
    <3>1. k # Len(hq) + 1
      BY <1>1, <1>3 DEF Starts, AskedAt, Fits
    <3> QED BY <3>1, <1>1
  <2>2. Ending(p, i)
    BY <2>1, <1>3 DEF Starts, AskedAt
  <2> QED BY <2>1, <2>2, <1>1 DEF Herald
<1> QED BY <1>2, <1>3 DEF Heralded

\* A step of adbd or of a program that takes no packet.
LEMMA OrphansStill ==
  ASSUME OInv, host' = host, h2d' = h2d, online' = online,
         \A i \in Ids : sock'[i].st = "open" => sock[i].st = "open" /\ sock'[i].peer = sock[i].peer
  PROVE  OInv'
<1>1. \A i \in Ids, h \in Hids : Linked(sock', i, h) => Linked(sock, i, h)
  BY DEF Linked
<1>2. ASSUME NEW i \in Ids, NEW h \in Hids PROVE Heralded(sock', h2d, host, i, h)
  BY <1>1 DEF OInv, Heralded
<1> QED BY <1>2 DEF OInv

\* A step of adbd that takes one.
LEMMA OrphansTaken ==
  ASSUME IInv, OInv, NEW cmd, receive(cmd),
         \A i \in Ids : sock'[i].st = "open" => online',
         \A i \in Ids, h \in Hids : Linked(sock', i, h) =>
           (Linked(sock, i, h) /\ ~Ending(Head(h2d), i)) \/ Starts(h2d, 1, i, h)
  PROVE  OInv'
<1>1. h2d # <<>> /\ h2d' = Tail(h2d) /\ host' = host /\ h2d \in Seq(Packets)
  BY Fetch DEF IInv, WireInv, WireType
<1>2. PICK sk2 : sk2 = sock'
  OBVIOUS
<1>3. ASSUME NEW i \in Ids, NEW h \in Hids PROVE Heralded(sk2, Tail(h2d), host, i, h)
  BY <1>1, <1>2, TakenHeralded DEF OInv
<1> QED BY <1>1, <1>2, <1>3 DEF OInv

\* A step of the host that leaves no stream.
LEMMA OrphansHost ==
  ASSUME IInv, OInv, sock' = sock, online' = online,
         \A h \in Hids : host'[h].st = "closed" => host[h].st = "closed",
         h2d' = h2d \/ \E p \in Packets : /\ h2d' = Append(h2d, p)
                                          /\ p.cmd \in {"OPEN", "OKAY"} => host'[p.arg0].st # "closed"
  PROVE  OInv'
<1>1. h2d \in Seq(Packets)
  BY DEF IInv, WireInv, WireType
<1>2. PICK ho2 : ho2 = host'
  OBVIOUS
<1>3. CASE h2d' = h2d
  BY <1>3 DEF OInv, Heralded
<1>4. ASSUME NEW p \in Packets, h2d' = Append(h2d, p),
             p.cmd \in {"OPEN", "OKAY"} => host'[p.arg0].st # "closed"
      PROVE  OInv'
  <2>1. ASSUME NEW i \in Ids, NEW h \in Hids PROVE Heralded(sock, Append(h2d, p), ho2, i, h)
    <3>1. ho2[h].st = "closed" =>
            host[h].st = "closed" /\ ~(p.cmd = "OPEN" /\ p.arg0 = h) /\ ~Fits(p, "OKAY", h, i)
      BY <1>2, <1>4 DEF Fits
    <3> QED BY <3>1, <1>1, SentHeralded DEF OInv
  <2> QED BY <2>1, <1>2, <1>4 DEF OInv
<1> QED BY <1>3, <1>4

\* A socket that local_socket_close closed.
LEMMA CloseLeaves ==
  ASSUME NEW s \in LocalSockets
  PROVE  /\ local_socket_close(s).st \in {"closing", "gone"}
         /\ local_socket_close(s).queue \in {<<>>, s.queue}
<1>1. CASE s.st = "closing" \/ s.queue = <<>>
  <2>1. local_socket_close(s) = Gone
    BY <1>1 DEF local_socket_close
  <2> QED BY <2>1, Blank
<1>2. CASE ~(s.st = "closing" \/ s.queue = <<>>)
  <2>1. PICK t : t = [s EXCEPT !.st = "closing", !.peer = None, !.mask = @ \ {R}]
    OBVIOUS
  <2>2. t.st = "closing" /\ t.queue = s.queue
    BY <2>1 DEF LocalSockets
  <2> QED BY <2>1, <2>2, <1>2 DEF local_socket_close
<1> QED BY <1>1, <1>2

\* run_transport_disconnects leaves no stream.
LEMMA DisconnectsAll ==
  ASSUME IInv, run_transport_disconnects
  PROVE  \A i \in Ids : /\ sock'[i].st # "open"
                        /\ sock'[i] = sock[i] \/ sock'[i].queue \in {<<>>, sock[i].queue}
                        /\ cause'[i] \in {cause[i], "session"}
<1>1. sock \in [Ids -> LocalSockets]
  BY DEF IInv, WireInv, WireType
<1> SUFFICES ASSUME NEW i \in Ids
             PROVE  /\ sock'[i].st # "open"
                    /\ sock'[i] = sock[i] \/ sock'[i].queue \in {<<>>, sock[i].queue}
                    /\ cause'[i] \in {cause[i], "session"}
  OBVIOUS
<1>2. /\ sock'[i] = IF sock[i].st = "open" THEN local_socket_close(sock[i]) ELSE sock[i]
      /\ cause'[i] \in {cause[i], "session"}
  BY DEF run_transport_disconnects
<1> QED BY <1>1, <1>2, CloseLeaves

\* local_socket_event_func keeps a socket's peer or closes it.
LEMMA EventPeer ==
  ASSUME IInv, NEW i \in Ids, local_socket_event_func(i), sock'[i].st = "open"
  PROVE  sock[i].st = "open" /\ sock'[i].peer = sock[i].peer
<1> PICK s, ev : s = sock[i] /\ ev = batch[i]
  OBVIOUS
<1> PICK w : w = IF W \in ev THEN event_write(i) ELSE Nothing(s)
  OBVIOUS
<1> PICK r : r = IF R \in ev /\ ~w.ret THEN event_read(i, w.s) ELSE Nothing(w.s)
  OBVIOUS
<1>m. ASSUME NEW a, NEW b, NEW pk, Moves(i, a, b, pk), b.st = "open"
      PROVE  a.st = "open" /\ b.peer = a.peer
  BY <1>m DEF Moves, Alike, Off, Stays
<1>1. TypeOK /\ Local
  BY IInvType DEF IInv
<1>2. /\ sock \in [Ids -> LocalSockets] /\ prog \in [Ids -> Programs] /\ online \in BOOLEAN
      /\ s \in LocalSockets /\ Watched(s, ev) /\ ev \in SUBSET {R, W}
  BY <1>1 DEF TypeOK, Local
<1>3. ev # {} /\ sock'[i] = r.s
  BY <1>2, Zenon DEF local_socket_event_func
<1>4. /\ w.s \in LocalSockets /\ Moves(i, s, w.s, w.pkts)
      /\ Watched(w.s, IF w.ret THEN {} ELSE IF W \in ev THEN ev \ {W} ELSE ev)
      /\ ~w.ret => w.s.st \in {"smart", "open", "closing"}
  <2>1. CASE W \in ev
    BY <2>1, <1>1, WriteEvent
  <2>2. CASE W \notin ev
    <3>1. w.s = s /\ w.pkts = <<>> /\ w.ret = FALSE
      BY <2>2 DEF Nothing
    <3>2. Moves(i, s, s, <<>>)
      BY DEF Moves, Alike
    <3>3. s.st \in {"smart", "open", "closing"}
      BY <1>2, <1>3 DEF Watched, LocalSockets
    <3> QED BY <3>1, <3>2, <3>3, <2>2, <1>2
  <2> QED BY <2>1, <2>2
<1>5. w.s.st = "open" /\ r.s.peer = w.s.peer
  <2>1. CASE R \in ev /\ ~w.ret
    <3>1. PICK b : b = IF W \in ev THEN ev \ {W} ELSE ev
      OBVIOUS
    <3>2. R \in b /\ Watched(w.s, b)
      BY <2>1, <3>1, <1>4 DEF R, W
    <3>3. ReadDone(i, w.s, event_read(i, w.s))
      BY <3>2, <2>1, <1>2, <1>4, ReadEvent
    <3>4. PICK t, p1, p2 : Moves(i, w.s, t, p1) /\ Moves(i, t, r.s, p2)
      BY <3>3, <2>1 DEF ReadDone
    <3>5. t.st = "open" /\ r.s.peer = t.peer
      BY <3>4, <1>3, <1>m, sock'[i].st = "open"
    <3> QED BY <3>4, <3>5, <1>m
  <2>2. CASE ~(R \in ev /\ ~w.ret)
    <3>1. r.s = w.s
      BY <2>2 DEF Nothing
    <3> QED BY <3>1, <1>3
  <2> QED BY <2>1, <2>2
<1> QED BY <1>3, <1>4, <1>5, <1>m

\* The packets that make a stream.
LEMMA OpenOrphans == ASSUME IInv, OInv, handle_OPEN PROVE OInv'
<1> PICK n, h : n = nextid /\ h = Head(h2d).arg0
  OBVIOUS
<1>1. /\ receive("OPEN") /\ online' = online /\ online
      /\ sock' = [sock EXCEPT ![n] = create_local_socket("open", h)]
  BY DEF handle_OPEN
<1>2. Head(h2d).cmd = "OPEN" /\ Head(h2d) = h2d[1] /\ sock \in [Ids -> LocalSockets]
  <2>1. h2d # <<>> /\ h2d \in Seq(Packets) /\ Head(h2d).cmd = "OPEN"
    BY <1>1, Fetch DEF IInv, WireInv, WireType
  <2> QED BY <2>1, Taken DEF IInv, WireInv, WireType
<1>3. create_local_socket("open", h).peer = h
  BY DEF create_local_socket, Unused
<1>4. ASSUME NEW i \in Ids, NEW g \in Hids, Linked(sock', i, g)
      PROVE  (Linked(sock, i, g) /\ ~Ending(Head(h2d), i)) \/ Starts(h2d, 1, i, g)
  <2>1. CASE i = n
    <3>1. sock'[i].peer = h
      BY <2>1, <1>1, <1>2, <1>3
    <3> QED BY <3>1, <1>2, <1>4 DEF Linked, Starts, AskedAt
  <2>2. CASE i # n
    <3>1. sock'[i] = sock[i]
      BY <2>2, <1>1, <1>2
    <3> QED BY <3>1, <1>2, <1>4 DEF Linked, Ending
  <2> QED BY <2>1, <2>2
<1> QED BY <1>1, <1>4, OrphansTaken

LEMMA OkayOrphans == ASSUME IInv, OInv, handle_OKAY PROVE OInv'
<1> PICK h : h = Head(h2d).arg0
  OBVIOUS
<1>1. PICK i \in Ids :
        LET s == local_socket_ready([sock[i] EXCEPT !.st = "open",
                                       !.peer = IF @ = None THEN h ELSE @])
        IN  /\ receive("OKAY") /\ online /\ online' = online
            /\ find_local_socket(Head(h2d).arg1, i) /\ Known(i)
            /\ sock' = [sock EXCEPT ![i] = s]
  BY Zenon DEF handle_OKAY
<1> PICK s : s = local_socket_ready([sock[i] EXCEPT !.st = "open",
                                       !.peer = IF @ = None THEN h ELSE @])
  OBVIOUS
<1>2. /\ Head(h2d).cmd = "OKAY" /\ Head(h2d).arg1 = i /\ Head(h2d) = h2d[1]
      /\ sock \in [Ids -> LocalSockets] /\ sock[i].st \in {"waiting", "open"}
      /\ sock' = [sock EXCEPT ![i] = s] /\ Watched(sock[i], batch[i])
  <2>1. h2d # <<>> /\ h2d \in Seq(Packets) /\ Head(h2d).cmd = "OKAY"
    BY <1>1, Fetch DEF IInv, WireInv, WireType
  <2> QED BY <2>1, <1>1, Taken DEF IInv, Local, WireInv, WireType, find_local_socket, Known
<1>3. s.peer = IF sock[i].peer = None THEN h ELSE sock[i].peer
  <2>1. PICK o, g : o = sock[i] /\ g = IF o.peer = None THEN h ELSE o.peer
    OBVIOUS
  <2>2. PICK t : t = [o EXCEPT !.st = "open", !.peer = g]
    OBVIOUS
  <2>3. t.peer = g /\ s = local_socket_ready(t) /\ DOMAIN t = DOMAIN o
    BY <2>1, <2>2, <1>2 DEF LocalSockets
  <2>4. s.peer = t.peer
    BY <2>3, <2>1, <1>2 DEF local_socket_ready, LocalSockets
  <2> QED BY <2>1, <2>3, <2>4
<1>4. ASSUME NEW j \in Ids, NEW g \in Hids, Linked(sock', j, g)
      PROVE  (Linked(sock, j, g) /\ ~Ending(Head(h2d), j)) \/ Starts(h2d, 1, j, g)
  <2>1. CASE j = i /\ sock[i].peer = None
    <3>1. g = h
      BY <2>1, <1>2, <1>3, <1>4 DEF Linked
    <3> QED BY <3>1, <2>1, <1>2 DEF Starts, Fits
  <2>2. CASE j = i /\ sock[i].peer # None
    <3>1. g = sock[i].peer /\ sock[i].st = "open"
      BY <2>2, <1>2, <1>3, <1>4 DEF Linked, Watched
    <3> QED BY <3>1, <2>2, <1>2 DEF Linked, Ending
  <2>3. CASE j # i
    <3>1. sock'[j] = sock[j]
      BY <2>3, <1>2
    <3> QED BY <3>1, <1>2, <1>4 DEF Linked, Ending
  <2> QED BY <2>1, <2>2, <2>3
<1> QED BY <1>1, <1>4, OrphansTaken

\* A WRTE that is handled belongs to a linked socket.
LEMMA WrteLinked ==
  ASSUME IInv, receive("WRTE"), NEW i \in Ids, Head(h2d).arg1 = i, sock[i].st \in {"waiting", "open"}
  PROVE  sock[i].st = "open" /\ sock[i].peer = Head(h2d).arg0 /\ Linked(sock, i, Head(h2d).arg0)
<1> PICK h : h = Head(h2d).arg0
  OBVIOUS
<1>1. h2d # <<>> /\ Head(h2d).cmd = "WRTE" /\ h \in Hids
  BY Fetch
<1>2. WireInv(sock, d2h, h2d, host, nextid) /\ Peers(sock)
  BY PeersIn DEF IInv
<1>3. Head(h2d).cmd \in {"OKAY", "WRTE"} /\ Head(h2d).arg0 = h
  BY <1>1
<1>4. sock[i].st = "open" => sock[i].peer \in Hids
  BY <1>2 DEF Peers
<1>5. (sock[i].st = "open" => Linked(sock, i, h)) /\ (Head(h2d).cmd = "WRTE" => sock[i].st # "waiting")
  BY ONLY <1>1, <1>2, <1>3, <1>4, i \in Ids, Head(h2d).arg1 = i, SamePeer
<1> QED BY <1>1, <1>5 DEF Linked

\* The other packets make none, and those that end one do so.
LEMMA PacketOrphans ==
  ASSUME IInv, OInv, drop_packet \/ refuse_OPEN \/ handle_CLSE \/ handle_WRTE PROVE OInv'
<1>0. sock \in [Ids -> LocalSockets]
  BY DEF IInv, WireInv, WireType
<1>a. ASSUME NEW cmd, cmd \notin {"CNXN", "SYNC0"}, receive(cmd), online' = online,
             \A i \in Ids : sock'[i].st = "open" =>
               /\ sock[i].st = "open" /\ sock'[i].peer = sock[i].peer
               /\ ~(cmd = "CLSE" /\ Head(h2d).arg1 = i)
      PROVE  OInv'
  <2>1. online /\ Head(h2d).cmd = cmd
    BY <1>a, Fetch
  <2>2. \A i \in Ids : sock'[i].st = "open" => online'
    BY <2>1, <1>a
  <2>3. \A i \in Ids, h \in Hids : Linked(sock', i, h) => Linked(sock, i, h) /\ ~Ending(Head(h2d), i)
    BY <2>1, <1>a DEF Linked, Ending
  <2> QED BY <2>2, <2>3, <1>a, OrphansTaken
<1>1. CASE drop_packet
  <2>1. PICK cmd \in {"OPEN", "OKAY", "CLSE", "WRTE"} : receive(cmd)
    BY <1>1 DEF drop_packet
  <2>2. /\ \/ ~online
           \/ Head(h2d).cmd # "OPEN" /\ ~ \E i \in Ids : find_local_socket(Head(h2d).arg1, i) /\ Known(i)
        /\ sock' = sock /\ online' = online
    BY <1>1 DEF drop_packet
  <2>3. online /\ Head(h2d).cmd = cmd
    BY <2>1, Fetch
  <2>4. ASSUME NEW i \in Ids, sock[i].st = "open" PROVE ~(cmd = "CLSE" /\ Head(h2d).arg1 = i)
    BY <2>2, <2>3, <2>4 DEF find_local_socket, Known
  <2> QED BY <2>1, <2>2, <2>4, <1>a
<1>2. CASE refuse_OPEN
  <2>1. receive("OPEN") /\ sock' = sock /\ online' = online
    BY <1>2 DEF refuse_OPEN
  <2> QED BY <2>1, <1>a
<1>3. CASE handle_CLSE
  <2>1. PICK i \in Ids :
          /\ receive("CLSE") /\ Head(h2d).arg1 = i /\ online' = online
          /\ sock' = [sock EXCEPT ![i] = Closed(sock[i], "host").s]
    BY <1>3 DEF handle_CLSE, find_local_socket
  <2>2. Closed(sock[i], "host").s.st \in {"closing", "gone"}
    <3>1. PICK t, pk, d : /\ t = local_socket_close(sock[i]) /\ pk = remote_socket_close(sock[i])
                          /\ d = close_told(sock[i])
      OBVIOUS
    <3>2. Closed(sock[i], "host").s = t
      BY <3>1 DEF Closed, Nothing
    <3> QED BY <3>1, <3>2, <1>0, CloseLeaves
  <2>3. ASSUME NEW j \in Ids, sock'[j].st = "open"
        PROVE  sock'[j] = sock[j] /\ Head(h2d).arg1 # j
    BY <2>1, <2>2, <2>3, <1>0
  <2> QED BY <2>1, <2>3, <1>a
<1>4. CASE handle_WRTE
  <2> PICK g, data : g = Head(h2d).arg0 /\ data = Head(h2d).data
    OBVIOUS
  <2>1. PICK i \in Ids :
          /\ receive("WRTE") /\ Head(h2d).arg1 = i /\ online' = online
          /\ sock[i].st \in {"waiting", "open"}
          /\ sock' = [sock EXCEPT ![i] = local_socket_enqueue(i, data).s]
    BY <1>4 DEF handle_WRTE, find_local_socket, Known
  <2>2. sock[i].st = "open" /\ sock[i].peer = g
    BY <2>1, WrteLinked
  <2>3. Enqueues(i, g, sock[i], data, local_socket_enqueue(i, data))
    <3>1. h2d # <<>> /\ Head(h2d) \in Packets /\ g \in Hids
      BY <2>1, Fetch
    <3>2. data \in Seq(Nat) /\ prog \in [Ids -> Programs] /\ Watched(sock[i], batch[i])
      BY <3>1 DEF Packets, IInv, Others, Local
    <3> QED BY <3>1, <3>2, <2>2, <1>0, Enqueue
  <2>4. ASSUME NEW j \in Ids, sock'[j].st = "open"
        PROVE  sock[j].st = "open" /\ sock'[j].peer = sock[j].peer
    <3>1. CASE j = i
      <4>1. sock'[i] = local_socket_enqueue(i, data).s
        BY <2>1, <1>0
      <4> QED BY <3>1, <4>1, <2>2, <2>3, <2>4 DEF Enqueues
    <3>2. CASE j # i
      BY <3>2, <2>1, <2>4, <1>0
    <3> QED BY <3>1, <3>2
  <2> QED BY <2>1, <2>4, <1>a
<1> QED BY <1>1, <1>2, <1>3, <1>4

\* A greeting and the end of the link leave no stream.
LEMMA SessionOrphans == ASSUME IInv, OInv, handle_CNXN \/ handle_SYNC0 PROVE OInv'
<1>1. PICK cmd : receive(cmd)
  BY DEF handle_CNXN, handle_SYNC0
<1>2. ASSUME NEW i \in Ids PROVE sock'[i].st # "open"
  <2>1. CASE run_transport_disconnects
    BY <2>1, DisconnectsAll
  <2>2. CASE ~run_transport_disconnects
    <3>1. sock' = sock /\ ~online
      BY <2>2 DEF handle_CNXN, handle_SYNC0
    <3> QED BY <3>1 DEF OInv
  <2> QED BY <2>1, <2>2
<1> QED BY <1>1, <1>2, OrphansTaken DEF Linked

\* The steps of the event loop and of the programs.
LEMMA LoopOrphans ==
  ASSUME IInv, OInv,
         \/ fdevent_process \/ ss_listener_event_func \/ close_all_sockets
         \/ \E i \in Ids : \/ local_socket_event_func(i)
                           \/ prog_write(i) \/ prog_request(i) \/ prog_read(i) \/ prog_close(i)
  PROVE  OInv'
<1>0. sock \in [Ids -> LocalSockets]
  BY DEF IInv, WireInv, WireType
<1>1. CASE ~(ss_listener_event_func \/ close_all_sockets \/ \E i \in Ids : local_socket_event_func(i))
  <2>1. host' = host /\ h2d' = h2d /\ online' = online /\ sock' = sock
    BY <1>1 DEF fdevent_process, prog_write, prog_request, prog_read, prog_close, progOnly,
                hostVars, envVars
  <2> QED BY <2>1, OrphansStill
<1>2. CASE ss_listener_event_func
  <2>1. /\ host' = host /\ h2d' = h2d /\ online' = online
        /\ sock' = [sock EXCEPT ![nextid] = create_local_socket("smart", None)]
    BY <1>2 DEF ss_listener_event_func, hostVars
  <2>2. create_local_socket("smart", None).st = "smart"
    BY DEF create_local_socket, Unused
  <2>3. \A i \in Ids : sock'[i].st = "open" => sock'[i] = sock[i]
    BY <2>1, <2>2, <1>0
  <2> QED BY <2>1, <2>3, OrphansStill
<1>3. CASE close_all_sockets
  <2>1. /\ host' = host /\ h2d' = h2d /\ online' = online
        /\ sock' = [i \in Ids |-> IF sock[i].st = "waiting" THEN Gone ELSE sock[i]]
    BY <1>3 DEF close_all_sockets, envVars
  <2>2. \A i \in Ids : sock'[i].st = "open" => sock'[i] = sock[i]
    BY <2>1, Blank
  <2> QED BY <2>1, <2>2, OrphansStill
<1>4. ASSUME NEW i \in Ids, local_socket_event_func(i) PROVE OInv'
  <2>1. host' = host /\ h2d' = h2d /\ online' = online /\ \E s : sock' = [sock EXCEPT ![i] = s]
    BY <1>4, Zenon DEF local_socket_event_func, hostVars
  <2>2. \A j \in Ids : sock'[j].st = "open" => sock[j].st = "open" /\ sock'[j].peer = sock[j].peer
    <3>1. \A j \in Ids : j # i => sock'[j] = sock[j]
      BY <2>1, <1>0
    <3> QED BY <3>1, <1>4, EventPeer
  <2> QED BY <2>1, <2>2, OrphansStill
<1> QED BY <1>1, <1>2, <1>3, <1>4

\* The host starts over, or loses the link: whatever is left has its end behind it.
LEMMA LeftOrphans == ASSUME IInv, BInv, OInv, host_connect \/ link_lost PROVE OInv'
<1>1. sock' = sock /\ online' = online
  BY DEF host_connect, link_lost, hostOnly
<1>2. h2d \in Seq(Packets)
  BY HostFacts
<1>3. PICK q \in Seq(Packets), p \in Packets : h2d' = Append(q, p) /\ p.cmd \in {"CNXN", "SYNC0"}
  <2>1. CASE host_connect
    <3>1. Pkt("CNXN", 0, 0, <<>>) \in Packets /\ Pkt("CNXN", 0, 0, <<>>).cmd = "CNXN"
      BY DEF Pkt, Packets, Cmds
    <3> QED BY <3>1, <2>1, <1>2 DEF host_connect
  <2>2. CASE link_lost
    <3>1. Pkt("SYNC0", 0, 0, <<>>) \in Packets /\ Pkt("SYNC0", 0, 0, <<>>).cmd = "SYNC0"
      BY DEF Pkt, Packets, Cmds
    <3>2. PICK n \in 0..Len(h2d) : h2d' = Append(SubSeq(h2d, 1, n), Pkt("SYNC0", 0, 0, <<>>))
      BY <2>2 DEF link_lost
    <3>3. SubSeq(h2d, 1, n) \in Seq(Packets)
      BY <1>2, LastCut DEF BInv, Streams
    <3> QED BY <3>1, <3>2, <3>3
  <2> QED BY <2>1, <2>2
<1>4. PICK ho : ho = host'
  OBVIOUS
<1>5. ASSUME NEW i \in Ids, NEW h \in Hids PROVE Heralded(sock, Append(q, p), ho, i, h)
  <2>1. Ending(p, i) /\ p.cmd \notin {"OPEN", "OKAY"}
    BY <1>3 DEF Ending
  <2> QED BY ONLY <2>1, q \in Seq(Packets), p \in Packets, i \in Ids, h \in Hids, EndHeralded
<1> QED BY <1>1, <1>3, <1>4, <1>5 DEF OInv

\* The host closes one stream: its CLSE is on its way.
LEMMA ClosedOrphans == ASSUME IInv, BInv, OInv, NEW h \in Hids, host_close(h) PROVE OInv'
<1> PICK i : i = host[h].id
  OBVIOUS
<1>1. /\ sock' = sock /\ online' = online /\ host[h].st = "open"
      /\ h2d' = Append(h2d, Pkt("CLSE", h, i, <<>>))
      /\ host' = [host EXCEPT ![h].st = "closed"]
  BY DEF host_close, hostOnly
<1>2. /\ h2d \in Seq(Packets) /\ i \in Ids /\ host \in [Hids -> HostStreams]
      /\ HostSide(sock, d2h, h2d, host, h)
  BY <1>1, HostFacts
<1>3. PICK p : p = Pkt("CLSE", h, i, <<>>)
  OBVIOUS
<1>4. p \in Packets /\ p.cmd = "CLSE" /\ p.arg1 = i
  BY <1>2, <1>3 DEF Pkt, Packets, Cmds
<1>5. Matched(sock, d2h, host) /\ Replies(sock, h2d, host)
  BY DEF IInv, WireInv, Wire
<1>6. Tie(sock, d2h, host, i, h)
  BY DEF Tie
<1>7. ASSUME NEW j \in Ids, Linked(sock, j, h) \/ \E k \in DOMAIN h2d : Starts(h2d, k, j, h)
      PROVE  Ending(p, j)
  <2>1. CASE Linked(sock, j, h)
    <3>1. Tie(sock, d2h, host, j, h)
      BY <2>1 DEF Tie
    <3>2. j = i
      BY <3>1, <1>2, <1>5, <1>6 DEF Matched
    <3> QED BY <3>2, <1>4 DEF Ending
  <2>2. ASSUME NEW k \in DOMAIN h2d, Starts(h2d, k, j, h) PROVE Ending(p, j)
    <3>1. ~AskedAt(h2d, k, h)
      BY <1>2, <1>6 DEF HostSide, Asks
    <3>2. h2d[k].cmd = "OKAY" /\ h2d[k].arg0 = h /\ h2d[k].arg1 = j
      BY <3>1, <2>2 DEF Starts, Fits
    <3>3. j = i
      BY <3>2, <1>5 DEF Replies
    <3> QED BY <3>3, <1>4 DEF Ending
  <2> QED BY <1>7, <2>1, <2>2
<1>8. PICK ho : ho = host' /\ \A g \in Hids : g # h => ho[g] = host[g]
  BY <1>1, <1>2
<1>9. ASSUME NEW j \in Ids, NEW g \in Hids PROVE Heralded(sock, Append(h2d, p), ho, j, g)
  <2>1. CASE g = h
    <3>1. Linked(sock, j, h) \/ (\E k \in DOMAIN h2d : Starts(h2d, k, j, h)) => Ending(p, j)
      BY <1>7
    <3>2. p.cmd \notin {"OPEN", "OKAY"}
      BY <1>4
    <3>3. Heralded(sock, Append(h2d, p), ho, j, h)
      BY ONLY <3>1, <3>2, <1>2, <1>4, j \in Ids, h \in Hids, EndHeralded
    <3> QED BY <2>1, <3>3
  <2>2. CASE g # h
    <3>1. ho[g].st = "closed" =>
            host[g].st = "closed" /\ ~(p.cmd = "OPEN" /\ p.arg0 = g) /\ ~Fits(p, "OKAY", g, j)
      BY <2>2, <1>4, <1>8 DEF Fits
    <3> QED BY <3>1, <1>2, <1>4, SentHeralded DEF OInv
  <2> QED BY <2>1, <2>2
<1> QED BY <1>1, <1>3, <1>8, <1>9 DEF OInv

\* The other steps of the host leave no stream.
LEMMA HostOrphans ==
  ASSUME IInv, BInv, OInv,
         \/ host_receive
         \/ \E h \in Hids : host_open(h) \/ host_ack(h) \/ \E n \in 1..MaxPayload : host_write(h, n)
  PROVE  OInv'
<1>1. /\ sock' = sock /\ online' = online /\ IInv
      /\ host \in [Hids -> HostStreams]
      /\ d2h \in Seq(Packets) /\ h2d \in Seq(Packets)
      /\ \A h \in Hids : host[h].st = "open" => host[h].id \in Ids
  BY HostFacts DEF host_receive, host_open, host_ack, host_write, hostOnly
<1>2. ASSUME NEW h \in Hids, host_open(h) PROVE OInv'
  <2>1. PICK p : p = Pkt("OPEN", h, 0, <<>>)
    OBVIOUS
  <2>2. p \in Packets /\ p.arg0 = h
    BY <2>1 DEF Pkt, Packets, Cmds
  <2>3. h2d' = Append(h2d, p) /\ host' = [host EXCEPT ![h].st = "opening"]
    BY <1>2, <2>1 DEF host_open
  <2>4. /\ host'[h].st = "opening"
        /\ \A g \in Hids : host'[g].st = "closed" => host[g].st = "closed"
    BY <2>3, <1>1 DEF HostStreams
  <2> QED BY <2>2, <2>3, <2>4, <1>1, OrphansHost
<1>3. ASSUME NEW h \in Hids, host_ack(h) PROVE OInv'
  <2>1. PICK p : p = Pkt("OKAY", h, host[h].id, <<>>)
    OBVIOUS
  <2>2. host[h].st = "open" /\ h2d' = Append(h2d, p) /\ host' = [host EXCEPT ![h].owes = FALSE]
    BY <1>3, <2>1 DEF host_ack
  <2>3. p \in Packets /\ p.arg0 = h
    BY <2>1, <2>2, <1>1 DEF Pkt, Packets, Cmds
  <2>4. host'[h].st = "open" /\ \A g \in Hids : host'[g].st = host[g].st
    BY <2>2, <1>1 DEF HostStreams
  <2> QED BY <2>2, <2>3, <2>4, <1>1, OrphansHost
<1>4. ASSUME NEW h \in Hids, NEW n \in 1..MaxPayload, host_write(h, n) PROVE OInv'
  <2>1. PICK m, d : m = host[h].sent /\ d = [k \in 1..n |-> m + k]
    OBVIOUS
  <2>2. PICK p : p = Pkt("WRTE", h, host[h].id, d)
    OBVIOUS
  <2>3. /\ host[h].st = "open" /\ h2d' = Append(h2d, p)
        /\ host' = [host EXCEPT ![h].ready = FALSE, ![h].sent = @ + n]
    BY <1>4, <2>1, <2>2 DEF host_write
  <2>4. d \in Seq(Nat)
    BY <2>1, <1>1, SocketsAssumption, UptoMore DEF Bytes, HostStreams
  <2>5. p \in Packets /\ p.cmd = "WRTE"
    BY <2>2, <2>3, <2>4, <1>1 DEF Pkt, Packets, Cmds
  <2>6. \A g \in Hids : host'[g].st = host[g].st
    BY <2>3, <1>1 DEF HostStreams
  <2> QED BY <2>3, <2>5, <2>6, <1>1, OrphansHost
<1>5. CASE host_receive
  <2> PICK p, h : p = Head(d2h) /\ h = p.arg1
    OBVIOUS
  <2>1. d2h # <<>> /\ p \in Packets
    <3>1. d2h # <<>>
      BY <1>5 DEF host_receive
    <3> QED BY <3>1, <1>1, Taken
  <2>2. CASE host' = host /\ h2d' = h2d
    BY <2>2, <1>1, OrphansHost
  <2>3. CASE /\ h \in Hids /\ host[h].st \in {"opening", "open"} /\ p.cmd = "OKAY"
             /\ host' = [host EXCEPT ![h].st = "open", ![h].id = p.arg0, ![h].ready = TRUE]
             /\ h2d' = h2d
    <3>1. \A g \in Hids : host'[g].st = "closed" => host[g].st = "closed"
      BY <2>3, <1>1 DEF HostStreams
    <3> QED BY <3>1, <2>3, <1>1, OrphansHost
  <2>4. CASE h \in Hids /\ host' = [host EXCEPT ![h].got = @ \o p.data, ![h].owes = TRUE] /\ h2d' = h2d
    <3>1. \A g \in Hids : host'[g].st = "closed" => host[g].st = "closed"
      BY <2>4, <1>1 DEF HostStreams
    <3> QED BY <3>1, <2>4, <1>1, OrphansHost
  <2>5. CASE /\ h \in Hids /\ host' = [host EXCEPT ![h].st = "ended"]
             /\ h2d' = IF host[h].st = "open" THEN Append(h2d, Pkt("CLSE", h, host[h].id, <<>>))
                       ELSE h2d
    <3>1. \A g \in Hids : host'[g].st = "closed" => host[g].st = "closed"
      BY <2>5, <1>1 DEF HostStreams
    <3>2. host[h].st = "open" =>
            Pkt("CLSE", h, host[h].id, <<>>) \in Packets /\ Pkt("CLSE", h, host[h].id, <<>>).cmd = "CLSE"
      BY <2>5, <1>1 DEF Pkt, Packets, Cmds
    <3>3. h2d' = h2d \/ \E k \in Packets : h2d' = Append(h2d, k) /\ k.cmd = "CLSE"
      BY <3>2, <2>5
    <3> QED BY <3>1, <3>3, <1>1, OrphansHost
  <2>6. ASSUME NEW g \in Hids, host[g].st = "none", p.cmd = "OPEN",
               host' = [host EXCEPT ![g].st = "open", ![g].id = p.arg0, ![g].ready = TRUE],
               h2d' = Append(h2d, Pkt("OKAY", g, p.arg0, <<>>))
        PROVE  OInv'
    <3>1. host'[g].st = "open" /\ \A f \in Hids : host'[f].st = "closed" => host[f].st = "closed"
      BY <2>6, <1>1 DEF HostStreams
    <3>2. PICK k : k = Pkt("OKAY", g, p.arg0, <<>>)
      OBVIOUS
    <3>3. k \in Packets /\ k.arg0 = g
      BY <3>2, <2>1 DEF Pkt, Packets, Cmds
    <3>4. h2d' = Append(h2d, k) /\ host'[k.arg0].st # "closed"
      BY <2>6, <3>1, <3>2, <3>3
    <3> QED BY <3>1, <3>3, <3>4, <1>1, OrphansHost
  <2>7. CASE host' = host /\ h2d' = Append(h2d, Pkt("CLSE", 0, p.arg0, <<>>))
    <3>1. PICK k : k = Pkt("CLSE", 0, p.arg0, <<>>)
      OBVIOUS
    <3>2. k \in Packets /\ k.cmd = "CLSE"
      BY <3>1, <2>1 DEF Pkt, Packets, Cmds
    <3> QED BY <3>1, <3>2, <2>7, <1>1, OrphansHost
  <2> QED BY <1>5, <2>2, <2>3, <2>4, <2>5, <2>6, <2>7, Zenon DEF host_receive
<1> QED BY <1>2, <1>3, <1>4, <1>5

LEMMA InitialOrphans == Init => OInv
<1> SUFFICES ASSUME Init PROVE OInv
  OBVIOUS
<1>1. h2d = <<>> /\ DOMAIN h2d = {} /\ sock = [i \in Ids |-> Unused] /\ host = [h \in Hids |-> Silent]
  BY DEF Init
<1>2. \A i \in Ids : sock[i].st = "none"
  BY <1>1 DEF Unused
<1>3. \A h \in Hids : host[h].st = "none"
  BY <1>1 DEF Silent
<1> QED BY <1>2, <1>3 DEF OInv, Heralded

LEMMA InductiveOrphans == IInv /\ BInv /\ OInv /\ [Next]_vars => OInv'
<1> SUFFICES ASSUME IInv, BInv, OInv, [Next]_vars PROVE OInv'
  OBVIOUS
<1>1. CASE UNCHANGED vars
  <2>1. host' = host /\ h2d' = h2d /\ online' = online /\ sock' = sock
    BY <1>1 DEF vars
  <2> QED BY <2>1, OrphansStill
<1>2. CASE MainPacket
  BY <1>2, PacketOrphans, SessionOrphans, OpenOrphans, OkayOrphans DEF MainPacket
<1>3. CASE \/ fdevent_process \/ ss_listener_event_func \/ close_all_sockets
           \/ \E i \in Ids : \/ local_socket_event_func(i)
                             \/ prog_write(i) \/ prog_request(i) \/ prog_read(i) \/ prog_close(i)
  BY <1>3, LoopOrphans
<1>4. CASE host_connect \/ link_lost
  BY <1>4, LeftOrphans
<1>5. CASE \/ host_receive
           \/ \E h \in Hids : host_open(h) \/ host_ack(h) \/ \E n \in 1..MaxPayload : host_write(h, n)
  BY <1>5, HostOrphans
<1>6. ASSUME NEW h \in Hids, host_close(h) PROVE OInv'
  BY <1>6, ClosedOrphans
<1> QED BY <1>1, <1>2, <1>3, <1>4, <1>5, <1>6 DEF Next

\* A stream that the host has left, adbd is about to end (run_transport_disconnects,
\* handle_CLSE): what ends it is already on its way, so none survives a second CNXN.
THEOREM NotOrphaned == Spec => []NoOrphans
<1>1. IInv /\ BInv /\ OInv => NoOrphans
  <2> SUFFICES ASSUME IInv, BInv, OInv, NEW i \in Ids, sock[i].st = "open",
                      host[sock[i].peer].st \in {"ended", "closed"}
               PROVE  \E k \in DOMAIN h2d : Ending(h2d[k], i)
    BY DEF NoOrphans
  <2>1. PICK h \in Hids : h = sock[i].peer
    BY PeersIn DEF Peers
  <2>2. Linked(sock, i, h) /\ Joint(sock, host, i, h)
    BY <2>1 DEF Linked, Joint
  <2>3. host[h].st = "closed"
    BY <2>1, <2>2 DEF BInv, Streams, Theirs
  <2>4. Herald(h2d, 0, i)
    BY <2>2, <2>3 DEF OInv, Heralded
  <2> QED BY <2>4 DEF Herald
<1> QED BY <1>1, InitialOrphans, InductiveOrphans, Invariance, BytesInvariant, PTL DEF Spec

-----------------------------------------------------------------------------
(* Streams that a failed write closes.                                     *)

\* A queue holds bytes, or is empty.
Solid(s) == s.queue # <<>> => FlattenSeq(s.queue) # <<>>

\* The host sent the stream of socket i more than its descriptor took.
Short(ho, pr, i) == \E h \in Hids : ho[h].id = i /\ Len(pr[i].inb) < ho[h].sent

EInv ==
  /\ \A i \in Ids : Solid(sock[i])
  /\ \A k \in DOMAIN h2d : h2d[k].cmd = "WRTE" => h2d[k].data # <<>>
  /\ session = "lost" => \A h \in Hids : host[h].st # "ended"
  /\ \A i \in Ids : cause[i] = "error" =>
       prog[i].end = "closed" /\ (session # "lost" => Short(host, prog, i))

\* Bytes that follow others make them more.
LEMMA Longer ==
  ASSUME NEW x \in Bytes, NEW y \in Bytes
  PROVE  /\ Len(Cat(x, y)) = Len(x) + Len(y) /\ Len(x) \in Nat /\ Len(y) \in Nat
         /\ y # <<>> => Len(y) > 0
         /\ Cat(x, y) = <<>> => x = <<>> /\ y = <<>>
<1>1. x \in Seq(Nat) /\ y \in Seq(Nat)
  BY DEF Bytes
<1>2. Len(x) \in Nat /\ Len(y) \in Nat /\ (x = <<>> <=> Len(x) = 0) /\ (y = <<>> <=> Len(y) = 0)
  BY <1>1, Shape
<1>3. Len(x \o y) = Len(x) + Len(y)
  BY <1>1, ConcatProperties
<1>4. x \o y = <<>> => Len(x \o y) = 0
  BY EmptySeq
<1> QED BY <1>2, <1>3, <1>4 DEF Cat

\* As long as the link is up, bytes in the queue or on their way to a linked
\* socket are bytes that the host sent and the descriptor did not take.
LEMMA Unwritten ==
  ASSUME IInv, BInv, session # "lost", NEW i \in Ids, NEW h \in Hids, Linked(sock, i, h),
         FlattenSeq(sock[i].queue) # <<>> \/ Payload(h2d, h, i) # <<>>
  PROVE  host[h].id = i /\ Len(prog[i].inb) < host[h].sent
<1>1. /\ sock[i] \in LocalSockets /\ prog[i] \in Programs /\ h2d \in Seq(Packets)
      /\ host[h] \in HostStreams /\ Matched(sock, d2h, host)
  BY DEF IInv, Others, WireInv, WireType, Wire
<1>2. PICK a \in Bytes, b \in Bytes, c \in Bytes :
        a = prog[i].inb /\ b = FlattenSeq(sock[i].queue) /\ c = Payload(h2d, h, i)
  BY <1>1, KeptType, PayType
<1>3. PICK n \in Nat : n = host[h].sent
  BY <1>1 DEF HostStreams
<1>4. Cat(Cat(a, b), c) = Upto(n)
  <2>1. Joint(sock, host, i, h)
    BY DEF Joint
  <2>2. Cat(Kept(sock[i], prog[i]), Payload(h2d, h, i)) = Upto(host[h].sent)
    BY <2>1 DEF BInv, Streams, Inward
  <2> QED BY <2>2, <1>2, <1>3 DEF Kept
<1>5. Len(a) + Len(b) + Len(c) = n /\ Len(a) \in Nat /\ Len(b) \in Nat /\ Len(c) \in Nat
  <2>1. PICK d \in Bytes : d = Cat(a, b)
    BY Join
  <2>2. Len(d) = Len(a) + Len(b) /\ Len(Cat(d, c)) = Len(d) + Len(c)
    BY <2>1, Longer
  <2>3. Len(Upto(n)) = n
    BY UptoType
  <2>4. Len(a) \in Nat /\ Len(b) \in Nat /\ Len(c) \in Nat
    BY Longer
  <2> QED BY <2>1, <2>2, <2>3, <2>4, <1>4
<1>6. Len(b) > 0 \/ Len(c) > 0
  BY <1>2, Longer
<1>7. Len(a) < n /\ n # 0
  BY <1>5, <1>6
<1>8. host[h].id \in Ids
  <2>1. host[h].id # 0
    BY <1>3, <1>7 DEF BInv, Streams, Theirs
  <2> QED BY <2>1, <1>1 DEF HostStreams
<1>9. host[h].id = i
  <2>1. Tie(sock, d2h, host, i, h) /\ Tie(sock, d2h, host, host[h].id, h)
    BY DEF Tie
  <2> QED BY <2>1, <1>1, <1>8 DEF Matched
<1> QED BY <1>2, <1>3, <1>7, <1>9

\* What a step of adbd or of a program does to socket j.
Fails(j) ==
  /\ Solid(sock'[j])
  /\ prog[j].end = "closed" => prog'[j].end = "closed" /\ prog'[j].inb = prog[j].inb
  /\ cause'[j] = "error" /\ cause[j] # "error" =>
       /\ prog[j].end = "closed" /\ sock[j].st = "open"
       /\ sock[j].queue # <<>> \/ Payload(h2d, sock[j].peer, j) # <<>>

LEMMA FailsKept ==
  ASSUME IInv, BInv, EInv, host' = host, session' = session,
         h2d' = h2d \/ (h2d # <<>> /\ h2d' = Tail(h2d)), \A j \in Ids : Fails(j)
  PROVE  EInv'
<1>1. \A i \in Ids : Solid(sock'[i])
  BY DEF Fails
<1>2. \A k \in DOMAIN h2d' : h2d'[k].cmd = "WRTE" => h2d'[k].data # <<>>
  <2>1. CASE h2d' = h2d
    BY <2>1 DEF EInv
  <2>2. CASE h2d # <<>> /\ h2d' = Tail(h2d)
    <3>1. h2d \in Seq(Packets)
      BY HostFacts
    <3>2. /\ Len(h2d) \in Nat \ {0} /\ DOMAIN Tail(h2d) = 1..(Len(h2d) - 1) /\ DOMAIN h2d = 1..Len(h2d)
          /\ \A m \in 1..(Len(h2d) - 1) : Tail(h2d)[m] = h2d[m + 1]
      BY <2>2, <3>1, Taken, Shape
    <3>3. \A k \in DOMAIN Tail(h2d) : k + 1 \in DOMAIN h2d /\ Tail(h2d)[k] = h2d[k + 1]
      BY <3>2
    <3> QED BY <3>3, <2>2 DEF EInv
  <2> QED BY <2>1, <2>2
<1>3. ASSUME NEW i \in Ids, cause'[i] = "error"
      PROVE  prog'[i].end = "closed" /\ (session # "lost" => Short(host, prog', i))
  <2>1. prog[i].end = "closed" /\ (session # "lost" => Short(host, prog, i))
    <3>1. CASE cause[i] = "error"
      BY <3>1 DEF EInv
    <3>2. CASE cause[i] # "error"
      <4>1. /\ prog[i].end = "closed" /\ sock[i].st = "open"
            /\ sock[i].queue # <<>> \/ Payload(h2d, sock[i].peer, i) # <<>>
        BY <3>2, <1>3 DEF Fails
      <4>2. PICK h \in Hids : h = sock[i].peer
        BY <4>1, PeersIn DEF Peers
      <4>3. Linked(sock, i, h) /\ (FlattenSeq(sock[i].queue) # <<>> \/ Payload(h2d, h, i) # <<>>)
        BY <4>1, <4>2 DEF Linked, EInv, Solid
      <4>4. session # "lost" => host[h].id = i /\ Len(prog[i].inb) < host[h].sent
        BY <4>3, Unwritten
      <4> QED BY <4>1, <4>4 DEF Short
    <3> QED BY <3>1, <3>2
  <2>2. prog'[i].end = "closed" /\ prog'[i].inb = prog[i].inb
    BY <2>1 DEF Fails
  <2> QED BY <2>1, <2>2 DEF Short
<1> QED BY <1>1, <1>2, <1>3 DEF EInv, Short

\* A socket that is left alone, or closed otherwise.
LEMMA NotFailed ==
  ASSUME EInv, NEW j \in Ids, sock'[j].queue \in {<<>>, sock[j].queue},
         prog'[j].inb = prog[j].inb, prog[j].end = "closed" => prog'[j].end = "closed",
         cause'[j] = "error" => cause[j] = "error"
  PROVE  Fails(j)
<1>1. Solid(sock'[j])
  BY DEF EInv, Solid
<1> QED BY <1>1 DEF Fails

\* The bytes of a queue that was written in part.
LEMMA RestSolid ==
  ASSUME NEW x \in Bytes, NEW n \in Nat, n < Len(x)
  PROVE  FlattenSeq(<<rest(x, n)>>) # <<>>
<1>1. Len(x) \in Nat
  BY Shape DEF Bytes
<1>2. n \in 0..Len(x)
  BY <1>1
<1>3. rest(x, n) \in Seq(Nat) /\ x = Cat(SubSeq(x, 1, n), rest(x, n)) /\ SubSeq(x, 1, n) \in Bytes
  BY <1>2, Cut DEF rest, Bytes
<1>4. FlattenSeq(<<rest(x, n)>>) = rest(x, n)
  BY <1>3, FlatOne
<1>5. rest(x, n) # <<>>
  <2>1. SUFFICES ASSUME rest(x, n) = <<>> PROVE FALSE
    OBVIOUS
  <2>2. x = SubSeq(x, 1, n)
    BY <2>1, <1>3, Join
  <2>3. Len(SubSeq(x, 1, n)) = n
    <3>1. \A k \in 1..n : x[k] \in Nat
      BY <1>2, Shape DEF Bytes
    <3> QED BY <3>1, SubSeqProperties
  <2> QED BY <2>2, <2>3, <1>1
<1> QED BY <1>4, <1>5

\* The writing half of local_socket_event_func.
LEMMA WriteFails ==
  ASSUME TypeOK, Local, NEW i \in Ids, W \in batch[i], Solid(sock[i]), NEW w, w = event_write(i)
  PROVE  /\ Solid(w.s) /\ (Broken(i) => w.wrote = <<>>) /\ w.why \in {"none", "error"}
         /\ w.why = "error" => Broken(i)
         /\ sock[i].queue # <<>> /\ sock[i].st \in {"open", "closing"}
<1> PICK s : s = sock[i]
  OBVIOUS
<1> PICK all : all = FlattenSeq(s.queue)
  OBVIOUS
<1> PICK n : n = adb_write(i, all)
  OBVIOUS
<1>1. s \in LocalSockets /\ Watched(s, batch[i]) /\ prog \in [Ids -> Programs]
  BY DEF TypeOK, Local
<1>2. s.queue # <<>> /\ s.st \in {"open", "closing"}
  BY <1>1 DEF Watched
<1>3. all \in Seq(Nat) /\ Len(all) \in Nat
  BY <1>1, FlattenType, Shape DEF LocalSockets
<1>4. n \in 0..Len(all)
  BY <1>1, <1>3, Written
<1>5. CASE Broken(i)
  <2>1. w = Closed(s, "error")
    BY <1>2, <1>5 DEF event_write
  <2>2. PICK c, p, d : c = local_socket_close(s) /\ p = remote_socket_close(s) /\ d = close_told(s)
    OBVIOUS
  <2>3. w.s = c /\ w.wrote = <<>> /\ w.why = "error"
    BY <2>1, <2>2 DEF Closed, Nothing
  <2>4. c.queue \in {<<>>, s.queue}
    BY <2>2, <1>1, CloseLeaves
  <2> QED BY <2>3, <2>4, <1>2, <1>5 DEF Solid
<1>6. CASE ~Broken(i) /\ n < Len(all)
  <2>1. PICK q : q = <<rest(all, n)>>
    OBVIOUS
  <2>2. w = [Nothing(s) EXCEPT !.s.queue = q, !.wrote = SubSeq(all, 1, n), !.ret = TRUE]
    BY <1>6, <2>1 DEF event_write
  <2>3. w.s = [s EXCEPT !.queue = q] /\ w.why = "none"
    BY <2>2 DEF Nothing
  <2>4. w.s.queue = q
    BY <2>3, <1>1 DEF LocalSockets
  <2>5. FlattenSeq(q) # <<>>
    BY <2>1, <1>3, <1>4, <1>6, RestSolid DEF Bytes
  <2> QED BY <2>3, <2>4, <2>5, <1>2, <1>6 DEF Solid
<1>7. CASE ~Broken(i) /\ ~(n < Len(all)) /\ s.st = "closing"
  <2>1. w = [Nothing(s) EXCEPT !.s = Gone, !.wrote = all, !.ret = TRUE]
    BY <1>7 DEF event_write
  <2>2. w.s = Gone /\ w.why = "none"
    BY <2>1 DEF Nothing
  <2> QED BY <2>2, <1>2, <1>7, Blank DEF Solid
<1>8. CASE ~Broken(i) /\ ~(n < Len(all)) /\ s.st = "open"
  <2>1. w = [Nothing(s) EXCEPT !.s.queue = <<>>, !.s.mask = @ \ {W}, !.wrote = all,
                               !.pkts = remote_socket_ready(i, s.peer)]
    BY <1>8 DEF event_write
  <2>2. w.s = [s EXCEPT !.queue = <<>>, !.mask = @ \ {W}] /\ w.why = "none"
    BY <2>1 DEF Nothing
  <2>3. w.s.queue = <<>>
    BY <2>2, <1>1 DEF LocalSockets
  <2> QED BY <2>2, <2>3, <1>2, <1>8 DEF Solid
<1> QED BY <1>2, <1>5, <1>6, <1>7, <1>8

\* The reading half.
LEMMA ReadFails ==
  ASSUME prog \in [Ids -> Programs], online \in BOOLEAN, NEW i \in Ids,
         NEW s \in LocalSockets, s.st \in {"smart", "open", "closing"},
         NEW b, Watched(s, b), R \in b, NEW r, r = event_read(i, s)
  PROVE  r.why # "error" /\ r.s.queue \in {<<>>, s.queue}
<1> PICK n : n = Smaller(Len(prog[i].out), MaxPayload)
  OBVIOUS
<1>1. n \in Nat /\ n <= Len(prog[i].out)
  BY SocketsAssumption, Shape DEF Smaller, Programs
<1> PICK u : u = Reads(i, s, n)
  OBVIOUS
<1>2. r = IF at_eof(i, n) /\ ~u.ret
            THEN [Closed(u.s, "eof") EXCEPT !.pkts = u.pkts \o @, !.took = u.took]
            ELSE u
  BY DEF event_read, Reads
<1>3. u.s \in LocalSockets
  BY <1>1, ReadsEvent DEF ReadResult
<1>4. u.why # "error" /\ u.s.queue \in {<<>>, s.queue}
  <2>1. CASE s.st = "smart"
    <3>1. u = smart_socket_enqueue(i, s) /\ s.queue = <<>>
      BY <2>1 DEF Reads, Watched
    <3>2. Requests(s, u)
      BY <3>1, <2>1, RequestDoes
    <3> QED BY <3>2 DEF Requests
  <2>2. CASE s.st = "open" /\ n > 0
    <3>1. PICK t, pk : t = stop_reading(s) /\ pk = <<Pkt("WRTE", i, s.peer, SubSeq(prog[i].out, 1, n))>>
      OBVIOUS
    <3>2. u = [Nothing(s) EXCEPT !.s = t, !.took = n, !.pkts = pk]
      BY <2>2, <3>1 DEF Reads
    <3>3. u.s = t /\ u.why = "none" /\ t.queue = s.queue
      BY <3>1, <3>2 DEF Nothing, stop_reading, LocalSockets
    <3> QED BY <3>3
  <2>3. CASE s.st # "smart" /\ ~(s.st = "open" /\ n > 0)
    <3>1. u = [Nothing(s) EXCEPT !.took = n]
      BY <2>3 DEF Reads
    <3>2. u.s = s /\ u.why = "none"
      BY <3>1 DEF Nothing
    <3> QED BY <3>2
  <2> QED BY <2>1, <2>2, <2>3
<1>5. CASE ~(at_eof(i, n) /\ ~u.ret)
  BY <1>2, <1>4, <1>5
<1>6. CASE at_eof(i, n) /\ ~u.ret
  <2>1. PICK c, p, d : c = local_socket_close(u.s) /\ p = remote_socket_close(u.s) /\ d = close_told(u.s)
    OBVIOUS
  <2>2. r = [[Nothing(u.s) EXCEPT !.s = c, !.pkts = p, !.told = d, !.why = "eof", !.ret = TRUE]
               EXCEPT !.pkts = u.pkts \o @, !.took = u.took]
    BY <1>2, <1>6, <2>1 DEF Closed
  <2>3. r.s = c /\ r.why = "eof"
    BY <2>2, Zenon DEF Nothing
  <2>4. c.queue \in {<<>>, u.s.queue}
    BY <2>1, <1>3, CloseLeaves
  <2> QED BY <2>3, <2>4, <1>4
<1> QED BY <1>5, <1>6

LEMMA EventErrors ==
  ASSUME IInv, BInv, EInv, NEW i \in Ids, local_socket_event_func(i) PROVE EInv'
<1> PICK s, ev, p, c : s = sock[i] /\ ev = batch[i] /\ p = prog[i] /\ c = cause[i]
  OBVIOUS
<1> PICK w : w = IF W \in ev THEN event_write(i) ELSE Nothing(s)
  OBVIOUS
<1> PICK r : r = IF R \in ev /\ ~w.ret THEN event_read(i, w.s) ELSE Nothing(w.s)
  OBVIOUS
<1> PICK x : x = [r EXCEPT !.wrote = w.wrote, !.told = w.told \o @]
  OBVIOUS
<1> PICK y : y = Served(i, x)
  OBVIOUS
<1>1. /\ ev # {}
      /\ sock' = [sock EXCEPT ![i] = r.s]
      /\ prog' = [prog EXCEPT ![i] = y]
      /\ cause' = IF w.why # "none" THEN Because(i, w.why)
                  ELSE IF r.why # "none" THEN Because(i, r.why) ELSE cause
      /\ h2d' = h2d /\ host' = host /\ session' = session
  BY Zenon DEF local_socket_event_func, hostVars
<1>2. /\ sock \in [Ids -> LocalSockets] /\ prog \in [Ids -> Programs] /\ cause \in [Ids -> Whys]
      /\ s \in LocalSockets /\ p \in Programs /\ c \in Whys /\ online \in BOOLEAN
      /\ TypeOK /\ Local /\ Solid(s)
  BY IInvType DEF IInv, Others, WireInv, WireType, EInv
<1>3. Own(s, p, c, Asks(d2h, i))
  BY DEF BInv, Streams
<1>4. WriteLeaves(i, s, p, c, ev, w)
  <2>1. batch[i] # {} /\ w = IF W \in batch[i] THEN event_write(i) ELSE Nothing(sock[i])
    BY <1>1, Zenon
  <2>2. WriteLeaves(i, sock[i], prog[i], cause[i], batch[i], w)
    BY <2>1, WritesDo
  <2> QED BY <2>2
<1>5. /\ Solid(w.s) /\ (p.end = "closed" => w.wrote = <<>>) /\ w.why \in {"none", "error"}
      /\ w.why = "error" => p.end = "closed" /\ s.queue # <<>> /\ s.st \in {"open", "closing"}
  <2>1. CASE W \in ev
    <3>1. W \in batch[i] /\ Solid(sock[i]) /\ w = event_write(i)
      BY <2>1, <1>2
    <3>2. /\ Solid(w.s) /\ (Broken(i) => w.wrote = <<>>) /\ w.why \in {"none", "error"}
          /\ w.why = "error" => Broken(i)
          /\ sock[i].queue # <<>> /\ sock[i].st \in {"open", "closing"}
      BY ONLY <3>1, <1>2, i \in Ids, WriteFails
    <3> QED BY <3>2 DEF Broken
  <2>2. CASE W \notin ev
    <3>1. w.s = s /\ w.wrote = <<>> /\ w.why = "none"
      BY <2>2 DEF Nothing
    <3> QED BY <3>1, <1>2
  <2> QED BY <2>1, <2>2
<1>6. DOMAIN r = Fields /\ r.took \in Nat /\ r.why # "error" /\ r.s.queue \in {<<>>, w.s.queue}
  <2>1. CASE R \in ev /\ ~w.ret
    <3>1. PICK b : b = IF W \in ev THEN ev \ {W} ELSE ev
      OBVIOUS
    <3>2. /\ w.s \in LocalSockets /\ w.s.st \in {"smart", "open", "closing"} /\ Watched(w.s, b)
          /\ R \in b
      BY <2>1, <3>1, <1>4 DEF WriteLeaves, R, W
    <3>3. r = event_read(i, w.s)
      BY <2>1
    <3>4. ReadDone(i, w.s, r)
      BY <3>2, <3>3, <1>2, ReadEvent
    <3>5. r.why # "error" /\ r.s.queue \in {<<>>, w.s.queue}
      BY ONLY <3>2, <3>3, <1>2, i \in Ids, ReadFails
    <3> QED BY <3>4, <3>5 DEF ReadDone
  <2>2. CASE ~(R \in ev /\ ~w.ret)
    <3>1. r = Nothing(w.s)
      BY <2>2
    <3>2. DOMAIN r = Fields /\ r.s = w.s /\ r.took = 0 /\ r.why = "none"
      BY ONLY <3>1 DEF Nothing, Fields
    <3> QED BY <3>2
  <2> QED BY <2>1, <2>2
<1>7. y.inb = Cat(p.inb, w.wrote) /\ y.end = p.end
  <2>1. x.wrote = w.wrote /\ x.took = r.took
    BY <1>6 DEF Fields
  <2>2. x.wrote \in Bytes /\ x.took \in Nat /\ prog \in [Ids -> Programs]
    BY <2>1, <1>2, <1>4, <1>6 DEF WriteLeaves
  <2>3. Served(i, x).inb = Cat(prog[i].inb, x.wrote) /\ Served(i, x).end = prog[i].end
    BY ONLY <2>2, i \in Ids, ServedBytes
  <2> QED BY ONLY <2>1, <2>3, y = Served(i, x), p = prog[i]
<1>8. p.end = "closed" => y.end = "closed" /\ y.inb = p.inb
  <2>1. p.inb \in Bytes
    BY <1>2, KeptType
  <2>2. Cat(p.inb, <<>>) = p.inb
    BY <2>1, Join
  <2> QED BY <2>2, <1>5, <1>7
<1>9. /\ \A j \in Ids : j # i => cause'[j] = cause[j]
      /\ cause'[i] \in {c, After(c, w.why), After(c, r.why)}
      /\ w.why = "none" => cause'[i] \in {c, After(c, r.why)}
  <2>1. /\ Because(i, w.why) = [cause EXCEPT ![i] = After(cause[i], w.why)]
        /\ Because(i, r.why) = [cause EXCEPT ![i] = After(cause[i], r.why)]
    BY <1>2, Becauses
  <2> QED BY <2>1, <1>1, <1>2
<1>10. ASSUME NEW j \in Ids PROVE Fails(j)
  <2>1. CASE j # i
    <3>1. sock'[j] = sock[j] /\ prog'[j] = prog[j] /\ cause'[j] = cause[j]
      BY <2>1, <1>1, <1>2, <1>9
    <3> QED BY <3>1, NotFailed
  <2>2. CASE j = i
    <3>1. sock'[i] = r.s /\ prog'[i] = y
      BY <1>1, <1>2
    <3>2. Solid(r.s)
      BY <1>5, <1>6 DEF Solid
    <3>3. ASSUME cause'[i] = "error", c # "error"
          PROVE  p.end = "closed" /\ s.st = "open" /\ s.queue # <<>>
      <4>1. w.why = "error" /\ c = "none"
        BY <3>3, <1>5, <1>6, <1>9 DEF After
      <4> QED BY <4>1, <1>3, <1>5 DEF Own
    <3> QED BY <2>2, <3>1, <3>2, <3>3, <1>8 DEF Fails
  <2> QED BY <2>1, <2>2
<1> QED BY <1>1, <1>10, FailsKept

\* local_socket_enqueue.
LEMMA EnqueueFails ==
  ASSUME prog \in [Ids -> Programs], NEW i \in Ids, NEW data \in Bytes, data # <<>>,
         sock[i] \in LocalSockets, Solid(sock[i]), NEW r, r = local_socket_enqueue(i, data)
  PROVE  /\ Solid(r.s) /\ (Broken(i) => r.wrote = <<>>) /\ r.why \in {"none", "error"}
         /\ r.why = "error" => Broken(i)
<1> PICK s, h : s = sock[i] /\ h = Head(h2d).arg0
  OBVIOUS
<1> PICK n : n = adb_write(i, data)
  OBVIOUS
<1>1. r = CASE s.queue = <<>> /\ Broken(i) -> Closed(s, "error")
            [] s.queue = <<>> /\ ~Broken(i) /\ n = Len(data) ->
                 [Nothing(s) EXCEPT !.wrote = data, !.pkts = send_ready(i, h)]
            [] s.queue = <<>> /\ ~Broken(i) /\ n < Len(data) ->
                 [Nothing(s) EXCEPT !.wrote = SubSeq(data, 1, n),
                                    !.s = watch_write([s EXCEPT !.queue = <<rest(data, n)>>])]
            [] OTHER -> [Nothing(s) EXCEPT !.s = watch_write([s EXCEPT !.queue = Append(@, data)])]
  BY DEF local_socket_enqueue
<1>2. data \in Seq(Nat) /\ n \in 0..Len(data)
  BY Written DEF Bytes
<1>f. ~(n = Len(data) /\ n < Len(data)) /\ (n = Len(data) \/ n < Len(data)) /\ n \in Nat
  <2>1. PICK k \in Nat : k = Len(data)
    BY <1>2, Shape
  <2> QED BY <2>1, <1>2
<1>4. s \in LocalSockets /\ s.queue \in Seq(Seq(Nat))
  BY DEF LocalSockets
<1>w. ASSUME NEW q PROVE watch_write([s EXCEPT !.queue = q]).queue = q
  BY <1>4 DEF watch_write, LocalSockets
<1>5. CASE s.queue = <<>> /\ Broken(i)
  <2>1. r = Closed(s, "error")
    BY <1>1, <1>5
  <2>2. PICK t, pk, d : t = local_socket_close(s) /\ pk = remote_socket_close(s) /\ d = close_told(s)
    OBVIOUS
  <2>3. r.s = t /\ r.why = "error" /\ r.wrote = <<>>
    BY <2>1, <2>2 DEF Closed, Nothing
  <2>4. t.queue = <<>>
    BY <2>2, <1>4, <1>5, CloseLeaves
  <2> QED BY <2>3, <2>4, <1>5 DEF Solid
<1>6. CASE s.queue = <<>> /\ ~Broken(i) /\ n = Len(data)
  <2>1. r = [Nothing(s) EXCEPT !.wrote = data, !.pkts = send_ready(i, h)]
    BY <1>1, <1>6, <1>f
  <2>3. r.s = s /\ r.why = "none"
    BY <2>1 DEF Nothing
  <2> QED BY <2>3, <1>6
<1>7. CASE s.queue = <<>> /\ ~Broken(i) /\ n < Len(data)
  <2>1. PICK q : q = <<rest(data, n)>>
    OBVIOUS
  <2>2. PICK t : t = watch_write([s EXCEPT !.queue = q])
    OBVIOUS
  <2>3. r = [Nothing(s) EXCEPT !.wrote = SubSeq(data, 1, n), !.s = t]
    BY <1>1, <1>7, <1>f, <2>1, <2>2
  <2>4. r.s = t /\ r.why = "none"
    BY <2>3 DEF Nothing
  <2>5. FlattenSeq(q) # <<>>
    BY <2>1, <1>7, <1>f, RestSolid
  <2> QED BY <2>2, <2>4, <2>5, <1>7, <1>w DEF Solid
<1>8. CASE s.queue # <<>>
  <2>1. PICK q : q = Append(s.queue, data)
    OBVIOUS
  <2>2. PICK t : t = watch_write([s EXCEPT !.queue = q])
    OBVIOUS
  <2>3. r = [Nothing(s) EXCEPT !.s = t]
    BY <1>1, <1>4, <1>8, <2>1, <2>2 DEF LocalSockets
  <2>4. r.s = t /\ r.why = "none" /\ r.wrote = <<>>
    BY <2>3 DEF Nothing
  <2>5. PICK f \in Bytes : f = FlattenSeq(s.queue)
    BY <1>4, FlattenType DEF Bytes
  <2>6. FlattenSeq(q) = Cat(f, data)
    BY <2>1, <2>5, <1>2, <1>4, FlatAppend DEF Cat
  <2>7. Cat(f, data) # <<>>
    BY Longer
  <2> QED BY <2>2, <2>4, <2>6, <2>7, <1>w DEF Solid
<1> QED BY <1>5, <1>6, <1>7, <1>8, <1>f

LEMMA WrteErrors == ASSUME IInv, BInv, EInv, handle_WRTE PROVE EInv'
<1> PICK g, data : g = Head(h2d).arg0 /\ data = Head(h2d).data
  OBVIOUS
<1>1. PICK i \in Ids :
        LET r == local_socket_enqueue(i, Head(h2d).data)
        IN  /\ receive("WRTE")
            /\ find_local_socket(Head(h2d).arg1, i) /\ Known(i)
            /\ sock' = [sock EXCEPT ![i] = r.s]
            /\ prog' = [prog EXCEPT ![i] = Served(i, r)]
            /\ cause' = IF r.why # "none" THEN Because(i, r.why) ELSE cause
  BY DEF handle_WRTE
<1> PICK s, p, c : s = sock[i] /\ p = prog[i] /\ c = cause[i]
  OBVIOUS
<1> PICK r : r = local_socket_enqueue(i, data)
  OBVIOUS
<1> PICK y : y = Served(i, r)
  OBVIOUS
<1>2. /\ receive("WRTE") /\ Head(h2d).arg1 = i /\ s.st \in {"waiting", "open"}
      /\ sock' = [sock EXCEPT ![i] = r.s] /\ prog' = [prog EXCEPT ![i] = y]
      /\ cause' = IF r.why # "none" THEN Because(i, r.why) ELSE cause
  BY <1>1 DEF find_local_socket, Known
<1>3. /\ sock \in [Ids -> LocalSockets] /\ prog \in [Ids -> Programs] /\ s \in LocalSockets
      /\ cause \in [Ids -> Whys] /\ p \in Programs /\ Solid(s) /\ h2d \in Seq(Packets)
  BY DEF IInv, Others, WireInv, WireType, EInv
<1>4. /\ host' = host /\ session' = session /\ Head(h2d).cmd = "WRTE" /\ h2d # <<>>
      /\ h2d' = Tail(h2d) /\ g \in Hids /\ data \in Bytes
  BY <1>2, Fetch DEF Packets, Bytes
<1>5. data # <<>> /\ Payload(h2d, g, i) # <<>>
  <2>1. Head(h2d) = h2d[1] /\ 1 \in DOMAIN h2d
    BY <1>3, <1>4, Taken, Shape
  <2>2. data # <<>>
    BY <2>1, <1>4 DEF EInv
  <2>3. Fits(Head(h2d), "WRTE", g, i)
    BY <1>2, <1>4 DEF Fits
  <2>4. Payload(h2d, g, i) = Cat(data, Payload(Tail(h2d), g, i)) /\ Payload(Tail(h2d), g, i) \in Bytes
    BY <2>3, <1>3, <1>4, PayTaken
  <2>5. PICK z \in Bytes : z = Payload(Tail(h2d), g, i)
    BY <2>4
  <2>6. Cat(data, z) # <<>>
    BY <2>2, <1>4, Longer
  <2> QED BY <2>2, <2>4, <2>5, <2>6
<1>6. s.st = "open" /\ s.peer = g
  BY <1>2, WrteLinked
<1>7. /\ Solid(r.s) /\ (p.end = "closed" => r.wrote = <<>>) /\ r.why \in {"none", "error"}
      /\ r.why = "error" => p.end = "closed"
  BY <1>3, <1>4, <1>5, EnqueueFails DEF Broken
<1>8. p.end = "closed" => y.end = "closed" /\ y.inb = p.inb
  <2>1. Stores(i, s, data, r)
    <3>1. sock[i] \in LocalSockets /\ sock[i].st = "open" /\ sock[i].peer \in Hids /\ Head(h2d).arg0 = sock[i].peer
      BY <1>3, <1>4, <1>6
    <3> QED BY <3>1, <1>3, <1>4, EnqueueBytes
  <2>2. r.took \in Nat /\ r.wrote \in Bytes
    BY <2>1 DEF Stores
  <2>3. y.inb = Cat(p.inb, r.wrote) /\ y.end = p.end
    BY <2>2, <1>3, ServedBytes
  <2>4. Cat(p.inb, <<>>) = p.inb
    BY <1>3, KeptType, Join
  <2> QED BY <2>3, <2>4, <1>7
<1>9. ASSUME NEW j \in Ids PROVE Fails(j)
  <2>0. cause' = [cause EXCEPT ![i] = After(c, r.why)]
    <3>1. /\ Because(i, r.why) = [cause EXCEPT ![i] = After(cause[i], r.why)]
          /\ r.why = "none" => cause = [cause EXCEPT ![i] = After(cause[i], r.why)]
      BY <1>3, Becauses
    <3> QED BY <3>1, <1>2, Zenon
  <2>1. CASE j # i
    <3>1. sock'[j] = sock[j] /\ prog'[j] = prog[j] /\ cause'[j] = cause[j]
      BY <2>0, <2>1, <1>2, <1>3
    <3> QED BY <3>1, NotFailed
  <2>2. CASE j = i
    <3>1. sock'[i] = r.s /\ prog'[i] = y /\ cause'[i] = After(c, r.why)
      BY <2>0, <1>2, <1>3
    <3>2. cause'[i] = "error" /\ c # "error" => p.end = "closed"
      BY <3>1, <1>7 DEF After
    <3> QED BY <2>2, <3>1, <3>2, <1>5, <1>6, <1>7, <1>8 DEF Fails
  <2> QED BY <2>1, <2>2
<1> QED BY <1>4, <1>9, FailsKept

\* The other packets close no socket by a failed write.
LEMMA PacketErrors ==
  ASSUME IInv, BInv, EInv,
         \/ drop_packet \/ refuse_OPEN \/ handle_CLSE \/ handle_CNXN
         \/ handle_SYNC0 \/ handle_OPEN \/ handle_OKAY
  PROVE  EInv'
<1>1. /\ sock \in [Ids -> LocalSockets] /\ prog \in [Ids -> Programs] /\ cause \in [Ids -> Whys]
      /\ Local
  BY DEF IInv, Others, WireInv, WireType
<1>2. PICK cmd : receive(cmd)
  BY DEF drop_packet, refuse_OPEN, handle_CLSE, handle_CNXN, handle_SYNC0, handle_OPEN, handle_OKAY
<1>3. host' = host /\ session' = session /\ h2d # <<>> /\ h2d' = Tail(h2d)
  BY <1>2, Fetch
<1>a. ASSUME \A j \in Ids : /\ sock'[j].queue \in {<<>>, sock[j].queue}
                            /\ prog'[j].inb = prog[j].inb /\ prog'[j].end = prog[j].end
                            /\ cause'[j] = "error" => cause[j] = "error"
      PROVE  EInv'
  <2>1. \A j \in Ids : Fails(j)
    BY <1>a, NotFailed
  <2> QED BY <2>1, <1>3, FailsKept
<1>4. CASE drop_packet \/ refuse_OPEN
  <2>1. sock' = sock /\ prog' = prog /\ cause' = cause
    BY <1>4 DEF drop_packet, refuse_OPEN
  <2> QED BY <2>1, <1>a
<1>5. CASE handle_CLSE
  <2>1. PICK i \in Ids :
          /\ sock' = [sock EXCEPT ![i] = Closed(sock[i], "host").s]
          /\ prog' = [prog EXCEPT ![i].told = @ \o Closed(sock[i], "host").told]
          /\ cause' = Because(i, "host")
    BY <1>5 DEF handle_CLSE
  <2>2. Closed(sock[i], "host").s.queue \in {<<>>, sock[i].queue}
    <3>1. PICK t, pk, d : /\ t = local_socket_close(sock[i]) /\ pk = remote_socket_close(sock[i])
                          /\ d = close_told(sock[i])
      OBVIOUS
    <3>2. Closed(sock[i], "host").s = t
      BY <3>1 DEF Closed, Nothing
    <3> QED BY <3>1, <3>2, <1>1, CloseLeaves
  <2>3. PICK told : prog' = [prog EXCEPT ![i].told = told]
    BY <2>1
  <2>4. \A j \in Ids : prog'[j].inb = prog[j].inb /\ prog'[j].end = prog[j].end
    BY <2>3, <1>1 DEF Programs
  <2>5. \A j \in Ids : cause'[j] \in {cause[j], "host"}
    BY <2>1, <1>1 DEF Because
  <2>6. \A j \in Ids : sock'[j].queue \in {<<>>, sock[j].queue}
    BY <2>1, <2>2, <1>1
  <2> QED BY <2>4, <2>5, <2>6, <1>a
<1>6. CASE handle_CNXN \/ handle_SYNC0
  <2>1. prog' = prog
    BY <1>6 DEF handle_CNXN, handle_SYNC0
  <2>2. CASE run_transport_disconnects
    <3>1. \A j \in Ids : /\ sock'[j].queue \in {<<>>, sock[j].queue}
                         /\ cause'[j] \in {cause[j], "session"}
      BY <2>2, DisconnectsAll
    <3> QED BY <3>1, <2>1, <1>a
  <2>3. CASE ~run_transport_disconnects
    <3>1. sock' = sock /\ cause' = cause
      BY <2>3, <1>6 DEF handle_CNXN, handle_SYNC0
    <3> QED BY <3>1, <2>1, <1>a
  <2> QED BY <2>2, <2>3
<1>7. CASE handle_OPEN
  <2>1. PICK h : /\ sock' = [sock EXCEPT ![nextid] = create_local_socket("open", h)]
                 /\ prog' = prog /\ cause' = cause
    BY <1>7 DEF handle_OPEN
  <2>2. create_local_socket("open", h).queue = <<>>
    BY DEF create_local_socket, Unused
  <2>3. \A j \in Ids : sock'[j].queue \in {<<>>, sock[j].queue}
    BY <2>1, <2>2, <1>1
  <2> QED BY <2>1, <2>3, <1>a
<1>8. CASE handle_OKAY
  <2> PICK h : h = Head(h2d).arg0
    OBVIOUS
  <2>1. PICK i \in Ids :
          /\ sock' = [sock EXCEPT ![i] = local_socket_ready([sock[i] EXCEPT !.st = "open",
                                                   !.peer = IF @ = None THEN h ELSE @])]
          /\ prog' = [prog EXCEPT ![i].told = @ \o ready_told(sock[i])]
          /\ cause' = cause
    BY <1>8, Zenon DEF handle_OKAY
  <2>2. PICK o, g : o = sock[i] /\ g = IF o.peer = None THEN h ELSE o.peer
    OBVIOUS
  <2>3. PICK t : t = [o EXCEPT !.st = "open", !.peer = g]
    OBVIOUS
  <2>4. local_socket_ready(t).queue = o.queue /\ sock' = [sock EXCEPT ![i] = local_socket_ready(t)]
    BY <2>1, <2>2, <2>3, <1>1 DEF local_socket_ready, LocalSockets
  <2>5. PICK told : prog' = [prog EXCEPT ![i].told = told]
    BY <2>1
  <2>6. \A j \in Ids : prog'[j].inb = prog[j].inb /\ prog'[j].end = prog[j].end
    BY <2>5, <1>1 DEF Programs
  <2>7. \A j \in Ids : sock'[j].queue = sock[j].queue
    BY <2>2, <2>4, <1>1
  <2> QED BY <2>1, <2>6, <2>7, <1>a
<1> QED BY <1>4, <1>5, <1>6, <1>7, <1>8

\* Neither do the event loop, the listener and the programs.
LEMMA LoopErrors ==
  ASSUME IInv, BInv, EInv,
         \/ fdevent_process \/ ss_listener_event_func \/ close_all_sockets \/ UNCHANGED vars
         \/ \E i \in Ids : prog_write(i) \/ prog_request(i) \/ prog_read(i) \/ prog_close(i)
  PROVE  EInv'
<1>1. /\ sock \in [Ids -> LocalSockets] /\ prog \in [Ids -> Programs] /\ cause \in [Ids -> Whys]
  BY DEF IInv, Others, WireInv, WireType
<1>2. host' = host /\ session' = session /\ h2d' = h2d
  BY DEF fdevent_process, ss_listener_event_func, close_all_sockets, prog_write, prog_request,
         prog_read, prog_close, progOnly, hostVars, envVars, vars
<1>a. ASSUME \A j \in Ids : /\ sock'[j].queue \in {<<>>, sock[j].queue}
                            /\ prog'[j].inb = prog[j].inb
                            /\ prog[j].end = "closed" => prog'[j].end = "closed"
                            /\ cause'[j] = "error" => cause[j] = "error"
      PROVE  EInv'
  <2>1. \A j \in Ids : Fails(j)
    BY <1>a, NotFailed
  <2> QED BY <2>1, <1>2, FailsKept
<1>3. CASE fdevent_process \/ UNCHANGED vars
  <2>1. sock' = sock /\ prog' = prog /\ cause' = cause
    BY <1>3 DEF fdevent_process, envVars, vars
  <2> QED BY <2>1, <1>a
<1>4. CASE ss_listener_event_func
  <2>1. /\ sock' = [sock EXCEPT ![nextid] = create_local_socket("smart", None)]
        /\ prog' = [prog EXCEPT ![nextid].client = TRUE] /\ cause' = cause
    BY <1>4 DEF ss_listener_event_func
  <2>2. create_local_socket("smart", None).queue = <<>>
    BY DEF create_local_socket, Unused
  <2>3. \A j \in Ids : /\ sock'[j].queue \in {<<>>, sock[j].queue}
                       /\ prog'[j].inb = prog[j].inb /\ prog'[j].end = prog[j].end
    BY <2>1, <2>2, <1>1 DEF Programs
  <2> QED BY <2>1, <2>3, <1>a
<1>5. CASE close_all_sockets
  <2>1. /\ sock' = [i \in Ids |-> IF sock[i].st = "waiting" THEN Gone ELSE sock[i]]
        /\ cause' = [i \in Ids |-> IF sock[i].st = "waiting" THEN "session" ELSE cause[i]]
        /\ prog' = prog
    BY <1>5 DEF close_all_sockets, envVars
  <2> QED BY <2>1, <1>a, Blank
<1>6. ASSUME NEW i \in Ids, prog_write(i) \/ prog_request(i) \/ prog_read(i) \/ prog_close(i)
      PROVE  EInv'
  <2>1. sock' = sock /\ cause' = cause
    BY <1>6 DEF prog_write, prog_request, prog_read, prog_close, progOnly
  <2>2. \A j \in Ids : prog'[j].inb = prog[j].inb /\ (prog[j].end = "closed" => prog'[j].end = "closed")
    <3>1. CASE prog_write(i)
      <4>1. PICK o, m : prog' = [prog EXCEPT ![i].out = o, ![i].made = m]
        BY <3>1 DEF prog_write
      <4> QED BY <4>1, <1>1 DEF Programs
    <3>2. CASE prog_request(i)
      <4>1. PICK q : prog' = [prog EXCEPT ![i].req = q]
        BY <3>2 DEF prog_request
      <4> QED BY <4>1, <1>1 DEF Programs
    <3>3. CASE prog_read(i)
      <4>1. prog' = [prog EXCEPT ![i].unread = 0]
        BY <3>3 DEF prog_read
      <4> QED BY <4>1, <1>1 DEF Programs
    <3>4. CASE prog_close(i)
      <4>1. prog[i].end # "closed" /\ \E e : prog' = [prog EXCEPT ![i].end = e]
        BY <3>4 DEF prog_close
      <4> QED BY <4>1, <1>1 DEF Programs
    <3> QED BY <1>6, <3>1, <3>2, <3>3, <3>4
  <2> QED BY <2>1, <2>2, <1>a
<1> QED BY <1>3, <1>4, <1>5, <1>6

\* What the host does to a stream that a failed write closed.
LEMMA HostFails ==
  ASSUME IInv, EInv, UNCHANGED hostOnly, session = "lost" => session' = "lost",
         host' \in [Hids -> HostStreams],
         \A h \in Hids : host[h].id \in Ids => host'[h].id = host[h].id /\ host'[h].sent >= host[h].sent,
         session' = "lost" => \A h \in Hids : host'[h].st # "ended",
         \A k \in DOMAIN h2d' : h2d'[k].cmd = "WRTE" => h2d'[k].data # <<>>
  PROVE  EInv'
<1>1. sock' = sock /\ prog' = prog /\ cause' = cause
  BY DEF hostOnly
<1>2. ASSUME NEW i \in Ids, Short(host, prog, i) PROVE Short(host', prog', i)
  <2>1. PICK h \in Hids : host[h].id = i /\ Len(prog[i].inb) < host[h].sent
    BY <1>2 DEF Short
  <2>2. PICK l \in Nat, m \in Nat, n \in Nat :
          l = Len(prog[i].inb) /\ m = host[h].sent /\ n = host'[h].sent
    <3>1. prog[i] \in Programs /\ host[h] \in HostStreams /\ host'[h] \in HostStreams
      BY DEF IInv, Others, WireInv, WireType
    <3> QED BY <3>1, Shape DEF Programs, HostStreams
  <2>3. host'[h].id = i /\ l < n
    BY <2>1, <2>2
  <2> QED BY <2>2, <2>3, <1>1 DEF Short
<1> QED BY <1>1, <1>2 DEF EInv

\* A packet that the host sends.
LEMMA SentSolid ==
  ASSUME NEW q \in Seq(Packets), \A k \in DOMAIN q : q[k].cmd = "WRTE" => q[k].data # <<>>,
         NEW p \in Packets, p.cmd = "WRTE" => p.data # <<>>
  PROVE  \A k \in DOMAIN Append(q, p) : Append(q, p)[k].cmd = "WRTE" => Append(q, p)[k].data # <<>>
<1>1. /\ Len(q) \in Nat /\ DOMAIN q = 1..Len(q) /\ DOMAIN Append(q, p) = 1..(Len(q) + 1)
      /\ \A i \in 1..Len(q) : Append(q, p)[i] = q[i]
      /\ Append(q, p)[Len(q) + 1] = p
  BY Appended, Shape
<1>2. \A k \in 1..(Len(q) + 1) : k \in 1..Len(q) \/ k = Len(q) + 1
  BY <1>1
<1> QED BY <1>1, <1>2

LEMMA HostErrors ==
  ASSUME IInv, IInv', BInv, EInv,
         \/ host_connect \/ host_receive \/ link_lost
         \/ \E h \in Hids : \/ host_open(h) \/ host_ack(h) \/ host_close(h)
                            \/ \E n \in 1..MaxPayload : host_write(h, n)
  PROVE  EInv'
<1>1. UNCHANGED hostOnly
  BY DEF host_connect, host_receive, link_lost, host_open, host_ack, host_close, host_write
<1>2. /\ host \in [Hids -> HostStreams] /\ host' \in [Hids -> HostStreams]
      /\ d2h \in Seq(Packets) /\ h2d \in Seq(Packets)
      /\ \A h \in Hids : host[h].st \in {"opening", "open"} => session = "on"
      /\ \A h \in Hids : host[h].st = "open" => host[h].id \in Ids
      /\ \A h \in Hids : host[h].sent \in Nat
      /\ \A k \in DOMAIN h2d : h2d[k].cmd = "WRTE" => h2d[k].data # <<>>
  BY HostFacts DEF IInv, WireInv, WireType, HostStreams, EInv
<1>a. ASSUME session' = session, session # "lost",
             \A h \in Hids : host[h].id \in Ids => host'[h].id = host[h].id,
             \A h \in Hids : host'[h].sent >= host[h].sent,
             h2d' = h2d \/ \E p \in Packets : h2d' = Append(h2d, p) /\ (p.cmd = "WRTE" => p.data # <<>>)
      PROVE  EInv'
  <2>1. \A k \in DOMAIN h2d' : h2d'[k].cmd = "WRTE" => h2d'[k].data # <<>>
    BY <1>a, <1>2, SentSolid
  <2> QED BY <2>1, <1>a, <1>1, <1>2, HostFails
<1>3. CASE host_connect
  <2>1. /\ session' = "wait" /\ session # "lost"
        /\ h2d' = Append(h2d, Pkt("CNXN", 0, 0, <<>>))
        /\ host' = [h \in Hids |-> IF host[h].st = "none" THEN host[h]
                                   ELSE [host[h] EXCEPT !.st = "closed"]]
    BY <1>3 DEF host_connect
  <2>2. Pkt("CNXN", 0, 0, <<>>) \in Packets /\ Pkt("CNXN", 0, 0, <<>>).cmd = "CNXN"
    BY DEF Pkt, Packets, Cmds
  <2>3. \A k \in DOMAIN h2d' : h2d'[k].cmd = "WRTE" => h2d'[k].data # <<>>
    BY <2>1, <2>2, <1>2, SentSolid
  <2>4. \A h \in Hids : host'[h].id = host[h].id /\ host'[h].sent = host[h].sent
    BY <2>1, <1>2, ForgetsBytes
  <2>5. \A h \in Hids : host'[h].sent >= host[h].sent
    BY <2>4, <1>2
  <2> QED BY <2>1, <2>3, <2>4, <2>5, <1>1, <1>2, HostFails
<1>4. CASE link_lost
  <2>1. PICK n \in 0..Len(h2d) : h2d' = Append(SubSeq(h2d, 1, n), Pkt("SYNC0", 0, 0, <<>>))
    BY <1>4 DEF link_lost
  <2>2. /\ session' = "lost"
        /\ host' = [h \in Hids |-> IF host[h].st = "none" THEN host[h]
                                   ELSE [host[h] EXCEPT !.st = "closed"]]
    BY <1>4 DEF link_lost
  <2>3. PICK q : q = SubSeq(h2d, 1, n)
    OBVIOUS
  <2>4. q \in Seq(Packets) /\ \A k \in DOMAIN q : q[k].cmd = "WRTE" => q[k].data # <<>>
    <3>1. Len(h2d) \in Nat /\ DOMAIN h2d = 1..Len(h2d) /\ \A k \in 1..Len(h2d) : h2d[k] \in Packets
      BY <1>2, Shape
    <3>2. \A k \in 1..n : h2d[k] \in Packets /\ k \in DOMAIN h2d
      BY <3>1
    <3>3. q \in Seq(Packets) /\ Len(q) = n /\ \A k \in 1..n : q[k] = h2d[k]
      <4>1. n \in Nat /\ 1 \in Nat
        BY <3>1
      <4> QED BY <4>1, <3>2, <2>3, SubSeqProperties
    <3>4. DOMAIN q = 1..n
      BY <3>3, Shape
    <3> QED BY <3>2, <3>3, <3>4, <1>2
  <2>5. Pkt("SYNC0", 0, 0, <<>>) \in Packets /\ Pkt("SYNC0", 0, 0, <<>>).cmd = "SYNC0"
    BY DEF Pkt, Packets, Cmds
  <2>6. \A k \in DOMAIN h2d' : h2d'[k].cmd = "WRTE" => h2d'[k].data # <<>>
    BY <2>1, <2>3, <2>4, <2>5, SentSolid
  <2>7. \A h \in Hids : /\ host'[h].id = host[h].id /\ host'[h].sent = host[h].sent
                        /\ host'[h].st \in {"none", "closed"}
    BY <2>2, <1>2, ForgetsBytes
  <2>8. \A h \in Hids : host'[h].sent >= host[h].sent
    BY <2>7, <1>2
  <2> QED BY <2>2, <2>6, <2>7, <2>8, <1>1, <1>2, HostFails
<1>5. ASSUME NEW h \in Hids, host_open(h) PROVE EInv'
  <2>1. /\ session' = session /\ session = "on" /\ h2d' = Append(h2d, Pkt("OPEN", h, 0, <<>>))
        /\ host' = [host EXCEPT ![h].st = "opening"]
    BY <1>5 DEF host_open
  <2>2. Pkt("OPEN", h, 0, <<>>) \in Packets /\ Pkt("OPEN", h, 0, <<>>).cmd = "OPEN"
    BY DEF Pkt, Packets, Cmds
  <2>3. \A g \in Hids : host'[g].id = host[g].id /\ host'[g].sent >= host[g].sent
    BY <2>1, <1>2 DEF HostStreams
  <2> QED BY <2>1, <2>2, <2>3, <1>a
<1>6. ASSUME NEW h \in Hids, host_ack(h) PROVE EInv'
  <2>0. PICK p : p = Pkt("OKAY", h, host[h].id, <<>>)
    OBVIOUS
  <2>1. /\ session' = session /\ host[h].st = "open" /\ h2d' = Append(h2d, p)
        /\ host' = [host EXCEPT ![h].owes = FALSE]
    BY <1>6, <2>0 DEF host_ack
  <2>2. p \in Packets /\ p.cmd = "OKAY" /\ session # "lost"
    BY <2>0, <2>1, <1>2 DEF Pkt, Packets, Cmds
  <2>3. \A g \in Hids : host'[g].id = host[g].id /\ host'[g].sent >= host[g].sent
    BY <2>1, <1>2 DEF HostStreams
  <2> QED BY <2>1, <2>2, <2>3, <1>a
<1>7. ASSUME NEW h \in Hids, host_close(h) PROVE EInv'
  <2>0. PICK p : p = Pkt("CLSE", h, host[h].id, <<>>)
    OBVIOUS
  <2>1. /\ session' = session /\ host[h].st = "open" /\ h2d' = Append(h2d, p)
        /\ host' = [host EXCEPT ![h].st = "closed"]
    BY <1>7, <2>0 DEF host_close
  <2>2. p \in Packets /\ p.cmd = "CLSE" /\ session # "lost"
    BY <2>0, <2>1, <1>2 DEF Pkt, Packets, Cmds
  <2>3. \A g \in Hids : host'[g].id = host[g].id /\ host'[g].sent >= host[g].sent
    BY <2>1, <1>2 DEF HostStreams
  <2> QED BY <2>1, <2>2, <2>3, <1>a
<1>8. ASSUME NEW h \in Hids, NEW n \in 1..MaxPayload, host_write(h, n) PROVE EInv'
  <2>0. PICK m \in Nat : m = host[h].sent
    BY <1>2
  <2>b. PICK d : d = [k \in 1..n |-> m + k]
    OBVIOUS
  <2>a. PICK p : p = Pkt("WRTE", h, host[h].id, d)
    OBVIOUS
  <2>1. /\ session' = session /\ host[h].st = "open" /\ h2d' = Append(h2d, p)
        /\ host' = [host EXCEPT ![h].ready = FALSE, ![h].sent = m + n]
    BY <1>8, <2>0, <2>a, <2>b DEF host_write
  <2>2. d \in Seq(Nat) /\ n \in Nat \ {0}
    BY <2>b, <1>2, SocketsAssumption, UptoMore DEF Bytes
  <2>3. d # <<>>
    <3>1. DOMAIN d = 1..n /\ 1 \in 1..n
      BY <2>b, <2>2
    <3>2. DOMAIN <<>> = {}
      OBVIOUS
    <3> QED BY <3>1, <3>2
  <2>4. p \in Packets /\ p.cmd = "WRTE" /\ p.data = d /\ session # "lost"
    BY <2>a, <2>1, <2>2, <1>2 DEF Pkt, Packets, Cmds
  <2>5. \A g \in Hids : host'[g].id = host[g].id /\ host'[g].sent >= host[g].sent
    BY <2>0, <2>1, <2>2, <1>2 DEF HostStreams
  <2> QED BY <2>1, <2>3, <2>4, <2>5, <1>a
<1>9. CASE host_receive
  <2> PICK p, h, a : p = Head(d2h) /\ h = p.arg1 /\ a = p.arg0
    OBVIOUS
  <2>1. /\ d2h # <<>> /\ session \in {"wait", "on"}
        /\ session' = IF p.cmd = "CNXN" THEN "on" ELSE session
    BY <1>9 DEF host_receive
  <2>2. p \in Packets
    BY <2>1, <1>2, Taken
  <2>s. session # "lost" /\ session' # "lost"
    BY <2>1
  <2>b. ASSUME \A g \in Hids : host[g].id \in Ids => host'[g].id = host[g].id,
               \A g \in Hids : host'[g].sent >= host[g].sent,
               h2d' = h2d \/ \E k \in Packets : h2d' = Append(h2d, k) /\ (k.cmd = "WRTE" => k.data # <<>>)
        PROVE  EInv'
    <3>1. \A k \in DOMAIN h2d' : h2d'[k].cmd = "WRTE" => h2d'[k].data # <<>>
      BY <2>b, <1>2, SentSolid
    <3> QED BY <3>1, <2>b, <2>s, <1>1, <1>2, HostFails
  <2>3. CASE /\ p.cmd = "OKAY" /\ h \in Hids
             /\ host' = [host EXCEPT ![h].st = "open", ![h].id = a, ![h].ready = TRUE]
             /\ h2d' = h2d
    <3>1. a \in Ids /\ Sends(d2h, a, h)
      <4>1. p = d2h[1] /\ 1 \in DOMAIN d2h
        BY <2>1, <1>2, Taken, Shape
      <4> QED BY <4>1, <2>3 DEF IInv, WireInv, WireType, FromDevice, Sends
    <3>2. host[h].id \in Ids => host[h].id = a
      <4>1. Tie(sock, d2h, host, a, h) /\ Tie(sock, d2h, host, host[h].id, h) /\ Matched(sock, d2h, host)
        BY <3>1 DEF Tie, IInv, WireInv, Wire
      <4> QED BY <4>1, <3>1, <2>3 DEF Matched
    <3>3. \A g \in Hids : host'[g].sent >= host[g].sent /\ (host[g].id \in Ids => host'[g].id = host[g].id)
      BY <3>2, <2>3, <1>2 DEF HostStreams
    <3> QED BY <3>3, <2>3, <2>b
  <2>4. CASE h \in Hids /\ host' = [host EXCEPT ![h].got = @ \o p.data, ![h].owes = TRUE] /\ h2d' = h2d
    <3> PICK q : q = host[h].got \o p.data
      OBVIOUS
    <3>0. host' = [host EXCEPT ![h].got = q, ![h].owes = TRUE]
      BY <2>4
    <3>a. ASSUME NEW g \in Hids, g # h PROVE host'[g] = host[g]
      BY <3>0, <3>a, <2>4, <1>2
    <3>b. host'[h] = [host[h] EXCEPT !.got = q, !.owes = TRUE] /\ host[h] \in HostStreams
      BY <3>0, <2>4, <1>2
    <3>c. host'[h].sent = host[h].sent /\ host'[h].id = host[h].id /\ host[h].sent \in Nat
      BY <3>b DEF HostStreams
    <3>1. \A g \in Hids : host'[g].sent >= host[g].sent /\ host'[g].id = host[g].id
      <4> TAKE g \in Hids
      <4>1. CASE g = h
        BY <4>1, <3>c
      <4>2. CASE g # h
        <5>1. host[g] \in HostStreams
          BY <1>2
        <5>2. host[g].sent \in Nat
          BY <5>1 DEF HostStreams
        <5> QED BY <5>2, <4>2, <3>a
      <4> QED BY <4>1, <4>2
    <3> QED BY <3>1, <2>4, <2>b
  <2>5. CASE /\ h \in Hids /\ host' = [host EXCEPT ![h].st = "ended"]
             /\ h2d' = IF host[h].st = "open" THEN Append(h2d, Pkt("CLSE", h, host[h].id, <<>>))
                       ELSE h2d
    <3>1. \A g \in Hids : host'[g].sent >= host[g].sent /\ host'[g].id = host[g].id
      BY <2>5, <1>2 DEF HostStreams
    <3>2. host[h].st = "open" =>
            Pkt("CLSE", h, host[h].id, <<>>) \in Packets /\ Pkt("CLSE", h, host[h].id, <<>>).cmd = "CLSE"
      BY <2>5, <1>2 DEF Pkt, Packets, Cmds
    <3>3. h2d' = h2d \/ \E k \in Packets : h2d' = Append(h2d, k) /\ k.cmd = "CLSE"
      BY <3>2, <2>5
    <3> QED BY <3>1, <3>3, <2>b
  <2>6. ASSUME NEW g \in Hids, host[g].st = "none",
               host' = [host EXCEPT ![g].st = "open", ![g].id = a, ![g].ready = TRUE],
               h2d' = Append(h2d, Pkt("OKAY", g, a, <<>>))
        PROVE  EInv'
    <3>1. host[g].id \notin Ids
      <4>1. host[g] = Silent
        BY <2>6, HostFacts DEF HostSide
      <4> QED BY <4>1, SocketsAssumption DEF Silent, Ids
    <3>2. PICK k : k = Pkt("OKAY", g, a, <<>>)
      OBVIOUS
    <3>3. k \in Packets /\ k.cmd = "OKAY"
      BY <3>2, <2>2 DEF Pkt, Packets, Cmds
    <3>4. \A f \in Hids : host'[f].sent >= host[f].sent /\ (host[f].id \in Ids => host'[f].id = host[f].id)
      BY <3>1, <2>6, <1>2 DEF HostStreams
    <3> QED BY <3>2, <3>3, <3>4, <2>6, <2>b
  <2>7. CASE host' = host /\ h2d' = Append(h2d, Pkt("CLSE", 0, a, <<>>))
    <3>1. PICK k : k = Pkt("CLSE", 0, a, <<>>)
      OBVIOUS
    <3>2. k \in Packets /\ k.cmd = "CLSE"
      BY <3>1, <2>2 DEF Pkt, Packets, Cmds
    <3>3. \A g \in Hids : host'[g].sent >= host[g].sent
      BY <2>7, <1>2
    <3> QED BY <3>1, <3>2, <3>3, <2>7, <2>b
  <2>8. CASE host' = host /\ h2d' = h2d
    <3>1. \A g \in Hids : host'[g].sent >= host[g].sent
      BY <2>8, <1>2
    <3> QED BY <3>1, <2>8, <2>b
  <2> QED BY <1>9, <2>3, <2>4, <2>5, <2>6, <2>7, <2>8, Zenon DEF host_receive
<1> QED BY <1>3, <1>4, <1>5, <1>6, <1>7, <1>8, <1>9

LEMMA InitialErrors == Init => EInv
<1> SUFFICES ASSUME Init PROVE EInv
  OBVIOUS
<1>1. /\ h2d = <<>> /\ DOMAIN h2d = {} /\ sock = [i \in Ids |-> Unused] /\ session = "off"
      /\ cause = [i \in Ids |-> "none"]
  BY DEF Init
<1>2. \A i \in Ids : sock[i].queue = <<>>
  BY <1>1 DEF Unused
<1> QED BY <1>1, <1>2 DEF EInv, Solid

LEMMA InductiveErrors == IInv /\ IInv' /\ BInv /\ EInv /\ [Next]_vars => EInv'
<1> SUFFICES ASSUME IInv, IInv', BInv, EInv, [Next]_vars PROVE EInv'
  OBVIOUS
<1>1. CASE MainPacket
  BY <1>1, PacketErrors, WrteErrors DEF MainPacket
<1>2. CASE \/ fdevent_process \/ ss_listener_event_func \/ close_all_sockets \/ UNCHANGED vars
           \/ \E i \in Ids : prog_write(i) \/ prog_request(i) \/ prog_read(i) \/ prog_close(i)
  BY <1>2, LoopErrors
<1>3. ASSUME NEW i \in Ids, local_socket_event_func(i) PROVE EInv'
  BY <1>3, EventErrors
<1>4. CASE \/ host_connect \/ host_receive \/ link_lost
           \/ \E h \in Hids : \/ host_open(h) \/ host_ack(h) \/ host_close(h)
                              \/ \E n \in 1..MaxPayload : host_write(h, n)
  BY <1>4, HostErrors
<1> QED BY <1>1, <1>2, <1>3, <1>4 DEF Next

\* What a program wrote before adbd ended its stream reaches the host: at the end
\* of file (local_socket_event_func) always, after a failed write unless the
\* program went away from bytes that the host had sent it.
THEOREM NotCutOff == Spec => []NoTruncation
<1>1. IInv /\ BInv /\ EInv => NoTruncation
  <2> SUFFICES ASSUME IInv, BInv, EInv, NEW i \in Ids, NEW h \in Hids,
                      host[h].id = i, cause[i] \in {"eof", "error"}, host[h].st \in {"open", "ended"}
               PROVE  \/ host[h].got \o Payload(d2h, i, h) = Upto(prog[i].made)
                      \/ cause[i] = "error" /\ prog[i].end = "closed" /\ Len(prog[i].inb) < host[h].sent
    BY DEF NoTruncation
  <2>1. CASE cause[i] = "eof"
    <3>1. Finished(sock, d2h, host, prog, cause, i, h)
      BY DEF BInv, Streams
    <3>2. Cat(host[h].got, Payload(d2h, i, h)) = Upto(prog[i].made)
      BY <2>1, <3>1 DEF Finished, Tie
    <3> QED BY <3>2 DEF Cat
  <2>2. CASE cause[i] = "error"
    <3>1. session # "lost"
      <4>1. host[h].st = "open" => session = "on"
        BY DEF IInv, Connected
      <4>2. session = "lost" => host[h].st # "ended"
        BY DEF EInv
      <4> QED BY <4>1, <4>2
    <3>2. prog[i].end = "closed" /\ Short(host, prog, i)
      BY <2>2, <3>1 DEF EInv
    <3>3. PICK g \in Hids : host[g].id = i /\ Len(prog[i].inb) < host[g].sent
      BY <3>2 DEF Short
    <3>4. Tie(sock, d2h, host, i, h) /\ Tie(sock, d2h, host, i, g) /\ Matched(sock, d2h, host)
      BY <3>3 DEF Tie, IInv, WireInv, Wire
    <3>5. g = h
      BY <3>4 DEF Matched
    <3> QED BY <2>2, <3>2, <3>3, <3>5
  <2> QED BY <2>1, <2>2
<1> QED BY <1>1, InitialErrors, InductiveErrors, Invariance, BytesInvariant, PTL DEF Spec
=============================================================================
