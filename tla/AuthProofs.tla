----------------------------- MODULE AuthProofs -----------------------------
(***************************************************************************)
(* Proofs about Auth, for any sets of hosts and framework connections, any *)
(* size of a key and any key file.  That only approved hosts are served    *)
(* rests on an invariant about whom a connection of the framework serves   *)
(* (Asked); that b64_pton stays within its buffer and its bytes in a byte  *)
(* rests on what each of its states leaves in the byte under construction  *)
(* (Decoder).                                                              *)
(***************************************************************************)
EXTENDS Auth, TLAPS, SequenceTheorems

-----------------------------------------------------------------------------
(* The inductive invariant.                                                *)

\* b64_pton's variables have their types, there is room for the byte under
\* construction, and that byte has room for the bits of the next character.
Buffers == [0..(Size - 1) -> 0..255]
Modes == {"loop", "pad", "end", "error"}
Decoder(d) ==
  /\ d \in [state : 0..3, tarindex : 0..Size, target : Buffers, mode : Modes]
  /\ d.state # 0 => d.tarindex < Size
  /\ d.state = 1 => d.target[d.tarindex] <= 252
  /\ d.state = 2 => d.target[d.tarindex] <= 240
  /\ d.state = 3 => d.target[d.tarindex] <= 192

\* While the daemon runs, an installed auth_fde is the one that epoll has for
\* its connection, one that is not installed has no connection or a closed one,
\* and an OK that waits to be read was given to the transport that asked there.
AskedOf(t) ==
  /\ active[t] => fde[t] # None /\ epoll[fde[t]] = t
  /\ ~active[t] => fde[t] = None \/ conn[fde[t]] = "shut"
  /\ active[t] /\ conn[fde[t]] = "OK" => t \in approved

Asked ==
  /\ \A t \in Transports : AskedOf(t)
  /\ \A c \in Conns : epoll[c] # None => fde[epoll[c]] # None

IInv == TypeOK /\ Decoder(dec) /\ (dead = "no" => Asked) /\ ApprovedOnly

-----------------------------------------------------------------------------
(* b64_pton.                                                               *)

LEMMA SizeType == Size \in Nat /\ Size = KeySize + 4 /\ KeySize \in Nat
BY AuthAssumption DEF Size

\* The start of a line.
LEMMA StartDecodes == Decoder(Start(Size))
<1>1. [i \in 0..(Size - 1) |-> 0] \in Buffers
  BY DEF Buffers
<1> QED BY <1>1, SizeType DEF Decoder, Start, Modes

\* The function returns -1, or goes on to look for the end.
LEMMA FailedDecodes ==
  ASSUME NEW d, Decoder(d)
  PROVE  /\ \A m \in Modes : Decoder([d EXCEPT !.mode = m])
         /\ Decoder(Failed(d))
<1>1. ASSUME NEW m \in Modes PROVE Decoder([d EXCEPT !.mode = m])
  <2> DEFINE r == [d EXCEPT !.mode = m]
  <2>1. d \in [state : 0..3, tarindex : 0..Size, target : Buffers, mode : Modes]
    BY DEF Decoder
  <2>2. /\ r \in [state : 0..3, tarindex : 0..Size, target : Buffers, mode : Modes]
        /\ r.state = d.state /\ r.tarindex = d.tarindex /\ r.target = d.target
    BY <2>1
  <2> HIDE DEF r
  <2>3. Decoder(r)
    BY <2>2 DEF Decoder
  <2> QED BY <2>3 DEF r
<1>2. "error" \in Modes
  BY DEF Modes
<1> QED BY <1>1, <1>2 DEF Failed

\* The loop's variables when two bytes of the buffer were written.
Put(d, first, second, moved, next) ==
  [d EXCEPT !.target = [k \in 0..(Size - 1) |->
                          IF k = d.tarindex THEN first
                          ELSE IF k = d.tarindex + 1 THEN second ELSE @[k]],
            !.tarindex = @ + moved, !.state = next]

\* Writing leaves the loop where the next character fits in.
LEMMA PutDecodes ==
  ASSUME NEW d, Decoder(d), NEW first \in 0..255, NEW second \in 0..255,
         NEW moved \in {0, 1}, NEW next \in 0..3,
         d.tarindex \in 0..(Size - 1),
         next # 0 => d.tarindex + moved < Size,
         next = 1 => moved = 0 /\ first <= 252,
         next = 2 => moved = 1 /\ second <= 240,
         next = 3 => moved = 1 /\ second <= 192
  PROVE  Decoder(Put(d, first, second, moved, next))
<1> DEFINE i == d.tarindex
           T == d.target
           U == [k \in 0..(Size - 1) |->
                   IF k = i THEN first ELSE IF k = i + 1 THEN second ELSE T[k]]
           r == [d EXCEPT !.target = U, !.tarindex = i + moved, !.state = next]
<1>0. T \in Buffers
  BY DEF Decoder
<1>p. Put(d, first, second, moved, next) = r
  BY Zenon DEF Put
<1> HIDE DEF T, i
<1>i. i \in 0..(Size - 1) /\ (next # 0 => i + moved < Size)
  BY DEF i
<1>1. U \in Buffers
  BY <1>0, <1>i DEF Buffers
<1>2. i + moved \in 0..Size
  BY <1>i, SizeType
<1>3. next # 0 => i + moved \in 0..(Size - 1)
  BY <1>i, SizeType
<1>4. /\ next = 1 => U[i + moved] <= 252
      /\ next = 2 => U[i + moved] <= 240
      /\ next = 3 => U[i + moved] <= 192
  BY <1>i, <1>3, SizeType
<1>5. d \in [state : 0..3, tarindex : 0..Size, target : Buffers, mode : Modes]
  BY DEF Decoder
<1> HIDE DEF U
<1>6. /\ r \in [state : 0..3, tarindex : 0..Size, target : Buffers, mode : Modes]
      /\ r.state = next /\ r.tarindex = i + moved /\ r.target = U
  BY <1>1, <1>2, <1>5
<1> HIDE DEF r
<1>7. Decoder(r)
  BY <1>i, <1>4, <1>6 DEF Decoder
<1> QED BY <1>7, <1>p

\* A character of the alphabet, in each of the four states.
LEMMA SextetDecodes ==
  ASSUME NEW d, Decoder(d), NEW ch \in 0..63
  PROVE  Decoder(Sextet(d, Size, ch))
<1> DEFINE i == d.tarindex
           T == d.target
           at(k) == IF k \in 0..(Size - 1) THEN T[k] ELSE 0
<1>0. Size \in Nat /\ i \in 0..Size /\ d.state \in 0..3 /\ T \in Buffers
  BY SizeType DEF Decoder
<1>b. /\ d.state = 1 => i < Size /\ T[i] <= 252
      /\ d.state = 2 => i < Size /\ T[i] <= 240
      /\ d.state = 3 => i < Size /\ T[i] <= 192
  BY DEF Decoder
<1>d. DOMAIN d.target = 0..(Size - 1)
  <2> HIDE DEF T
  <2>1. DOMAIN T = 0..(Size - 1)
    BY <1>0 DEF Buffers
  <2> QED BY <2>1 DEF T
<1>s. Sextet(d, Size, ch) =
        CASE d.state = 0 -> IF i < Size THEN Put(d, ch * 4, at(i + 1), 0, 1) ELSE Failed(d)
          [] d.state = 1 -> IF i + 1 < Size
                            THEN Put(d, at(i) + (ch \div 16), (ch % 16) * 16, 1, 2)
                            ELSE Failed(d)
          [] d.state = 2 -> IF i + 1 < Size
                            THEN Put(d, at(i) + (ch \div 4), low_bits(ch), 1, 3)
                            ELSE Failed(d)
          [] d.state = 3 -> IF i < Size THEN Put(d, at(i) + ch, at(i + 1), 1, 0) ELSE Failed(d)
  BY <1>d, Zenon DEF Sextet, room, Put
<1>f. Decoder(Failed(d))
  BY FailedDecodes
<1>c. /\ ch * 4 \in 0..252 /\ (ch \div 16) \in 0..3 /\ (ch % 16) * 16 \in 0..240
      /\ (ch \div 4) \in 0..15 /\ low_bits(ch) \in 0..192
  BY DEF low_bits
<1> HIDE DEF i, T
<1>1. \A k \in Int : at(k) \in 0..255
  BY <1>0 DEF Buffers
<1>2. \A k \in 0..(Size - 1) : at(k) = T[k] /\ T[k] \in 0..255
  BY <1>0 DEF Buffers
<1> HIDE DEF at
<1>3. CASE d.state = 0
  <2>1. ASSUME i < Size PROVE Decoder(Put(d, ch * 4, at(i + 1), 0, 1))
    <3>1. ch * 4 \in 0..252 /\ at(i + 1) \in 0..255 /\ i \in 0..(Size - 1)
      BY <1>0, <1>1, <2>1
    <3> DEFINE a == ch * 4
               b == at(i + 1)
    <3>3. a \in 0..255 /\ b \in 0..255 /\ a <= 252
      BY <3>1
    <3>4. d.tarindex \in 0..(Size - 1) /\ (1 # 0 => d.tarindex + 0 < Size)
      BY <1>0, <2>1, <3>1 DEF i
    <3> HIDE DEF a, b
    <3>5. /\ a \in 0..255 /\ b \in 0..255 /\ 0 \in {0, 1} /\ 1 \in 0..3
          /\ d.tarindex \in 0..(Size - 1)
          /\ 1 # 0 => d.tarindex + 0 < Size
          /\ 1 = 1 => 0 = 0 /\ a <= 252
          /\ 1 = 2 => 0 = 1 /\ b <= 240
          /\ 1 = 3 => 0 = 1 /\ b <= 192
      BY <3>3, <3>4
    <3>6. Decoder(Put(d, a, b, 0, 1))
      BY <3>5, PutDecodes, Zenon
    <3> QED BY <3>6 DEF a, b
  <2> QED BY <1>3, <1>s, <1>f, <2>1
<1>4. CASE d.state = 1
  <2>1. ASSUME i + 1 < Size PROVE Decoder(Put(d, at(i) + (ch \div 16), (ch % 16) * 16, 1, 2))
    <3>1. i \in 0..(Size - 1) /\ at(i) \in 0..252
      BY <1>0, <1>2, <1>b, <1>4, <2>1
    <3>2. at(i) + (ch \div 16) \in 0..255 /\ (ch % 16) * 16 \in 0..240
      BY <3>1, <1>c
    <3> DEFINE a == at(i) + (ch \div 16)
               b == (ch % 16) * 16
    <3>3. a \in 0..255 /\ b \in 0..255 /\ b <= 240
      BY <3>2
    <3>4. d.tarindex \in 0..(Size - 1) /\ (2 # 0 => d.tarindex + 1 < Size)
      BY <1>0, <2>1, <3>1 DEF i
    <3> HIDE DEF a, b
    <3>5. /\ a \in 0..255 /\ b \in 0..255 /\ 1 \in {0, 1} /\ 2 \in 0..3
          /\ d.tarindex \in 0..(Size - 1)
          /\ 2 # 0 => d.tarindex + 1 < Size
          /\ 2 = 1 => 1 = 0 /\ a <= 252
          /\ 2 = 2 => 1 = 1 /\ b <= 240
          /\ 2 = 3 => 1 = 1 /\ b <= 192
      BY <3>3, <3>4
    <3>6. Decoder(Put(d, a, b, 1, 2))
      BY <3>5, PutDecodes, Zenon
    <3> QED BY <3>6 DEF a, b
  <2> QED BY <1>4, <1>s, <1>f, <2>1
<1>5. CASE d.state = 2
  <2>1. ASSUME i + 1 < Size PROVE Decoder(Put(d, at(i) + (ch \div 4), low_bits(ch), 1, 3))
    <3>1. i \in 0..(Size - 1) /\ at(i) \in 0..240
      BY <1>0, <1>2, <1>b, <1>5, <2>1
    <3>2. at(i) + (ch \div 4) \in 0..255 /\ low_bits(ch) \in 0..192
      BY <3>1, <1>c
    <3> DEFINE a == at(i) + (ch \div 4)
               b == low_bits(ch)
    <3>3. a \in 0..255 /\ b \in 0..255 /\ b <= 192
      BY <3>2
    <3>4. d.tarindex \in 0..(Size - 1) /\ (3 # 0 => d.tarindex + 1 < Size)
      BY <1>0, <2>1, <3>1 DEF i
    <3> HIDE DEF a, b
    <3>5. /\ a \in 0..255 /\ b \in 0..255 /\ 1 \in {0, 1} /\ 3 \in 0..3
          /\ d.tarindex \in 0..(Size - 1)
          /\ 3 # 0 => d.tarindex + 1 < Size
          /\ 3 = 1 => 1 = 0 /\ a <= 252
          /\ 3 = 2 => 1 = 1 /\ b <= 240
          /\ 3 = 3 => 1 = 1 /\ b <= 192
      BY <3>3, <3>4
    <3>6. Decoder(Put(d, a, b, 1, 3))
      BY <3>5, PutDecodes, Zenon
    <3> QED BY <3>6 DEF a, b
  <2> QED BY <1>5, <1>s, <1>f, <2>1
<1>6. CASE d.state = 3
  <2>1. ASSUME i < Size PROVE Decoder(Put(d, at(i) + ch, at(i + 1), 1, 0))
    <3>0. i \in 0..(Size - 1) /\ at(i) \in 0..192
      BY <1>0, <1>2, <1>b, <1>6, <2>1, SMTT(30)
    <3>1. i \in 0..(Size - 1) /\ at(i) \in 0..192 /\ at(i + 1) \in 0..255
      BY <3>0, <1>1
    <3>2. at(i) + ch \in 0..255
      BY <3>1
    <3> DEFINE a == at(i) + ch
               b == at(i + 1)
    <3>3. a \in 0..255 /\ b \in 0..255
      BY <3>1, <3>2
    <3>4. d.tarindex \in 0..(Size - 1) /\ (0 # 0 => d.tarindex + 1 < Size)
      BY <1>0, <2>1, <3>1 DEF i
    <3> HIDE DEF a, b
    <3>5. /\ a \in 0..255 /\ b \in 0..255 /\ 1 \in {0, 1} /\ 0 \in 0..3
          /\ d.tarindex \in 0..(Size - 1)
          /\ 0 # 0 => d.tarindex + 1 < Size
          /\ 0 = 1 => 1 = 0 /\ a <= 252
          /\ 0 = 2 => 1 = 1 /\ b <= 240
          /\ 0 = 3 => 1 = 1 /\ b <= 192
      BY <3>3, <3>4
    <3>6. Decoder(Put(d, a, b, 1, 0))
      BY <3>5, PutDecodes, Zenon
    <3> QED BY <3>6 DEF a, b
  <2> QED BY <1>6, <1>s, <1>f, <2>1
<1> QED BY <1>0, <1>3, <1>4, <1>5, <1>6

\* Any character.
LEMMA StepDecodes ==
  ASSUME NEW d, Decoder(d), NEW ch \in 0..Other
  PROVE  Decoder(Step(d, Size, ch))
<1>1. \A m \in Modes : Decoder([d EXCEPT !.mode = m])
  BY FailedDecodes
<1>2. Decoder(Failed(d))
  BY FailedDecodes
<1>3. d.mode \in Modes
  BY DEF Decoder
<1>4. CASE ch = Space
  BY <1>4 DEF Step
<1>5. CASE ch # Space /\ d.mode = "loop" /\ ch = Pad
  <2> DEFINE m == IF d.state = 2 THEN "pad" ELSE IF d.state = 3 THEN "end" ELSE "error"
  <2>1. Step(d, Size, ch) = [d EXCEPT !.mode = m]
    BY <1>5 DEF Step, Pad, Other
  <2>2. m \in Modes
    BY DEF Modes
  <2> HIDE DEF m
  <2> QED BY <1>1, <2>1, <2>2
<1>6. CASE ch # Space /\ d.mode = "loop" /\ ch = Other
  <2>1. Step(d, Size, ch) = Failed(d)
    BY <1>6 DEF Step, Pad, Other
  <2> QED BY <1>2, <2>1
<1>7. CASE ch # Space /\ d.mode = "loop" /\ ch # Pad /\ ch # Other
  <2>1. ch \in 0..63
    BY <1>7 DEF Space, Pad, Other
  <2>2. Step(d, Size, ch) = Sextet(d, Size, ch)
    BY <1>7, <2>1 DEF Step, Pad
  <2> QED BY <2>1, <2>2, SextetDecodes
<1>8. CASE ch # Space /\ d.mode = "pad"
  <2>1. Step(d, Size, ch) = IF ch = Pad THEN [d EXCEPT !.mode = "end"] ELSE Failed(d)
    BY <1>8 DEF Step
  <2> QED BY <1>1, <1>2, <2>1 DEF Modes
<1>9. CASE ch # Space /\ d.mode = "end"
  <2>1. Step(d, Size, ch) = Failed(d)
    BY <1>9 DEF Step
  <2> QED BY <1>2, <2>1
<1>10. CASE ch # Space /\ d.mode = "error"
  <2>1. Step(d, Size, ch) = d
    BY <1>10 DEF Step
  <2> QED BY <2>1
<1> QED BY <1>3, <1>4, <1>5, <1>6, <1>7, <1>8, <1>9, <1>10 DEF Modes

\* What TypeOK says of the decoder.
LEMMA DecoderType ==
  ASSUME NEW d, Decoder(d)
  PROVE  /\ d.state \in 0..3
         /\ d.tarindex \in 0..(IF d.state = 0 THEN Size ELSE Size - 1)
         /\ \A i \in 0..(Size - 1) : d.target[i] \in 0..255
<1> DEFINE T == d.target
<1>1. T \in Buffers /\ d.state \in 0..3 /\ d.tarindex \in 0..Size
  BY DEF Decoder
<1>2. d.state # 0 => d.tarindex < Size
  BY DEF Decoder
<1>3. d.tarindex \in 0..(IF d.state = 0 THEN Size ELSE Size - 1)
  BY <1>1, <1>2, SizeType
<1> HIDE DEF T
<1>4. \A i \in 0..(Size - 1) : T[i] \in 0..255
  BY <1>1 DEF Buffers
<1> QED BY <1>1, <1>3, <1>4 DEF T

\* The bytes of a key are a sequence of bytes.
LEMMA KeyType ==
  ASSUME Decoder(dec)
  PROVE  /\ [1..KeySize -> 0..255] \subseteq Seq(0..255)
         /\ Bytes \in Seq(0..255)
<1> DEFINE T == dec.target
<1>1. T \in Buffers
  BY DEF Decoder
<1>2. [1..KeySize -> 0..255] \subseteq Seq(0..255)
  BY SizeType, SeqDef
<1> HIDE DEF T
<1>3. \A k \in 1..KeySize : k - 1 \in 0..(Size - 1) /\ T[k - 1] \in 0..255
  BY <1>1, SizeType DEF Buffers
<1>4. [k \in 1..KeySize |-> T[k - 1]] \in [1..KeySize -> 0..255]
  BY <1>3
<1>5. Bytes = [k \in 1..KeySize |-> T[k - 1]]
  BY DEF Bytes, T
<1> QED BY <1>2, <1>4, <1>5

-----------------------------------------------------------------------------
(* The invariant holds at the start and every step keeps it.               *)

LEMMA InitInv == Init => IInv
<1> SUFFICES ASSUME Init PROVE IInv
  OBVIOUS
<1>1. Decoder(dec)
  BY StartDecodes DEF Init
<1>2. TypeOK
  <2>1. line \in Seq(Chars) /\ keys \in Seq(Seq(0..255))
    BY DEF Init
  <2>2. /\ auth_enabled \in BOOLEAN
        /\ up \in [Transports -> {"new", "up", "freed"}]
        /\ online \in [Transports -> BOOLEAN]
        /\ fde \in [Transports -> Conns \cup {None}]
        /\ active \in [Transports -> BOOLEAN]
    BY DEF Init
  <2>3. /\ epoll \in [Conns -> Transports \cup {None}]
        /\ conn \in [Conns -> {"unused", "open", "asked", "OK", "NO", "reset", "eof", "shut"}]
        /\ framework_fd \in Conns \cup {None}
        /\ dead \in {"no", "epoll_ctl", "freed"}
        /\ approved \subseteq Transports
    BY DEF Init
  <2> QED BY <1>1, DecoderType, <2>1, <2>2, <2>3, Zenon DEF TypeOK
<1>3. Asked
  BY DEF Init, Asked, AskedOf
<1>4. ApprovedOnly
  BY DEF Init, ApprovedOnly
<1> QED BY <1>1, <1>2, <1>3, <1>4 DEF IInv

\* Reading the key file.
LEMMA ReadCharInv == IInv /\ read_char => IInv'
<1> SUFFICES ASSUME IInv, read_char PROVE IInv'
  OBVIOUS
<1>1. PICK c \in Chars : line' = Append(line, c) /\ dec' = Step(dec, Size, c)
  BY DEF read_char
<1>2. Decoder(dec)'
  <2>1. c \in 0..Other
    BY AuthAssumption
  <2>2. Decoder(Step(dec, Size, c))
    BY <2>1, StepDecodes DEF IInv
  <2> QED BY <1>1, <2>2 DEF Decoder
<1>3. line' \in Seq(Chars)
  <2>1. line \in Seq(Chars)
    BY DEF IInv, TypeOK, read_char, Loading
  <2> QED BY <1>1, <2>1
<1>4. UNCHANGED <<keys, auth_enabled, up, online, fde, active, epoll, conn, framework_fd, dead, approved>>
  BY DEF read_char, tVars, fdeVars
<1>5. TypeOK'
  <2>1. /\ dec'.state \in 0..3
        /\ dec'.tarindex \in 0..(IF dec'.state = 0 THEN Size ELSE Size - 1)
        /\ \A i \in 0..(Size - 1) : dec'.target[i] \in 0..255
    BY <1>2, DecoderType
  <2> QED BY <1>3, <1>4, <2>1 DEF IInv, TypeOK
<1>6. (dead = "no" => Asked)' /\ ApprovedOnly'
  BY <1>4 DEF IInv, Asked, AskedOf, ApprovedOnly
<1> QED BY <1>2, <1>5, <1>6 DEF IInv

LEMMA ReadKeyInv == IInv /\ read_key => IInv'
<1> SUFFICES ASSUME IInv, read_key PROVE IInv'
  OBVIOUS
<1>1. Decoder(dec)'
  BY StartDecodes DEF read_key, Decoder
<1>2. line' = <<None>> /\ keys' \in Seq(Seq(0..255))
  <2>1. Bytes \in Seq(0..255)
    BY KeyType DEF IInv
  <2>2. <<Bytes>> \in Seq(Seq(0..255)) /\ <<>> \in Seq(Seq(0..255))
    <3> DEFINE B == Bytes
    <3> HIDE DEF B
    <3>1. B \in Seq(0..255) => <<B>> \in Seq(Seq(0..255))
      OBVIOUS
    <3> QED BY <2>1, <3>1 DEF B
  <2> QED BY <2>2, Zenon DEF read_key
<1>3. UNCHANGED <<auth_enabled, up, online, fde, active, epoll, conn, framework_fd, dead, approved>>
  BY DEF read_key, tVars, fdeVars
<1>4. TypeOK'
  <2>1. /\ dec'.state \in 0..3
        /\ dec'.tarindex \in 0..(IF dec'.state = 0 THEN Size ELSE Size - 1)
        /\ \A i \in 0..(Size - 1) : dec'.target[i] \in 0..255
    BY <1>1, DecoderType
  <2> QED BY <1>2, <1>3, <2>1 DEF IInv, TypeOK
<1>5. (dead = "no" => Asked)' /\ ApprovedOnly'
  BY <1>3 DEF IInv, Asked, AskedOf, ApprovedOnly
<1> QED BY <1>1, <1>4, <1>5 DEF IInv

\* The rest of TypeOK, which the daemon's actions disturb.
Daemon ==
  /\ auth_enabled \in BOOLEAN
  /\ up \in [Transports -> {"new", "up", "freed"}]
  /\ online \in [Transports -> BOOLEAN]
  /\ fde \in [Transports -> Conns \cup {None}]
  /\ active \in [Transports -> BOOLEAN]
  /\ epoll \in [Conns -> Transports \cup {None}]
  /\ conn \in [Conns -> {"unused", "open", "asked", "OK", "NO", "reset", "eof", "shut"}]
  /\ framework_fd \in Conns \cup {None}
  /\ dead \in {"no", "epoll_ctl", "freed"}
  /\ approved \subseteq Transports

LEMMA DaemonInv ==
  ASSUME IInv, UNCHANGED <<line, dec>>, keys' \in Seq(Seq(0..255)),
         Daemon', (dead = "no" => Asked)', ApprovedOnly'
  PROVE  IInv'
<1>1. Decoder(dec)'
  BY DEF IInv, Decoder
<1>2. TypeOK'
  BY DEF IInv, TypeOK, Daemon
<1> QED BY <1>1, <1>2 DEF IInv

LEMMA InvDaemon ==
  ASSUME IInv
  PROVE  Daemon /\ keys \in Seq(Seq(0..255)) /\ (dead = "no" => Asked) /\ ApprovedOnly
BY DEF IInv, TypeOK, Daemon

\* Packets of the hosts.
LEMMA PacketInv ==
  ASSUME IInv, NEW t \in Transports,
         connect(t) \/ free_transport(t) \/ handle_CNXN(t) \/ handle_SIGNATURE(t)
  PROVE  IInv'
<1>0. Daemon /\ keys \in Seq(Seq(0..255)) /\ (dead = "no" => Asked) /\ ApprovedOnly
  BY InvDaemon
<1>1. UNCHANGED <<line, dec, keys, auth_enabled, fde, active, epoll, conn, framework_fd, dead, approved>>
  BY DEF connect, free_transport, handle_CNXN, handle_SIGNATURE, loadVars, fdeVars
<1>2. Daemon'
  BY <1>0, <1>1 DEF Daemon, connect, free_transport, handle_CNXN, handle_SIGNATURE, adb_auth_verify
<1>3. (dead = "no" => Asked)'
  BY <1>0, <1>1 DEF Asked, AskedOf
<1>4. ApprovedOnly'
  BY <1>0, <1>1 DEF Daemon, ApprovedOnly, connect, free_transport, handle_CNXN,
                    handle_SIGNATURE, adb_auth_verify
<1> QED BY <1>0, <1>1, <1>2, <1>3, <1>4, DaemonInv

\* A public key: auth_fde moves to a connection that no other one watches, or
\* the daemon ends.
LEMMA PublicKeyInv ==
  ASSUME IInv, NEW t \in Transports, handle_RSAPUBLICKEY(t)
  PROVE  IInv'
<1>0. Daemon /\ keys \in Seq(Seq(0..255)) /\ (dead = "no" => Asked) /\ ApprovedOnly
  BY InvDaemon
<1> DEFINE f == framework_fd
<1>1. /\ UNCHANGED <<line, dec, keys, auth_enabled, up, online, framework_fd, approved>>
      /\ dead = "no" /\ f \in Conns
      /\ conn' = [conn EXCEPT ![f] = "asked"]
      /\ fde' = [fde EXCEPT ![t] = f]
      /\ active' = [active EXCEPT ![t] = TRUE]
  BY <1>0 DEF Daemon, handle_RSAPUBLICKEY, Runs, loadVars
<1>f. conn[f] # "shut"
  BY DEF handle_RSAPUBLICKEY, Usable
<1>2. \/ epoll[f] # None /\ dead' = "epoll_ctl" /\ epoll' = epoll
      \/ epoll[f] = None /\ dead' = dead /\ epoll' = [epoll EXCEPT ![f] = t]
  BY DEF handle_RSAPUBLICKEY
<1>3. Daemon'
  BY <1>0, <1>1, <1>2 DEF Daemon
<1>4. ASSUME dead' = "no" PROVE Asked'
  <2>1. epoll[f] = None /\ epoll' = [epoll EXCEPT ![f] = t]
    BY <1>2, <1>4
  <2>2. ASSUME NEW u \in Transports PROVE AskedOf(u)'
    <3>1. CASE u = t
      <4>1. f # None
        BY <1>1, AuthAssumption
      <4>2. fde'[t] = f /\ active'[t] /\ epoll'[f] = t /\ conn'[f] = "asked"
        BY <1>0, <1>1, <2>1 DEF Daemon
      <4> QED BY <3>1, <4>1, <4>2 DEF AskedOf
    <3>2. CASE u # t
      <4>1. AskedOf(u) /\ fde'[u] = fde[u] /\ active'[u] = active[u] /\ u # None
        BY <1>0, <1>1, <3>2, AuthAssumption DEF Daemon, Asked
      <4>2. CASE active[u]
        <5>1. fde[u] \in Conns /\ fde[u] # f
          BY <1>0, <2>1, <4>1, <4>2 DEF Daemon, AskedOf
        <5> QED BY <1>0, <1>1, <2>1, <4>1, <4>2, <5>1 DEF Daemon, AskedOf
      <4>3. CASE ~active[u]
        <5>1. fde[u] = None \/ fde[u] # f
          BY <4>1, <4>3, <1>f DEF AskedOf
        <5> QED BY <1>0, <1>1, <4>1, <4>3, <5>1 DEF Daemon, AskedOf
      <4> QED BY <4>2, <4>3
    <3> QED BY <3>1, <3>2
  <2>3. ASSUME NEW c \in Conns, epoll'[c] # None PROVE fde'[epoll'[c]] # None
    BY <1>0, <1>1, <2>1, <2>3, AuthAssumption DEF Daemon, Asked
  <2> QED BY <2>2, <2>3 DEF Asked
<1>5. ApprovedOnly'
  BY <1>0, <1>1 DEF ApprovedOnly
<1> QED BY <1>0, <1>1, <1>3, <1>4, <1>5, DaemonInv

\* A framework connects or ends, or the user decides.
LEMMA ListenerInv ==
  ASSUME IInv, adb_auth_listener
  PROVE  IInv'
<1>0. Daemon /\ keys \in Seq(Seq(0..255)) /\ (dead = "no" => Asked) /\ ApprovedOnly
  BY InvDaemon
<1>1. PICK c \in Conns : conn[c] = "unused" /\ conn' = [conn EXCEPT ![c] = "open"] /\ framework_fd' = c
  BY DEF adb_auth_listener
<1>2. UNCHANGED <<line, dec, keys, auth_enabled, up, online, fde, active, epoll, dead, approved>>
  BY DEF adb_auth_listener, loadVars, tVars, fdeVars
<1>3. Daemon'
  BY <1>0, <1>1, <1>2 DEF Daemon
<1>4. (dead = "no" => Asked)'
  BY <1>0, <1>1, <1>2 DEF Daemon, Asked, AskedOf
<1>5. ApprovedOnly'
  BY <1>0, <1>2 DEF ApprovedOnly
<1> QED BY <1>0, <1>2, <1>3, <1>4, <1>5, DaemonInv

LEMMA EndsInv ==
  ASSUME IInv, NEW c \in Conns, framework_ends(c)
  PROVE  IInv'
<1>0. Daemon /\ keys \in Seq(Seq(0..255)) /\ (dead = "no" => Asked) /\ ApprovedOnly
  BY InvDaemon
<1>1. PICK e \in {"reset", "eof"} : conn' = [conn EXCEPT ![c] = e]
  BY DEF framework_ends
<1>2. /\ UNCHANGED <<line, dec, keys, auth_enabled, up, online, fde, active, epoll,
                     framework_fd, dead, approved>>
      /\ conn[c] # "shut"
  BY DEF framework_ends, Usable, loadVars, tVars, fdeVars
<1>3. Daemon'
  BY <1>0, <1>1, <1>2 DEF Daemon
<1>4. (dead = "no" => Asked)'
  BY <1>0, <1>1, <1>2 DEF Daemon, Asked, AskedOf
<1>5. ApprovedOnly'
  BY <1>0, <1>2 DEF ApprovedOnly
<1> QED BY <1>0, <1>2, <1>3, <1>4, <1>5, DaemonInv

LEMMA AnswersInv ==
  ASSUME IInv, NEW t \in Transports, framework_answers(t)
  PROVE  IInv'
<1>0. Daemon /\ keys \in Seq(Seq(0..255)) /\ (dead = "no" => Asked) /\ ApprovedOnly
  BY InvDaemon
<1> DEFINE d == fde[t]
<1>1. PICK a \in {"OK", "NO"} :
        /\ conn' = [conn EXCEPT ![d] = a]
        /\ approved' = IF a = "OK" THEN approved \cup {t} ELSE approved
  BY DEF framework_answers
<1>2. /\ UNCHANGED <<line, dec, keys, auth_enabled, up, online, fde, active, epoll,
                     framework_fd, dead>>
      /\ active[t] /\ conn[d] = "asked" /\ dead = "no"
  BY DEF framework_answers, Runs, loadVars, tVars, fdeVars
<1>3. d \in Conns /\ epoll[d] = t
  BY <1>0, <1>2 DEF Daemon, Asked, AskedOf
<1>4. Daemon'
  BY <1>0, <1>1, <1>2, <1>3 DEF Daemon
<1>5. Asked'
  BY <1>0, <1>1, <1>2, <1>3 DEF Daemon, Asked, AskedOf
<1>6. ApprovedOnly'
  BY <1>0, <1>1, <1>2 DEF ApprovedOnly
<1> QED BY <1>0, <1>2, <1>4, <1>5, <1>6, DaemonInv

\* The answer is read, from the connection that auth_fde names.
LEMMA EventInv ==
  ASSUME IInv, NEW c \in Conns, adb_auth_event(c)
  PROVE  IInv'
<1>0. Daemon /\ keys \in Seq(Seq(0..255)) /\ (dead = "no" => Asked) /\ ApprovedOnly
  BY InvDaemon
<1> DEFINE t == epoll[c]
           d == fde[t]
<1>1. /\ UNCHANGED <<line, dec, auth_enabled, up, approved>>
      /\ dead = "no" /\ t # None
  BY DEF adb_auth_event, Runs
<1>2. t \in Transports /\ d \in Conns
  BY <1>0, <1>1 DEF Daemon, Asked
<1>3. CASE /\ dead' = "freed" /\ UNCHANGED <<keys, online, fdeVars, conn, framework_fd>>
  <2>1. Daemon'
    BY <1>0, <1>1, <1>3 DEF Daemon, fdeVars
  <2>2. ApprovedOnly'
    BY <1>0, <1>1, <1>3 DEF ApprovedOnly
  <2> QED BY <1>0, <1>1, <1>3, <2>1, <2>2, DaemonInv
<1>4. CASE /\ conn[d] \in {"OK", "NO"}
           /\ keys' \in IF accepted(d) THEN reloaded ELSE {keys}
           /\ online' = [online EXCEPT ![t] = @ \/ accepted(d)]
           /\ conn' = [conn EXCEPT ![d] = "open"]
           /\ UNCHANGED <<fdeVars, framework_fd, dead>>
  <2>1. keys' \in Seq(Seq(0..255))
    <3>1. [1..KeySize -> 0..255] \subseteq Seq(0..255)
      BY KeyType DEF IInv
    <3>2. reloaded \subseteq Seq(Seq(0..255))
      <4>1. ASSUME NEW k \in [1..KeySize -> 0..255] PROVE <<k>> \in Seq(Seq(0..255))
        <5>1. k \in Seq(0..255)
          BY <3>1
        <5> QED BY <5>1
      <4>2. <<>> \in Seq(Seq(0..255))
        OBVIOUS
      <4> QED BY <4>1, <4>2, ZenonT(60) DEF reloaded
    <3> QED BY <1>0, <1>4, <3>2
  <2>2. UNCHANGED <<fde, active, epoll, framework_fd, dead>>
    BY <1>4 DEF fdeVars
  <2>3. Daemon'
    BY <1>0, <1>1, <1>2, <1>4, <2>2 DEF Daemon, accepted
  <2>4. Asked'
    BY <1>0, <1>1, <1>2, <1>4, <2>2 DEF Daemon, Asked, AskedOf
  <2>5. accepted(d) => t \in approved
    BY <1>0, <1>1, <1>2 DEF accepted, Daemon, Asked, AskedOf
  <2>6. ApprovedOnly'
    BY <1>0, <1>1, <1>2, <1>4, <2>5 DEF Daemon, ApprovedOnly
  <2> QED BY <1>1, <2>1, <2>3, <2>4, <2>6, DaemonInv
<1>5. CASE Disconnect(t) /\ UNCHANGED keys
  <2>1. /\ UNCHANGED <<keys, fde, online, dead>>
        /\ framework_fd' = None /\ active' = [active EXCEPT ![t] = FALSE]
        /\ \/ active[t] /\ conn' = [conn EXCEPT ![d] = "shut"] /\ epoll' = [epoll EXCEPT ![d] = None]
           \/ ~active[t] /\ conn' = conn /\ epoll' = epoll
    BY <1>0, <1>2, <1>5 DEF Disconnect, Daemon
  <2>2. Daemon'
    BY <1>0, <1>1, <1>2, <2>1 DEF Daemon
  <2>3. Asked'
    <3>1. ASSUME NEW u \in Transports PROVE AskedOf(u)'
      BY <1>0, <1>1, <1>2, <2>1, AuthAssumption DEF Daemon, Asked, AskedOf
    <3>2. ASSUME NEW e \in Conns, epoll'[e] # None PROVE fde'[epoll'[e]] # None
      BY <1>0, <1>1, <1>2, <2>1, <3>2 DEF Daemon, Asked
    <3> QED BY <3>1, <3>2 DEF Asked
  <2>4. ApprovedOnly'
    BY <1>0, <1>1, <2>1 DEF ApprovedOnly
  <2> QED BY <1>0, <1>1, <2>1, <2>2, <2>3, <2>4, DaemonInv
<1> QED BY <1>3, <1>4, <1>5 DEF adb_auth_event

LEMMA NextInv == IInv /\ [Next]_vars => IInv'
<1> SUFFICES ASSUME IInv, [Next]_vars PROVE IInv'
  OBVIOUS
<1>1. CASE UNCHANGED vars
  BY <1>1 DEF IInv, TypeOK, Decoder, Asked, AskedOf, ApprovedOnly, vars, loadVars, tVars, fdeVars
<1>2. CASE Next
  BY <1>2, ReadCharInv, ReadKeyInv, PacketInv, PublicKeyInv, ListenerInv, EndsInv, AnswersInv,
     EventInv DEF Next
<1> QED BY <1>1, <1>2

-----------------------------------------------------------------------------
(* The theorems.                                                           *)

\* The invariant holds in every reachable state.
THEOREM Invariance == Spec => []IInv
BY InitInv, NextInv, PTL DEF Spec

\* Whatever the key file holds, b64_pton never leaves its buffer, what it
\* stores is a byte, and what every other variable holds is of its type.
THEOREM TypeCorrect == Spec => []TypeOK
<1>1. IInv => TypeOK
  BY DEF IInv
<1> QED BY <1>1, Invariance, PTL

\* With --auth a host is served only when the framework has accepted a key
\* that came over the same transport, for any number of transports and of
\* framework connections, while adb_auth_event may read another connection
\* than the one that epoll has reported.
THEOREM OnlyApproved == Spec => []ApprovedOnly
<1>1. IInv => ApprovedOnly
  BY DEF IInv
<1> QED BY <1>1, Invariance, PTL
=============================================================================
