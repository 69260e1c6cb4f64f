------------------------------- MODULE Base64 -------------------------------
(***************************************************************************)
(* b64_pton of base64.c, and what a decoder of Base64 should return.       *)
(*                                                                         *)
(* A character is the number of its place in the alphabet, Pad, Space (any *)
(* white space) or Other.  The state of the loop is a record; each         *)
(* character is a step.                                                    *)
(***************************************************************************)
EXTENDS Integers, Sequences, FiniteSetsExt, SequencesExt

Pad == 64
Space == 65
Other == 66
Error == -1

\* The loop's variables; mode is where in the function the next character is
\* looked at: the loop, after the first pad in state 2, after the last pad,
\* or nowhere because the function has returned -1.
Start(size) ==
  [state |-> 0, tarindex |-> 0, target |-> [i \in 0..(size - 1) |-> 0], mode |-> "loop"]

Failed(d) == [d EXCEPT !.mode = "error"]

\* Mutant: state 2 shifts as state 1 does.
low_bits_Four(ch) == (ch % 4) * 16

\* What state 2 leaves for the next byte.
low_bits(ch) == (ch % 4) * 64

\* Mutant: one byte too many.
room_One(k, size) == k <= size

\* tarindex>=targsize, tarindex+1>=targsize.
room(k, size) == k < size

\* The switch, for a character of the alphabet.
Sextet(d, size, ch) ==
  LET i == d.tarindex
      to(first, second, moved, next) ==
        [d EXCEPT !.target = [k \in DOMAIN d.target |->
                                IF k = i THEN first ELSE IF k = i + 1 THEN second ELSE @[k]],
                  !.tarindex = i + moved, !.state = next]
      at(k) == IF k \in DOMAIN d.target THEN d.target[k] ELSE 0
  IN  CASE d.state = 0 -> IF room(i, size) THEN to(ch * 4, at(i + 1), 0, 1) ELSE Failed(d)
        [] d.state = 1 -> IF room(i + 1, size) THEN to(at(i) + (ch \div 16), (ch % 16) * 16, 1, 2) ELSE Failed(d)
        [] d.state = 2 -> IF room(i + 1, size) THEN to(at(i) + (ch \div 4), low_bits(ch), 1, 3) ELSE Failed(d)
        [] d.state = 3 -> IF room(i, size) THEN to(at(i) + ch, at(i + 1), 1, 0) ELSE Failed(d)

\* One character; white space (isspace) is skipped wherever it is.
Step(d, size, ch) ==
  IF ch = Space THEN d
  ELSE CASE d.mode = "loop" /\ ch = Pad ->
              [d EXCEPT !.mode = IF d.state = 2 THEN "pad" ELSE IF d.state = 3 THEN "end" ELSE "error"]
         [] d.mode = "loop" /\ ch = Other -> Failed(d)
         [] d.mode = "loop" /\ ch < Pad -> Sextet(d, size, ch)
         [] d.mode = "pad" -> IF ch = Pad THEN [d EXCEPT !.mode = "end"] ELSE Failed(d)
         [] d.mode = "end" -> Failed(d)
         [] d.mode = "error" -> d

\* The end of the string: the number of bytes, or -1.
Result(d) ==
  CASE d.mode = "loop" -> IF d.state = 0 THEN d.tarindex ELSE Error
    [] d.mode = "end" -> IF d.target[d.tarindex] = 0 THEN d.tarindex ELSE Error
    [] OTHER -> Error

-----------------------------------------------------------------------------
(* The reference: Base64 as sextets of bits.                               *)

Bit(sextets, k) == (sextets[(k \div 6) + 1] \div (2 ^ (5 - (k % 6)))) % 2
Byte(sextets, j) == SumSet({Bit(sextets, 8 * j + b) * 2 ^ (7 - b) : b \in 0..7})

Text(line) == SelectSeq(line, LAMBDA c : c # Space)
\* The sextets are what comes before the first character outside the alphabet.
SextetCount(text) ==
  IF \E k \in DOMAIN text : text[k] > 63
  THEN Min({k \in DOMAIN text : text[k] > 63}) - 1
  ELSE Len(text)

\* The bytes that a line of characters stands for, or Error: whole quanta, or
\* a last one of two or three sextets with its pads and no bits left over.
Decoded(line, size) ==
  LET text == Text(line)
      n == SextetCount(text)
      sextets == SubSeq(text, 1, n)
      rest == SubSeq(text, n + 1, Len(text))
      bytes == [j \in 1..((6 * n) \div 8) |-> Byte(sextets, j - 1)]
      spare == {Bit(sextets, k) : k \in (8 * Len(bytes))..(6 * n - 1)}
      touched == Len(bytes) + IF n % 4 = 0 THEN 0 ELSE 1
  IN  IF /\ touched <= size
         /\ spare \subseteq {0}
         /\ \/ n % 4 = 0 /\ rest = <<>>
            \/ n % 4 = 2 /\ rest = <<Pad, Pad>>
            \/ n % 4 = 3 /\ rest = <<Pad>>
      THEN bytes ELSE <<Error>>
=============================================================================
