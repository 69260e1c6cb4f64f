-------------------------------- MODULE Link --------------------------------
(***************************************************************************)
(* What the transports of adbd promise to the layers above them, without   *)
(* threads, socketpairs or reference counts.                               *)
(*                                                                         *)
(* A link is opened, carries packets to the host in the order they were    *)
(* sent and without gaps or repetitions, and may be cut at any time.  Once *)
(* closed nothing is sent on it any more, and it is reclaimed exactly      *)
(* once: when it is closed and cut, and no stream is attached to it.  A    *)
(* stream is attached to one link while that link is open, and a detached  *)
(* stream never returns.                                                   *)
(***************************************************************************)
EXTENDS Naturals, Sequences

CONSTANTS Links, Streams, Packets, NoLink

VARIABLES
  phase,     \* of a link: "new", "open", "closed" or "reclaimed"
  cut,       \* the links that no longer reach the host
  sent,      \* packets sent on a link
  received,  \* packets the host got
  stream     \* the link a stream is attached to

linkVars == <<phase, cut, sent, received, stream>>

NewStream == [st |-> "new", l |-> NoLink]
GoneStream == [st |-> "gone", l |-> NoLink]
Attached(l) == {s \in Streams : stream[s] = [st |-> "attached", l |-> l]}

LinkInit ==
  /\ phase = [l \in Links |-> "new"]
  /\ cut = {}
  /\ sent = [l \in Links |-> <<>>]
  /\ received = [l \in Links |-> <<>>]
  /\ stream = [s \in Streams |-> NewStream]

\* Some of the streams of l go for good.
Detach(l) ==
  \E S \in SUBSET Attached(l) :
    stream' = [s \in Streams |-> IF s \in S THEN GoneStream ELSE stream[s]]

\* A stream comes, perhaps to go at once.
Attach(l) ==
  \E s \in Streams, x \in {[st |-> "attached", l |-> l], GoneStream} :
    /\ stream[s] = NewStream
    /\ stream' = [stream EXCEPT ![s] = x]

Open(l) ==
  /\ phase[l] = "new"
  /\ phase' = [phase EXCEPT ![l] = "open"]
  /\ UNCHANGED <<cut, sent, received, stream>>

\* A packet is sent; with it a stream may come or streams may go.
Send(l, p) ==
  /\ phase[l] = "open"
  /\ sent' = [sent EXCEPT ![l] = Append(@, p)]
  /\ Attach(l) \/ Detach(l)
  /\ UNCHANGED <<phase, cut, received>>

\* Streams go without a packet.
Drop(l) ==
  /\ Detach(l)
  /\ UNCHANGED <<phase, cut, sent, received>>

\* The host gets the next packet, in order.
Receive(l) ==
  /\ phase[l] \in {"open", "closed"} /\ l \notin cut
  /\ Len(received[l]) < Len(sent[l])
  /\ received' = [received EXCEPT ![l] = Append(@, sent[l][Len(@) + 1])]
  /\ UNCHANGED <<phase, cut, sent, stream>>

Cut(l) ==
  /\ phase[l] \in {"open", "closed"}
  /\ cut' = cut \cup {l}
  /\ UNCHANGED <<phase, sent, received, stream>>

Close(l) ==
  /\ phase[l] = "open"
  /\ phase' = [phase EXCEPT ![l] = "closed"]
  /\ Detach(l)
  /\ UNCHANGED <<cut, sent, received>>

Reclaim(l) ==
  /\ phase[l] = "closed" /\ l \in cut /\ Attached(l) = {}
  /\ phase' = [phase EXCEPT ![l] = "reclaimed"]
  /\ UNCHANGED <<cut, sent, received, stream>>

LinkNext ==
  \E l \in Links :
    \/ Open(l)
    \/ \E p \in Packets : Send(l, p)
    \/ Drop(l)
    \/ Receive(l)
    \/ Cut(l)
    \/ Close(l)
    \/ Reclaim(l)

LinkSpec == LinkInit /\ [][LinkNext]_linkVars
=============================================================================
