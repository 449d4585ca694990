-------------------------------- MODULE Cuts --------------------------------
(***************************************************************************)
(* What a message cut into packets is, for Framing.tla, which takes the    *)
(* packets apart again, and PacketCodec.tla, which cuts them.              *)
(***************************************************************************)
EXTENDS Naturals, Sequences

\* Where the data of each packet ends in a message of a length: each packet takes
\* a part of it, and the last one ends it.
IsCut(ends, length) ==
  /\ ends \in Seq(Nat) /\ ends # <<>> /\ ends[Len(ends)] = length
  /\ \A i \in 1..Len(ends), j \in 1..Len(ends) : i < j => ends[i] < ends[j]
  /\ ends[1] > 0

=============================================================================
