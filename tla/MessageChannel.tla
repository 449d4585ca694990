---------------------------- MODULE MessageChannel ----------------------------
(***************************************************************************)
(* What the notification handler promises the code above it: the board's   *)
(* messages are handled whole, once and in the order they were sent, and   *)
(* none is lost unless the radio lost a packet of it.  How it gets there   *)
(* is Framing.tla.                                                         *)
(***************************************************************************)
EXTENDS Naturals, Sequences

VARIABLES
  sent,     \* how many messages the board sent; they are numbered from 1
  damaged,  \* the messages the radio lost a packet of
  handled   \* the numbers of the messages handled, in order

vars == <<sent, damaged, handled>>

Init == sent = 0 /\ damaged = {} /\ handled = <<>>

Latest == IF handled = <<>> THEN 0 ELSE handled[Len(handled)]

Send == sent' = sent + 1 /\ UNCHANGED <<damaged, handled>>

Damage ==
  /\ damaged' \in SUBSET (1..sent) /\ damaged \subseteq damaged'
  /\ \A m \in damaged' \ damaged : m > Latest
  /\ UNCHANGED <<sent, handled>>

\* The next message that is whole; only damaged ones are passed over.
Handle ==
  \E m \in (Latest + 1)..sent :
    /\ m \notin damaged
    /\ \A n \in (Latest + 1)..(m - 1) : n \in damaged
    /\ handled' = Append(handled, m)
    /\ UNCHANGED <<sent, damaged>>

Next == Send \/ Damage \/ Handle

Spec == Init /\ [][Next]_vars

=============================================================================
