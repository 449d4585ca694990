----------------------------- MODULE RideJournal -----------------------------
(***************************************************************************)
(* What the ride-completed event promises a journal: while the odometer is *)
(* known, every advance of it is announced once, in full; when knowledge   *)
(* is lost it resumes from the next odometer read, never from an older     *)
(* one.  How the coordinator gets there is Coordinator.tla.                *)
(***************************************************************************)
EXTENDS Integers

VARIABLES
  known,  \* the odometer of the snapshot kept, Unknown without one
  first,  \* the first odometer ever read
  last,   \* the latest odometer ever read
  total   \* the distances announced so far

vars == <<known, first, last, total>>

Unknown == -1

Init ==
  /\ known = Unknown /\ first = Unknown /\ last = Unknown
  /\ total = 0

\* The first odometer read since there was none to compare with.
Learn ==
  /\ known = Unknown
  /\ known' \in Nat /\ known' >= last
  /\ last' = known'
  /\ first' = IF first = Unknown THEN known' ELSE first
  /\ UNCHANGED total

Announce ==
  /\ known # Unknown
  /\ known' \in Nat /\ known' > known
  /\ last' = known'
  /\ total' = total + (known' - known)
  /\ UNCHANGED first

Forget ==
  /\ known' = Unknown
  /\ UNCHANGED <<first, last, total>>

Next == Learn \/ Announce \/ Forget

Spec == Init /\ [][Next]_vars

=============================================================================
