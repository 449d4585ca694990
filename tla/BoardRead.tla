------------------------------ MODULE BoardRead ------------------------------
(***************************************************************************)
(* What one call of TuyaEboardDevice.read_all_dps promises its caller: it  *)
(* ends once, with datapoints a paired board reported during this call,    *)
(* with struct.error if they hold a value that cannot be packed again,     *)
(* with the board's refusal of the status request (TuyaBLEError), or with  *)
(* a transport error (BleakError).  How it connects is TuyaBLEDevice.tla.  *)
(***************************************************************************)
EXTENDS FiniteSets

CONSTANT DPs

VARIABLES
  outcome,   \* "running" until the call ends
  snapshot,  \* the datapoint ids it returns
  collected, \* whether they were collected
  reported,  \* the ids the board reported so far
  granted,   \* the board accepted the pairing request
  refused    \* the board refused the status request

vars == <<outcome, snapshot, collected, reported, granted, refused>>

Init ==
  /\ outcome = "running" /\ snapshot = {} /\ collected = FALSE
  /\ reported = {} /\ granted = FALSE /\ refused = FALSE

\* The board reports more ids, accepts the pairing or refuses the status.
Board ==
  /\ reported' \in SUBSET DPs /\ reported \subseteq reported'
  /\ granted' \in BOOLEAN /\ (granted => granted')
  /\ refused' \in BOOLEAN /\ (refused => refused')
  /\ UNCHANGED <<outcome, snapshot, collected>>

\* The settle window ends; the connection is still to be closed.
Collect ==
  /\ outcome = "running" /\ granted /\ ~collected
  /\ collected' = TRUE /\ snapshot' = reported
  /\ UNCHANGED <<outcome, reported, granted, refused>>

\* With what was collected, or collecting it in the same step.
Return ==
  /\ outcome = "running" /\ granted
  /\ outcome' = "returned" /\ collected' = TRUE
  /\ IF collected THEN UNCHANGED snapshot ELSE snapshot' = reported
  /\ UNCHANGED <<reported, granted, refused>>

\* Nothing could be collected: one of the values reported cannot be packed.
RaiseUnpackable ==
  /\ outcome = "running" /\ granted /\ ~collected /\ reported # {}
  /\ outcome' = "struct.error"
  /\ UNCHANGED <<snapshot, collected, reported, granted, refused>>

RaiseRefusal ==
  /\ outcome = "running" /\ refused
  /\ outcome' = "TuyaBLEError"
  /\ UNCHANGED <<snapshot, collected, reported, granted, refused>>

RaiseTransport ==
  /\ outcome = "running"
  /\ outcome' = "BleakError"
  /\ UNCHANGED <<snapshot, collected, reported, granted, refused>>

End == Return \/ RaiseUnpackable \/ RaiseRefusal \/ RaiseTransport

Next == Board \/ Collect \/ End

Spec == Init /\ [][Next]_vars /\ WF_vars(End)

=============================================================================
