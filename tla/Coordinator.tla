----------------------------- MODULE Coordinator -----------------------------
(***************************************************************************)
(* TuyaEboardCoordinator: reads of the board merged into one snapshot, the *)
(* ride-completed event, the recovered trip distance, and the values the   *)
(* sensors show over restarts.  When a read may start is Presence.tla; how *)
(* a read goes is TuyaBLEDevice.tla, of which this module keeps what       *)
(* BoardRead.tla promises.                                                 *)
(*                                                                         *)
(* The board rides and is power-cycled while a read is under way.  Battery *)
(* stands for every datapoint whose value nothing here depends on.         *)
(***************************************************************************)
EXTENDS Integers

CONSTANTS
  MaxOdometer,  \* how far the board may be ridden
  MaxRide       \* the longest ride between two steps

ASSUME RideAssumption == MaxOdometer \in Nat /\ MaxRide \in Nat

VARIABLES
  board,     \* the board's own value of every datapoint
  reading,   \* a poll is under way
  report,    \* what the board reported to this poll
  data,      \* self.data: the merged snapshot; nothing before the first one
  trip,      \* its trip_distance_km10
  reauth,    \* a reauth flow is open
  restored,  \* what each sensor restored when it was added
  stored,    \* the sensor values in Home Assistant's restore storage
  announced, \* sum of the distances of all ride events (history)
  first,     \* the first odometer any read returned (history)
  last,      \* the latest one (history)
  lapsed     \* a crash lost newer sensor values than those stored (history)

vars == <<board, reading, report, data, trip, reauth, restored, stored,
          announced, first, last, lapsed>>

Battery  == 3
Trip     == 5
Odometer == 12
Ids      == {Battery, Trip, Odometer}

None    == -1            \* Python's None; distances are never negative
Value   == Nat \cup {None}
Nothing == [i \in Ids |-> None]

TypeOK ==
  /\ board \in [Ids -> Nat]
  /\ reading \in BOOLEAN /\ reauth \in BOOLEAN /\ lapsed \in BOOLEAN
  /\ report \in [Ids -> Value] /\ data \in [Ids -> Value]
  /\ restored \in [Ids -> Value] /\ stored \in [Ids -> Value]
  /\ trip \in Value /\ first \in Value /\ last \in Value
  /\ announced \in Nat

Init ==
  /\ board = [i \in Ids |-> 0]
  /\ reading = FALSE /\ report = Nothing
  /\ data = Nothing /\ trip = None /\ reauth = FALSE
  /\ restored = Nothing /\ stored = Nothing
  /\ announced = 0 /\ first = None /\ last = None /\ lapsed = FALSE

-----------------------------------------------------------------------------
(* The pieces of _async_update and of the sensors. *)

\* self.data is not None: _async_update never returns an empty snapshot.
Known == data # Nothing

\* merged.update; mutant: the snapshot is replaced wholesale.
ReplaceWholesale(old, new) == new
Merge(old, new) == [i \in Ids |-> IF new[i] # None THEN new[i] ELSE old[i]]

\* odo_before and odo_after are known and the second is larger.
Advanced(before, after) ==
  before[Odometer] # None /\ after[Odometer] > before[Odometer]

\* The distance _async_fire_ride_event announces, 0 for no event; mutants: the
\* readings are swapped; the board's own trip counter stands for the ride.
DistanceSwapped(before, after) ==
  IF Advanced(before, after) THEN before[Odometer] - after[Odometer] ELSE 0
DistanceByTrip(before, after) ==
  IF Advanced(before, after) /\ after[Trip] > 0 THEN after[Trip] ELSE 0
Distance(before, after) ==
  IF Advanced(before, after) THEN after[Odometer] - before[Odometer] ELSE 0

\* _effective_trip_km10 over the merged snapshot; mutant: a wiped counter is
\* recovered only by a ride, else shown as it is.
TripUnlessFlat(merged) ==
  IF merged[Trip] \in {0, None} /\ Advanced(data, merged)
  THEN Distance(data, merged) ELSE merged[Trip]
EffectiveTrip(merged) ==
  IF merged[Trip] \notin {0, None} \/ ~Known THEN merged[Trip]
  ELSE IF Advanced(data, merged) THEN Distance(data, merged)
  ELSE trip

\* native_value of every sensor; mutant: a restored value hides a newer read.
ShownRestoredFirst ==
  [i \in Ids |-> IF restored[i] # None THEN restored[i]
                 ELSE IF i = Trip THEN trip ELSE data[i]]
Shown == IF Known THEN [data EXCEPT ![Trip] = trip] ELSE restored

-----------------------------------------------------------------------------
(* The board (external). *)

Ride ==
  /\ \E d \in 1..MaxRide :
       /\ board[Odometer] + d <= MaxOdometer
       /\ board' = [board EXCEPT ![Odometer] = @ + d, ![Trip] = @ + d]
  /\ UNCHANGED <<reading, report, data, trip, reauth, restored, stored,
                 announced, first, last, lapsed>>

PowerCycle ==
  /\ board' = [board EXCEPT ![Trip] = 0]
  /\ UNCHANGED <<reading, report, data, trip, reauth, restored, stored,
                 announced, first, last, lapsed>>

-----------------------------------------------------------------------------
(* A poll: _async_update from the call of read_all_dps to its end. *)

StartRead ==
  /\ ~reading /\ reading' = TRUE
  /\ UNCHANGED <<board, report, data, trip, reauth, restored, stored, announced, first,
                 last, lapsed>>

\* The board pushes one datapoint; pushed again, the newer value counts.
BoardReports ==
  /\ reading
  /\ \E i \in Ids : report' = [report EXCEPT ![i] = board[i]]
  /\ UNCHANGED <<board, reading, data, trip, reauth, restored, stored,
                 announced, first, last, lapsed>>

\* The snapshot is merged, the ride announced, the trip recovered.
EndRead ==
  LET merged == Merge(data, report) IN
  /\ reading /\ report # Nothing
  /\ reading' = FALSE /\ report' = Nothing
  /\ data' = merged
  /\ trip' = EffectiveTrip(merged)
  /\ announced' = announced + Distance(data, merged)
  /\ last' = IF report[Odometer] # None THEN report[Odometer] ELSE last
  /\ first' = IF first = None THEN last' ELSE first
  /\ lapsed' = (lapsed /\ report[Odometer] = None)
  /\ UNCHANGED <<board, reauth, restored, stored>>

\* TuyaBLEError opens a reauth flow; a transport error or an empty read does
\* not.  The previous snapshot stays.
FailRead ==
  /\ reading /\ reading' = FALSE /\ report' = Nothing
  /\ \/ reauth' = TRUE
     \/ UNCHANGED reauth
  /\ UNCHANGED <<board, data, trip, restored, stored, announced, first, last,
                 lapsed>>

-----------------------------------------------------------------------------
(* Home Assistant (external): it stores what the sensors show now and then  *)
(* and when the entry is unloaded, and sets the entry up again from that.   *)

Save ==
  /\ stored' = Shown
  /\ UNCHANGED <<board, reading, report, data, trip, reauth, restored,
                 announced, first, last, lapsed>>

\* A new coordinator and new sensors; the poll under way is given up.
SetUp(values) ==
  /\ restored' = values /\ stored' = values
  /\ reading' = FALSE /\ report' = Nothing
  /\ data' = Nothing /\ trip' = None
  /\ reauth' \in {FALSE, reauth}
  /\ UNCHANGED <<board, announced, first, last>>

\* async_unload_entry or a clean stop, then async_setup_entry.
Reload == SetUp(Shown) /\ UNCHANGED lapsed

Crash == SetUp(stored) /\ lapsed' = (stored[Odometer] \notin {None, last})

Next ==
  \/ Ride \/ PowerCycle
  \/ StartRead \/ BoardReports \/ EndRead \/ FailRead
  \/ Save \/ Reload \/ Crash

Spec == Init /\ [][Next]_vars

-----------------------------------------------------------------------------
(* Properties. *)

\* The ride events never announce more than was ridden between the first and
\* the latest odometer read, over partial reads, failed reads and restarts.
NeverOverAnnounced == announced <= last - first

\* The event is a journal in the sense of RideJournal: exact while the odometer
\* is known, resuming from a fresh reading after a restart.
Journal == INSTANCE RideJournal WITH known <- data[Odometer], total <- announced
KeepsJournal == Journal!Spec

\* A trip distance once shown is not wiped by the remote's power-cycle, whatever
\* the following reads report, until the entry is set up again.
TripNotWiped == [][trip > 0 => trip' > 0 \/ ~Known']_vars

\* No read of a subset of the datapoints turns a sensor unknown that showed a
\* value read since set-up.
SeenPersists ==
  [][Known /\ Known' => \A i \in Ids : Shown[i] # None => Shown'[i] # None]_vars

\* The odometer sensor (TOTAL_INCREASING) shows the latest reading or nothing;
\* only a crash may bring an older one back, until the next reading.
ShowsLatestOdometer ==
  lapsed \/ Shown[Odometer] \in {None, last}

-----------------------------------------------------------------------------
(* Statements of the comments and the README that do not hold. *)

\* README.md:38-40: the event is fired "whenever the odometer advances between
\* two reads".
AdvanceAnnounced ==
  [][last # None /\ last' > last => announced' = announced + (last' - last)]_vars

\* coordinator.py:216: a nonzero trip is one the "board reported"; with an
\* advanced odometer the trip is this read's or the distance ridden.
RideShowsItsTrip ==
  [][Advanced(data, data')
       => trip' \in {report[Trip], data'[Odometer] - data[Odometer]}]_vars

\* coordinator.py:184-186: a subset read would "flip their entities to unknown",
\* hence a value persists once seen; sensor.py:136: also over restarts.
ValuePersists ==
  [][\A i \in Ids : Shown[i] # None => Shown'[i] # None]_vars

=============================================================================
