-------------------------- MODULE CoordinatorProofs --------------------------
(***************************************************************************)
(* Proofs about Coordinator.tla, for every MaxOdometer and MaxRide.  The   *)
(* inductive invariant adds to the type what orders the readings in time:  *)
(* first, latest, under way, and what the board has now.                   *)
(***************************************************************************)
EXTENDS Coordinator, TLAPS

\* Odometers grow from the first reading over the latest one and the one under
\* way to the board's own; the snapshot holds the latest or none.
Ordered ==
  /\ first <= last /\ (first = None <=> last = None)
  /\ last <= board[Odometer]
  /\ report[Odometer] # None =>
       last <= report[Odometer] /\ report[Odometer] <= board[Odometer]
  /\ data[Odometer] \in {None, last}

\* A positive trip belongs to a snapshot.
TripIsRead == trip > 0 => Known

\* What a sensor restored is what it shows until the first read.
RestoredIsLatest == Known \/ lapsed \/ restored[Odometer] \in {None, last}

IInv ==
  TypeOK /\ Ordered /\ NeverOverAnnounced /\ TripIsRead /\ RestoredIsLatest

-----------------------------------------------------------------------------
(* What the operators of the merge return. *)

\* A merged snapshot has a value wherever one of its two parts has.
LEMMA MergeType ==
  ASSUME NEW old \in [Ids -> Value], NEW new \in [Ids -> Value]
  PROVE  /\ Merge(old, new) \in [Ids -> Value]
         /\ \A i \in Ids : old[i] # None => Merge(old, new)[i] # None
         /\ new # Nothing => Merge(old, new) # Nothing
<1>1. /\ Merge(old, new) \in [Ids -> Value]
      /\ \A i \in Ids : Merge(old, new)[i] =
           IF new[i] # None THEN new[i] ELSE old[i]
  BY DEF Merge
<1>2. ASSUME new # Nothing PROVE Merge(old, new) # Nothing
  <2>1. PICK i \in Ids : new[i] # None
    BY <1>2 DEF Nothing
  <2>2. Merge(old, new)[i] # None
    BY <1>1, <2>1
  <2> QED BY <2>2 DEF Nothing
<1> QED BY <1>1, <1>2

\* The announced distance is a natural number, positive when the odometer
\* advanced.
LEMMA DistanceType ==
  ASSUME NEW before \in [Ids -> Value], NEW after \in [Ids -> Value]
  PROVE  /\ Distance(before, after) \in Nat
         /\ Advanced(before, after) => Distance(before, after) > 0
BY DEF Distance, Advanced, Value, None, Ids, Odometer

\* The recovered trip is a distance or nothing, and with a snapshot kept
\* neither a positive nor a known trip is lost.
LEMMA TripType ==
  ASSUME TypeOK, NEW merged \in [Ids -> Value]
  PROVE  /\ EffectiveTrip(merged) \in Value
         /\ Known /\ trip > 0 => EffectiveTrip(merged) > 0
         /\ Known /\ trip # None => EffectiveTrip(merged) # None
<1>1. merged[Trip] \in Value /\ trip \in Value /\ data \in [Ids -> Value]
  BY DEF TypeOK, Ids
<1>2. /\ Distance(data, merged) \in Nat
      /\ Advanced(data, merged) => Distance(data, merged) > 0
  BY <1>1, DistanceType
<1> QED BY <1>1, <1>2 DEF EffectiveTrip, Value, None

-----------------------------------------------------------------------------
(* The inductive invariant. *)

\* The initial state: nothing read, nothing shown, nothing announced.
LEMMA InitInv == Init => IInv
<1> SUFFICES ASSUME Init PROVE IInv
  OBVIOUS
<1>1. /\ Nothing \in [Ids -> Value] /\ Nothing[Odometer] = None
      /\ board \in [Ids -> Nat] /\ board[Odometer] = 0
  BY DEF Init, Nothing, Value, Ids
<1>2. TypeOK
  BY <1>1 DEF Init, TypeOK, Value
<1>3. Ordered /\ NeverOverAnnounced
  BY <1>1 DEF Init, Ordered, NeverOverAnnounced, None
<1>4. TripIsRead /\ RestoredIsLatest
  BY <1>1 DEF Init, TripIsRead, RestoredIsLatest, None
<1> QED BY <1>2, <1>3, <1>4 DEF IInv

\* A finished read keeps every part: the reading it merges is the latest.
LEMMA EndReadInv == IInv /\ EndRead => IInv'
<1> SUFFICES ASSUME IInv, EndRead PROVE IInv'
  OBVIOUS
<1> DEFINE merged == Merge(data, report)
<1>1. TypeOK /\ report # Nothing /\ data' = merged
  BY DEF IInv, EndRead
<1>2. /\ merged \in [Ids -> Value] /\ merged # Nothing
      /\ data \in [Ids -> Value] /\ report \in [Ids -> Value]
  BY <1>1, MergeType DEF TypeOK
<1>3. Distance(data, merged) \in Nat /\ EffectiveTrip(merged) \in Value
  BY <1>1, <1>2, DistanceType, TripType
<1>4. merged[Odometer] =
        IF report[Odometer] # None THEN report[Odometer] ELSE data[Odometer]
  BY <1>2 DEF Merge, Ids
<1>5. /\ last' = IF report[Odometer] # None THEN report[Odometer] ELSE last
      /\ first' = IF first = None THEN last' ELSE first
      /\ announced' = announced + Distance(data, merged)
      /\ trip' = EffectiveTrip(merged)
      /\ report' = Nothing /\ reading' = FALSE
      /\ lapsed' = (lapsed /\ report[Odometer] = None)
      /\ UNCHANGED <<board, reauth, restored, stored>>
  BY DEF EndRead
<1>6. /\ first \in Value /\ last \in Value /\ board[Odometer] \in Nat
      /\ report[Odometer] \in Value /\ data[Odometer] \in Value
      /\ announced \in Nat
  BY <1>1, <1>2 DEF TypeOK, Ids
<1>7. TypeOK'
  <2>1. Nothing \in [Ids -> Value]
    BY DEF Nothing, Value
  <2>2. last' \in Value /\ first' \in Value /\ announced' \in Nat
    BY <1>3, <1>5, <1>6 DEF Value
  <2>3. lapsed' \in BOOLEAN /\ reading' \in BOOLEAN /\ reauth' \in BOOLEAN
    BY <1>1, <1>5 DEF TypeOK
  <2> HIDE DEF merged
  <2> QED BY <1>1, <1>2, <1>3, <1>5, <2>1, <2>2, <2>3 DEF TypeOK
<1>8. Ordered'
  <2>1. report'[Odometer] = None
    BY <1>5 DEF Nothing, Ids
  <2> QED BY <1>1, <1>4, <1>5, <1>6, <2>1 DEF IInv, Ordered, Value, None
<1>9. NeverOverAnnounced'
  BY <1>3, <1>4, <1>5, <1>6
  DEF IInv, Ordered, NeverOverAnnounced, Distance, Advanced, Value, None
<1>10. Known'
  BY <1>1, <1>2 DEF Known, Nothing
<1> QED BY <1>7, <1>8, <1>9, <1>10 DEF IInv, TripIsRead, RestoredIsLatest

\* Setting the entry up forgets the snapshot and nothing else.
LEMMA SetUpInv ==
  ASSUME IInv, NEW values \in [Ids -> Value], SetUp(values),
         lapsed' \in BOOLEAN,
         lapsed' \/ values[Odometer] \in {None, last}
  PROVE  IInv'
<1>1. Nothing \in [Ids -> Value] /\ None \in Value /\ Nothing[Odometer] = None
  BY DEF Nothing, Value, Ids
<1>2. TypeOK'
  BY <1>1 DEF IInv, TypeOK, SetUp
<1>3. Ordered' /\ NeverOverAnnounced'
  BY <1>1 DEF IInv, Ordered, NeverOverAnnounced, SetUp
<1>4. TripIsRead' /\ RestoredIsLatest'
  BY DEF SetUp, TripIsRead, RestoredIsLatest, None
<1> QED BY <1>2, <1>3, <1>4 DEF IInv

\* The odometer sensor under the invariant.
LEMMA ShownLatest ==
  ASSUME IInv
  PROVE  /\ ShowsLatestOdometer
         /\ Shown \in [Ids -> Value]
<1>1. data \in [Ids -> Value] /\ restored \in [Ids -> Value] /\ trip \in Value
  BY DEF IInv, TypeOK
<1>2. CASE Known
  <2>1. Shown = [data EXCEPT ![Trip] = trip]
    BY <1>2 DEF Shown
  <2>2. Shown[Odometer] = data[Odometer]
    BY <1>1, <2>1 DEF Ids, Trip, Odometer
  <2> QED BY <1>1, <2>1, <2>2 DEF IInv, Ordered, ShowsLatestOdometer
<1>3. CASE ~Known
  BY <1>1, <1>3 DEF Shown, IInv, RestoredIsLatest, ShowsLatestOdometer
<1> QED BY <1>2, <1>3

\* Every step keeps the invariant.
LEMMA NextInv == IInv /\ [Next]_vars => IInv'
<1> SUFFICES ASSUME IInv, [Next]_vars PROVE IInv'
  OBVIOUS
<1> USE DEF IInv
<1>1. CASE Ride
  <2>1. PICK d \in 1..MaxRide :
          board' = [board EXCEPT ![Odometer] = @ + d, ![Trip] = @ + d]
    BY <1>1 DEF Ride
  <2>2. /\ board' \in [Ids -> Nat]
        /\ board'[Odometer] = board[Odometer] + d
    BY <2>1, RideAssumption DEF TypeOK, Ids, Trip, Odometer
  <2>3. UNCHANGED <<reading, report, data, trip, reauth, restored, stored,
                    announced, first, last, lapsed>>
    BY <1>1 DEF Ride
  <2>4. TypeOK'
    BY <2>2, <2>3 DEF TypeOK
  <2>5. Ordered'
    BY <2>2, <2>3, RideAssumption DEF TypeOK, Ordered, Value, None, Ids
  <2> QED BY <2>3, <2>4, <2>5
          DEF NeverOverAnnounced, TripIsRead, RestoredIsLatest, Known
<1>2. CASE PowerCycle
  <2>1. board' \in [Ids -> Nat] /\ board'[Odometer] = board[Odometer]
    BY <1>2 DEF PowerCycle, TypeOK, Ids, Trip, Odometer
  <2> QED BY <1>2, <2>1 DEF PowerCycle, TypeOK, Ordered, NeverOverAnnounced,
                            TripIsRead, RestoredIsLatest, Known
<1>3. CASE StartRead
  BY <1>3 DEF StartRead, TypeOK, Ordered, NeverOverAnnounced, TripIsRead,
              RestoredIsLatest, Known
<1>4. CASE BoardReports
  <2>1. PICK i \in Ids : report' = [report EXCEPT ![i] = board[i]]
    BY <1>4 DEF BoardReports
  <2>2. /\ report' \in [Ids -> Value]
        /\ report'[Odometer] \in {report[Odometer], board[Odometer]}
    BY <2>1 DEF TypeOK, Value, Ids
  <2>3. UNCHANGED <<board, reading, data, trip, reauth, restored, stored,
                    announced, first, last, lapsed>>
    BY <1>4 DEF BoardReports
  <2>4. TypeOK'
    BY <2>2, <2>3 DEF TypeOK
  <2>5. Ordered'
    BY <2>2, <2>3 DEF TypeOK, Ordered, Value, None, Ids
  <2> QED BY <2>3, <2>4, <2>5
          DEF NeverOverAnnounced, TripIsRead, RestoredIsLatest, Known
<1>5. CASE EndRead
  BY <1>5, EndReadInv
<1>6. CASE FailRead
  <2>1. /\ Nothing \in [Ids -> Value] /\ Nothing[Odometer] = None
    BY DEF Nothing, Value, Ids
  <2> QED BY <1>6, <2>1 DEF FailRead, TypeOK, Ordered, NeverOverAnnounced,
                            TripIsRead, RestoredIsLatest, Known
<1>7. CASE Save
  <2>1. Shown \in [Ids -> Value]
    BY ShownLatest
  <2> QED BY <1>7, <2>1 DEF Save, TypeOK, Ordered, NeverOverAnnounced,
                            TripIsRead, RestoredIsLatest, Known
<1>8. CASE Reload
  <2>1. SetUp(Shown) /\ lapsed' = lapsed
    BY <1>8 DEF Reload
  <2> QED BY <2>1, ShownLatest, SetUpInv DEF TypeOK, ShowsLatestOdometer
<1>9. CASE Crash
  <2>1. SetUp(stored) /\ lapsed' = (stored[Odometer] \notin {None, last})
    BY <1>9 DEF Crash
  <2>2. stored \in [Ids -> Value] /\ lapsed' \in BOOLEAN
    BY <2>1 DEF TypeOK
  <2> QED BY <2>1, <2>2, SetUpInv
<1>10. CASE UNCHANGED vars
  BY <1>10 DEF vars, TypeOK, Ordered, NeverOverAnnounced, TripIsRead,
               RestoredIsLatest, Known
<1> QED BY <1>1, <1>2, <1>3, <1>4, <1>5, <1>6, <1>7, <1>8, <1>9, <1>10 DEF Next

\* The invariant holds in every state.
THEOREM Invariance == Spec => []IInv
<1>1. Init => IInv
  BY InitInv
<1>2. IInv /\ [Next]_vars => IInv'
  BY NextInv
<1> QED BY <1>1, <1>2, PTL DEF Spec

-----------------------------------------------------------------------------
(* What follows from it. *)

\* Every variable keeps its type.
THEOREM TypeCorrect == Spec => []TypeOK
<1>1. IInv => TypeOK
  BY DEF IInv
<1> QED BY <1>1, Invariance, PTL

\* No ride, or part of one, is ever announced twice.
THEOREM OverAnnounced == Spec => []NeverOverAnnounced
<1>1. IInv => NeverOverAnnounced
  BY DEF IInv
<1> QED BY <1>1, Invariance, PTL

\* Without a crash, the odometer sensor never falls back to an older reading.
THEOREM LatestShown == Spec => []ShowsLatestOdometer
<1>1. IInv => ShowsLatestOdometer
  BY ShownLatest
<1> QED BY <1>1, Invariance, PTL

\* A finished read learns the odometer, announces its advance, or leaves the
\* journal as it was.
LEMMA EndReadJournals ==
  IInv /\ EndRead => Journal!Next \/ UNCHANGED <<data[Odometer], first, last, announced>>
<1> SUFFICES ASSUME IInv, EndRead
             PROVE  Journal!Next \/ UNCHANGED <<data[Odometer], first, last, announced>>
  OBVIOUS
<1>1. /\ data \in [Ids -> Value] /\ report \in [Ids -> Value]
      /\ announced \in Nat /\ first \in Value /\ last \in Value
      /\ data[Odometer] \in Value /\ report[Odometer] \in Value
  BY DEF IInv, TypeOK, Ids
<1>2. /\ data'[Odometer] =
           IF report[Odometer] # None THEN report[Odometer] ELSE data[Odometer]
      /\ announced' = announced + Distance(data, data')
      /\ last' = IF report[Odometer] # None THEN report[Odometer] ELSE last
      /\ first' = IF first = None THEN last' ELSE first
  BY <1>1 DEF EndRead, Merge, Ids
<1>3. Ordered
  BY DEF IInv
<1>4. CASE report[Odometer] = None
  BY <1>1, <1>2, <1>3, <1>4 DEF Distance, Advanced, Ordered, Value, None
<1>5. CASE report[Odometer] # None /\ data[Odometer] = None
  <2>1. Journal!Learn
    BY <1>1, <1>2, <1>3, <1>5 DEF Journal!Learn, Journal!Unknown, Distance,
       Advanced, Ordered, Value, None
  <2> QED BY <2>1 DEF Journal!Next
<1>6. CASE report[Odometer] # None /\ report[Odometer] = data[Odometer]
  BY <1>1, <1>2, <1>3, <1>6 DEF Distance, Advanced, Ordered, Value, None
<1>7. CASE /\ report[Odometer] # None /\ data[Odometer] # None
           /\ report[Odometer] # data[Odometer]
  <2>1. Journal!Announce
    BY <1>1, <1>2, <1>3, <1>7 DEF Journal!Announce, Journal!Unknown, Distance,
       Advanced, Ordered, Value, None
  <2> QED BY <2>1 DEF Journal!Next
<1> QED BY <1>4, <1>5, <1>6, <1>7

\* Only a finished read and a set-up touch the journal.
LEMMA StepJournals == IInv /\ [Next]_vars => [Journal!Next]_(Journal!vars)
<1> SUFFICES ASSUME IInv, [Next]_vars PROVE [Journal!Next]_(Journal!vars)
  OBVIOUS
<1>1. CASE EndRead
  BY <1>1, EndReadJournals DEF Journal!vars
<1>2. ASSUME NEW values, SetUp(values) PROVE Journal!Forget
  BY <1>2 DEF SetUp, Journal!Forget, Journal!Unknown, Nothing, None, Ids
<1>3. CASE Reload \/ Crash
  BY <1>2, <1>3 DEF Reload, Crash, Journal!Next
<1>4. ASSUME UNCHANGED <<data, announced, first, last>>
      PROVE  UNCHANGED Journal!vars
  BY <1>4 DEF Journal!vars
<1>5. CASE Ride \/ PowerCycle \/ StartRead \/ BoardReports \/ FailRead \/ Save
           \/ UNCHANGED vars
  BY <1>4, <1>5 DEF Ride, PowerCycle, StartRead, BoardReports, FailRead, Save,
     vars
<1> QED BY <1>1, <1>3, <1>5 DEF Next

\* The coordinator implements RideJournal: exact while the odometer is known,
\* and resuming from a fresh reading.
THEOREM JournalKept == Spec => KeepsJournal
<1>1. Init => Journal!Init
  BY DEF Init, Journal!Init, Journal!Unknown, Nothing, None, Ids
<1> QED BY <1>1, StepJournals, Invariance, PTL DEF Spec, KeepsJournal, Journal!Spec

\* A step that keeps the snapshot, other than a finished read, keeps what the
\* sensors show.
LEMMA KeepsShown ==
  ASSUME [Next]_vars, ~EndRead
  PROVE  ~Known' \/ UNCHANGED <<data, trip>>
<1>1. ASSUME NEW values, SetUp(values) PROVE ~Known'
  BY <1>1 DEF SetUp, Known
<1> QED BY <1>1 DEF Next, Ride, PowerCycle, StartRead, BoardReports, FailRead,
           Save, Reload, Crash, vars

\* A finished read computes its trip from the merged snapshot.
LEMMA EndReadTrip ==
  ASSUME IInv, EndRead
  PROVE  /\ Known /\ trip > 0 => trip' > 0
         /\ Known /\ trip # None => trip' # None
         /\ data' \in [Ids -> Value]
         /\ \A i \in Ids : data[i] # None => data'[i] # None
<1>1. TypeOK /\ data' = Merge(data, report) /\ trip' = EffectiveTrip(data')
  BY DEF IInv, EndRead
<1>2. data' \in [Ids -> Value] /\ \A i \in Ids : data[i] # None => data'[i] # None
  BY <1>1, MergeType DEF TypeOK
<1> QED BY <1>1, <1>2, TripType

\* A shown trip survives the power-cycle of the remote.
THEOREM TripKept == Spec => TripNotWiped
<1>1. IInv /\ [Next]_vars => [trip > 0 => trip' > 0 \/ ~Known']_vars
  BY EndReadTrip, KeepsShown DEF IInv, TripIsRead
<1> QED BY <1>1, Invariance, PTL DEF Spec, TripNotWiped

\* A read of a subset of the datapoints turns no sensor unknown.
THEOREM SeenKept == Spec => SeenPersists
<1>1. ASSUME IInv, [Next]_vars, Known, Known', NEW i \in Ids, Shown[i] # None
      PROVE  Shown'[i] # None
  <2>1. Shown = [data EXCEPT ![Trip] = trip] /\ Shown' = [data' EXCEPT ![Trip] = trip']
    BY <1>1 DEF Shown
  <2>2. CASE EndRead
    <3>1. data \in [Ids -> Value] /\ data' \in [Ids -> Value]
      BY <1>1, <2>2, EndReadTrip DEF IInv, TypeOK
    <3>2. CASE i = Trip
      BY <1>1, <2>1, <2>2, <3>1, <3>2, EndReadTrip
    <3>3. CASE i # Trip
      BY <1>1, <2>1, <2>2, <3>1, <3>3, EndReadTrip
    <3> QED BY <3>2, <3>3
  <2>3. CASE ~EndRead
    <3>1. data' = data /\ trip' = trip
      BY <1>1, <2>3, KeepsShown
    <3> QED BY <1>1, <2>1, <3>1
  <2> QED BY <2>2, <2>3
<1>2. IInv /\ [Next]_vars =>
        [Known /\ Known' => \A i \in Ids : Shown[i] # None => Shown'[i] # None]_vars
  BY <1>1
<1> QED BY <1>2, Invariance, PTL DEF Spec, SeenPersists

=============================================================================
