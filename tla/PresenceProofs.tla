---------------------------- MODULE PresenceProofs ----------------------------
(***************************************************************************)
(* Proofs about Presence.tla, for every timeout, interval and check        *)
(* period.  That a shown board is watched, and turned off in time, needs   *)
(* Lag = 0: the two readings of the clock in the presence check agree.     *)
(***************************************************************************)
EXTENDS Presence, TLAPS

\* The age at which a shown board will be checked is below the bound: time
\* passing moves one unit from the timer to the age.
CheckedInTime ==
  /\ check # None /\ advertAge # None
  /\ advertAge + check < PRESENCE_TIMEOUT + PRESENCE_CHECK
Watched == shown => CheckedInTime

\* An unloaded entry has no timer, and shows and polls nothing.
Quiet == ~loaded => check = None /\ ~shown /\ ~polling

\* A board within the timeout is shown.
Seen == loaded /\ IsPresent(advertAge) => shown

IInv == TypeOK /\ Quiet /\ Watched /\ Seen

-----------------------------------------------------------------------------
\* An age that grows stays an age, and by nothing if no time passes.
LEMMA OlderType ==
  ASSUME NEW age \in 0..MaxAge \cup {None}, NEW n \in Nat
  PROVE  /\ Older(age, n) \in 0..MaxAge \cup {None}
         /\ Older(age, 0) = age
         /\ age = None <=> Older(age, n) = None
         /\ age # None => age <= Older(age, n) /\ Older(age, n) <= age + n
BY TimesAssumption DEF Older, MaxAge, None

\* Nothing that happens breaks a type.
LEMMA TypeStep == TypeOK /\ [Next]_vars => TypeOK'
<1> SUFFICES ASSUME TypeOK, [Next]_vars PROVE TypeOK'
  OBVIOUS
<1>1. /\ 0 \in 0..MaxAge /\ PRESENCE_CHECK \in 0..PRESENCE_CHECK
      /\ \A age \in 0..MaxAge \cup {None}, n \in Nat :
           Older(age, n) \in 0..MaxAge \cup {None}
  BY OlderType, TimesAssumption DEF MaxAge
<1>2. ASSUME NEW c \in BOOLEAN, Advert(c) PROVE TypeOK'
  BY <1>1, <1>2 DEF TypeOK, Advert, Schedule, IsPresent, NeedsPoll
<1>3. CASE PresenceCheck
  <2>1. PICK n \in 0..Lag :
          /\ Reschedules(Older(advertAge, n))
          /\ advertAge' = Older(advertAge, n) /\ pollAge' = Older(pollAge, n)
    BY <1>3 DEF PresenceCheck
  <2>2. n \in Nat
    BY TimesAssumption
  <2> QED BY <1>1, <1>3, <2>1, <2>2
          DEF TypeOK, PresenceCheck, Reschedules, Schedule, IsPresent
<1>4. CASE EndPoll
  BY <1>1, <1>4 DEF TypeOK, EndPoll, IsPresent
<1>5. CASE Unload
  BY <1>5 DEF TypeOK, Unload, StopTracking
<1>6. CASE SetUp
  BY <1>6 DEF TypeOK, SetUp
<1>7. CASE Tick
  BY <1>1, <1>7, TimesAssumption DEF TypeOK, Tick, None
<1>8. CASE WakeOrSleep \/ Started \/ UNCHANGED vars
  BY <1>8 DEF TypeOK, WakeOrSleep, Started, vars
<1> QED BY <1>2, <1>3, <1>4, <1>5, <1>6, <1>7, <1>8 DEF Next

\* Every variable keeps its type.
THEOREM TypeCorrect == Spec => []TypeOK
<1>1. Init => TypeOK
  BY DEF Init, TypeOK
<1> QED BY <1>1, TypeStep, PTL DEF Spec

-----------------------------------------------------------------------------
\* With one reading of the clock per presence check, the invariant is kept.
LEMMA InvStep ==
  ASSUME Lag = 0
  PROVE  IInv /\ [Next]_vars => IInv'
<1> SUFFICES ASSUME IInv, [Next]_vars PROVE IInv'
  OBVIOUS
<1>1. TypeOK /\ TypeOK'
  BY TypeStep DEF IInv
<1> SUFFICES Quiet' /\ Watched' /\ Seen'
  BY <1>1 DEF IInv
<1>2. Quiet /\ Watched /\ Seen
  BY DEF IInv
<1>3. ASSUME NEW c \in BOOLEAN, Advert(c) PROVE Quiet' /\ Watched' /\ Seen'
  <2>1. /\ advertAge' = 0 /\ loaded' = loaded /\ loaded
        /\ check' = IF check = None THEN PRESENCE_CHECK ELSE check
    BY <1>3 DEF Advert, Schedule
  <2>2. CheckedInTime'
    BY <1>1, <2>1, TimesAssumption DEF TypeOK, CheckedInTime, None
  <2>3. IsPresent(0) /\ shown' = IsPresent(0)
    BY <1>3, TimesAssumption DEF Advert, IsPresent, None
  <2> QED BY <2>1, <2>2, <2>3 DEF Quiet, Watched, Seen
<1>4. CASE PresenceCheck
  <2>1. /\ Reschedules(advertAge) /\ advertAge' = advertAge
        /\ shown' = IsPresent(advertAge) /\ loaded' = loaded /\ check = 0
    <3>1. PICK n \in 0..Lag :
            Reschedules(Older(advertAge, n)) /\ advertAge' = Older(advertAge, n)
      BY <1>4 DEF PresenceCheck
    <3>2. n = 0
      OBVIOUS
    <3> QED BY <1>1, <1>4, <3>1, <3>2, OlderType DEF PresenceCheck, TypeOK
  <2>2. loaded
    BY <1>2, <2>1 DEF Quiet, None
  <2>3. CASE IsPresent(advertAge)
    <3>1. check' = PRESENCE_CHECK
      BY <2>1, <2>3 DEF Reschedules, Schedule
    <3>2. CheckedInTime'
      BY <1>1, <2>1, <2>3, <3>1, TimesAssumption
      DEF TypeOK, IsPresent, CheckedInTime, None
    <3> QED BY <2>1, <2>2, <2>3, <3>2 DEF Quiet, Watched, Seen
  <2>4. CASE ~IsPresent(advertAge)
    BY <2>1, <2>2, <2>4 DEF Quiet, Watched, Seen
  <2> QED BY <2>3, <2>4
<1>5. CASE EndPoll
  <2>1. /\ UNCHANGED <<loaded, advertAge, check>>
        /\ shown' \in {shown, IsPresent(advertAge)}
    BY <1>5 DEF EndPoll
  <2>2. loaded
    BY <1>2, <1>5 DEF EndPoll, Quiet
  <2>3. CheckedInTime' <=> CheckedInTime
    BY <2>1 DEF CheckedInTime
  <2>4. CASE shown' = shown
    BY <1>2, <2>1, <2>2, <2>3, <2>4 DEF Quiet, Watched, Seen
  <2>5. CASE shown' = IsPresent(advertAge)
    BY <1>2, <2>1, <2>2, <2>3, <2>5 DEF Quiet, Watched, Seen
  <2> QED BY <2>1, <2>4, <2>5
<1>6. CASE Unload
  BY <1>6 DEF Quiet, Watched, Seen, Unload, StopTracking
<1>7. CASE SetUp
  BY <1>2, <1>7 DEF Quiet, Watched, Seen, SetUp, IsPresent
<1>8. CASE Tick
  <2>1. advertAge' = Older(advertAge, 1) /\ UNCHANGED <<loaded, shown>>
    BY <1>8 DEF Tick
  <2>2. /\ advertAge = None <=> advertAge' = None
        /\ advertAge # None => advertAge <= advertAge' /\ advertAge' <= advertAge + 1
    BY <1>1, <2>1, OlderType DEF TypeOK
  <2>3. Quiet'
    BY <1>2, <1>8, <2>1 DEF Quiet, Tick
  <2>4. Watched'
    <3>1. ASSUME CheckedInTime PROVE CheckedInTime'
      <4> DEFINE age  == advertAge'
                 left == check'
      <4>1. check \in Nat /\ left \in Nat /\ left = check - 1
        BY <1>1, <1>8, <3>1 DEF CheckedInTime, Tick, TypeOK
      <4>2. advertAge \in Nat /\ age \in Nat /\ age <= advertAge + 1
        BY <1>1, <2>2, <3>1 DEF CheckedInTime, TypeOK
      <4> HIDE DEF age, left
      <4>3. age + left < PRESENCE_TIMEOUT + PRESENCE_CHECK
        BY <3>1, <4>1, <4>2, TimesAssumption DEF CheckedInTime
      <4> USE DEF age, left
      <4> QED BY <4>1, <4>2, <4>3 DEF CheckedInTime, None
    <3> QED BY <1>2, <2>1, <3>1 DEF Watched
  <2>5. Seen'
    BY <1>1, <1>2, <2>1, <2>2, TimesAssumption
    DEF Seen, IsPresent, TypeOK, MaxAge, None
  <2> QED BY <2>3, <2>4, <2>5
<1>9. CASE WakeOrSleep \/ Started \/ UNCHANGED vars
  BY <1>2, <1>9 DEF Quiet, Watched, CheckedInTime, Seen, WakeOrSleep, Started, vars
<1> QED BY <1>3, <1>4, <1>5, <1>6, <1>7, <1>8, <1>9 DEF Next

\* Initially nothing was heard, nothing is shown and no timer runs.
LEMMA InitInv == Init => IInv
BY DEF Init, IInv, TypeOK, Quiet, Watched, Seen, IsPresent

\* With one reading of the clock, a board shown present is being watched.
THEOREM WatchedWhileShown ==
  ASSUME Lag = 0
  PROVE  Spec => []PresentIsWatched
<1>1. IInv => PresentIsWatched
  BY DEF IInv, Watched, CheckedInTime, PresentIsWatched
<1> QED BY <1>1, InitInv, InvStep, PTL DEF Spec

\* With one reading of the clock, `present' is on within the timeout and off
\* at most one presence check later.
THEOREM InTime ==
  ASSUME Lag = 0
  PROVE  Spec => []ShownInTime
<1>1. TypeOK /\ CheckedInTime => advertAge < PRESENCE_TIMEOUT + PRESENCE_CHECK
  BY TimesAssumption DEF TypeOK, CheckedInTime, None
<1>2. IInv => ShownInTime
  BY <1>1 DEF IInv, Watched, Seen, ShownInTime
<1> QED BY <1>2, InitInv, InvStep, PTL DEF Spec

\* An unloaded entry leaves no timer behind, whatever the clock does.
THEOREM Unloaded == Spec => []UnloadedIsQuiet
<1>1. Init => UnloadedIsQuiet
  BY DEF Init, UnloadedIsQuiet
<1>2. UnloadedIsQuiet /\ [Next]_vars => UnloadedIsQuiet'
  BY DEF UnloadedIsQuiet, Next, Advert, PresenceCheck, EndPoll, Unload,
         StopTracking, SetUp, Tick, WakeOrSleep, Started, vars, None
<1> QED BY <1>1, <1>2, PTL DEF Spec

=============================================================================
