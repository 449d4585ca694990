------------------------------- MODULE Presence -------------------------------
(***************************************************************************)
(* When TuyaEboardCoordinator polls and what the `present' sensor shows:   *)
(* advertisements, the self-rescheduling presence check, the poll gate and *)
(* the unloading of the entry.  Time is discrete; an age counts the units  *)
(* since an event.  The event loop runs a due timer before time goes on,   *)
(* but up to Lag units may pass inside the presence check, which reads the *)
(* clock twice.                                                            *)
(***************************************************************************)
EXTENDS Integers

CONSTANTS
  PRESENCE_TIMEOUT,  \* const.py's PRESENCE_TIMEOUT_SECONDS,
  PRESENCE_CHECK,    \* PRESENCE_CHECK_SECONDS and
  POLL_INTERVAL,     \* POLL_INTERVAL_SECONDS, in units
  Lag                \* time that may pass within one presence check

ASSUME TimesAssumption ==
  /\ PRESENCE_TIMEOUT \in Nat \ {0} /\ PRESENCE_CHECK \in Nat \ {0}
  /\ POLL_INTERVAL \in Nat /\ Lag \in Nat

VARIABLES
  awake,      \* the board is on and in range, so it advertises
  running,    \* hass.state is CoreState.running
  loaded,     \* the entry is set up and its coordinator started
  advertAge,  \* since _last_advert
  pollAge,    \* since the last poll ended
  check,      \* until the presence check is due; the timer of _present_unsub
  polling,    \* a poll is in progress
  shown       \* what the `present' sensor last rendered

vars == <<awake, running, loaded, advertAge, pollAge, check, polling, shown>>

None == -1

\* Ages and the time left, in units; None for no event and no timer.  Ages
\* stop at a value beyond every comparison.
MaxAge == PRESENCE_TIMEOUT + PRESENCE_CHECK + POLL_INTERVAL + 1
Older(age, n) == IF age = None THEN None
                 ELSE IF age + n < MaxAge THEN age + n ELSE MaxAge

TypeOK ==
  /\ awake \in BOOLEAN /\ running \in BOOLEAN /\ loaded \in BOOLEAN
  /\ advertAge \in 0..MaxAge \cup {None} /\ pollAge \in 0..MaxAge \cup {None}
  /\ check \in 0..PRESENCE_CHECK \cup {None}
  /\ polling \in BOOLEAN /\ shown \in BOOLEAN

\* The entry is set up while Home Assistant starts.
Init ==
  /\ awake \in BOOLEAN /\ running = FALSE /\ loaded = TRUE
  /\ advertAge = None /\ pollAge = None /\ check = None
  /\ polling = FALSE /\ shown = FALSE

\* is_present at an age of the last advertisement; mutant: as long as the
\* board would not be polled again.
IsPresentLong(age) == age # None /\ age <= POLL_INTERVAL
IsPresent(age) == age # None /\ age < PRESENCE_TIMEOUT

\* seconds_since_last_poll of _needs_poll; mutant: the interval is counted
\* from the last advertisement, which an awake board keeps renewing.
LongSinceAdvert(connectable) ==
  running /\ (pollAge = None \/ advertAge > POLL_INTERVAL) /\ connectable
NeedsPoll(connectable) ==
  running /\ (pollAge = None \/ pollAge > POLL_INTERVAL) /\ connectable

\* _async_schedule_presence_check; mutant: the timeout for the interval.
ScheduleAtTimeout == check' = PRESENCE_TIMEOUT
Schedule == check' = PRESENCE_CHECK

\* The decision to go on watching; mutants: always, or never.
AlwaysReschedules(age) == Schedule
NeverReschedules(age) == check' = None
Reschedules(age) == IF IsPresent(age) THEN Schedule ELSE check' = None

-----------------------------------------------------------------------------
(* The coordinator. *)

\* _async_handle_bluetooth_event and, in the base class, a render and a poll
\* if one is needed and none is in progress.
Advert(connectable) ==
  /\ awake /\ loaded
  /\ advertAge' = 0
  /\ IF check = None THEN Schedule ELSE UNCHANGED check
  /\ shown' = IsPresent(0)
  /\ polling' = (polling \/ NeedsPoll(connectable))
  /\ UNCHANGED <<awake, running, loaded, pollAge>>

\* _async_presence_check: renders by one reading of the clock, and goes on
\* watching by a later one.
PresenceCheck ==
  /\ check = 0
  /\ shown' = IsPresent(advertAge)
  /\ \E n \in 0..Lag :
       /\ Reschedules(Older(advertAge, n))
       /\ advertAge' = Older(advertAge, n) /\ pollAge' = Older(pollAge, n)
  /\ UNCHANGED <<awake, running, loaded, polling>>

\* The poll ends, with or without a snapshot; only a snapshot renders.
EndPoll ==
  /\ polling /\ polling' = FALSE
  /\ pollAge' = 0
  /\ shown' \in {shown, IsPresent(advertAge)}
  /\ UNCHANGED <<awake, running, loaded, advertAge, check>>

\* async_unload_entry and the on-unload callbacks: the sensors go, the presence
\* check is cancelled, the coordinator stops listening; mutant: without
\* async_stop_presence_tracking.
StopTrackingForgotten == UNCHANGED check
StopTracking == check' = None

Unload ==
  /\ loaded /\ loaded' = FALSE
  /\ StopTracking
  /\ shown' = FALSE /\ polling' = FALSE
  /\ UNCHANGED <<awake, running, advertAge, pollAge>>

\* async_setup_entry: a new coordinator.
SetUp ==
  /\ ~loaded /\ loaded' = TRUE
  /\ advertAge' = None /\ pollAge' = None
  /\ UNCHANGED <<awake, running, check, polling, shown>>

-----------------------------------------------------------------------------
(* Time, the board and Home Assistant (external). *)

Tick ==
  /\ check # 0
  /\ check' = IF check = None THEN None ELSE check - 1
  /\ advertAge' = Older(advertAge, 1) /\ pollAge' = Older(pollAge, 1)
  /\ UNCHANGED <<awake, running, loaded, polling, shown>>

WakeOrSleep ==
  /\ awake' = ~awake
  /\ UNCHANGED <<running, loaded, advertAge, pollAge, check, polling, shown>>

Started ==
  /\ ~running /\ running' = TRUE
  /\ UNCHANGED <<awake, loaded, advertAge, pollAge, check, polling, shown>>

Next ==
  \/ \E connectable \in BOOLEAN : Advert(connectable)
  \/ PresenceCheck \/ EndPoll \/ Unload \/ SetUp
  \/ Tick \/ WakeOrSleep \/ Started

\* Time goes on, due timers run, a poll ends (BoardRead.tla), Home Assistant
\* comes up, and an awake board is heard again and again by an adapter that
\* can connect.
Fairness ==
  /\ WF_vars(Tick) /\ WF_vars(PresenceCheck) /\ WF_vars(EndPoll)
  /\ WF_vars(Started) /\ WF_vars(Advert(TRUE))

Spec == Init /\ [][Next]_vars /\ Fairness

-----------------------------------------------------------------------------
(* Properties. *)

\* A sensor that shows the board is being watched: nothing else would turn it
\* off when the board falls silent (coordinator.py:99-101).  Without Lag only.
PresentIsWatched == shown => check # None

\* `present' is on while the board was heard within the timeout, and off no
\* later than one presence check after it.  Without Lag only.
ShownInTime ==
  /\ loaded /\ IsPresent(advertAge) => shown
  /\ shown => advertAge < PRESENCE_TIMEOUT + PRESENCE_CHECK

\* No timer of an unloaded entry is left to run.
UnloadedIsQuiet == ~loaded => check = None

\* No timer runs for ever while the board is asleep (coordinator.py:101).
SleepStopsTimer == <>[]~awake => <>[](check = None)

\* A board that stays awake is polled again and again.
PolledAgain == <>[](awake /\ loaded) => []<>polling

=============================================================================
