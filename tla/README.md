# tuya-eboard: models, model checking and proofs

This directory is the verification project of the `tuya_eboard` Home Assistant integration
(`src/custom_components/tuya_eboard`). It holds TLA+ modules for the parts of the program
where the order of events matters, TLC configurations that check them on small instances,
and proofs, checked by TLAPS, that the most important properties hold for every instance.
`PROJECT.json` lists the components, the runs, the source lines each definition stands
for, the hazards, the findings and the theorems.

Paths below are relative to `src/custom_components/tuya_eboard/`; *session* is the vendored
`tuya_eboard_ble/_vendor/tuya_ble/tuya_ble.py`, *wrapper* is `tuya_eboard_ble/device.py`.

## 1. Inventory of the system

The board is an electric skateboard's motor controller. It can be reached over Bluetooth
only while it is on and in range, at the two ends of a ride. The integration listens for
advertisements, connects when one arrives and a read is due, lets the board report its
datapoints, disconnects and shows the last known values until the next read.

| Component | State it keeps | Operations | Talks to |
|---|---|---|---|
| BLE session (session) | client, pairing flag, `_expected_disconnect`, sequence number, pending futures, two locks, session key, datapoint store | `_ensure_connected`, `_reconnect`, `_resend_packets`, `_send_response`, `_send_packet`, `stop`, `_disconnected` | bleak (calls and callbacks), the board (packets), the wrapper |
| Framing (session) | reassembly buffer, expected packet number and length | `_notification_handler`, `_parse_input`, `_build_packets`, integer codec | bleak's notification callback |
| Datapoint parsing (session, `protocol.py`) | datapoint store | v3 and v4 report parsers, DP codec | session, wrapper |
| Wrapper | read-only flag, protocol generation | `read_all_dps`, `write_dp`, `discover_board` | session, coordinator, config flow |
| Coordinator (`coordinator.py`) | last snapshot, effective trip, time of the last advertisement, the presence timer | advertisement handler, presence check, poll gate, poll, ride event | Home Assistant's Bluetooth and event bus, wrapper, entities |
| Entities (`sensor.py`, `binary_sensor.py`, `entity.py`) | restored value | rendering | coordinator, restore storage |
| Setup (`__init__.py`, `data.py`) | the entry's runtime data | setup, unload | coordinator |
| Config flow (`config_flow.py`), cloud client (`cloud.py`) | flow state, credentials | discovery, user, cloud, manual and reauth steps | cloud, wrapper, Home Assistant |
| Command line (`src/tools/cli.py`) | none between reads | `watch`: scan, read, sleep, again; `dump` once | wrapper |
| Other tools, blueprints, release script | none | developer scripts and user automations | |

What is hard here, and what makes each part correct:

* **Session.** One asyncio loop runs the reader and any number of tasks that the session
  spawns: a reconnect after each link loss, one or two after a failing write (or a resend),
  a response to each message that asks for one. They share a client, a pairing flag and a
  counter, under a connect lock and an operation lock. Correct means: one handshake at a
  time, a pairing flag that is true only of a live link, errors that mean what callers take
  them for, a read that always ends, and silence after `stop()`.
* **Several boards, several readers.** The entries of one Home Assistant share a process and
  its `global_connect_lock`; a `watch` on the same or another host competes for the boards
  and picks the one to read from what it hears, leniently. Correct means that a read returns
  its own board's data, and fresh, and that no reader waits for ever or is pushed aside.
* **Framing.** Packets are lost, alone or with the link; the buffer outlives the link.
  Correct means that whole messages get through, once and in order.
* **Coordinator, data.** Reads report any subset of the datapoints, fail or come back empty,
  while the board is ridden and its trip counter is wiped by a power-cycle; the snapshot is
  lost with the process. Correct means an exact journal of rides, a trip that is not wiped
  and sensors that do not go back in time.
* **Coordinator, timing.** One self-rescheduling timer must neither die while the board is
  shown present nor live on while it sleeps or after unloading; a board that stays awake
  must be read again and again.
* **Datapoints.** A report may break off in the middle, and two parsers must agree on it.
* **Config flow.** Concurrent flows for one board, old listings and credentials in a flow's
  state, and reauth that must not reload for ever.

`PROJECT.json` names every hazard at its line with the properties that cover it.

## 2. The modules

```
BoardRead      <--implements--  TuyaBLEDevice   <--extends--  MCTuyaBLEDevice, TuyaBLEDeviceProofs
                                TuyaBLEDeviceProofs  <--extends--  AnswersProofs
RideJournal    <--implements--  Coordinator     <--extends--  CoordinatorProofs
                                Presence        <--extends--  PresenceProofs
MessageChannel <--implements--  Framing         <--extends--  MCFraming, FramingProofs
Cuts           <--extends--     Framing, PacketCodec
PacketCodec    <--------------extends-----------------------  MCFraming, CodecProofs
DpCodec        <--extends--     Datapoints      <--extends--  MCDatapoints, CodecProofs
                                ConfigFlow      <--extends--  MCConfigFlow, ConfigFlowProofs
                                BoardReaders    <--extends--  MCBoardReaders, BoardReadersProofs
```

### TuyaBLEDevice: one read of the board

An action is the code one task runs from one `await` to the next. `pc[t]` is the `await` at
which task `t` is suspended, `job[t]` the coroutine it runs, `call[t]` the request it is
sending with the state of its future.

| TLA+ | Code |
|---|---|
| `expected`, `client`, `paired`, `seqNum` | `_expected_disconnect`, `_client is not None`, `_is_paired`, `_current_seq_num` |
| `expecting` | `_input_expected_responses`: which task's future each number has |
| `connectQ`, `opQ` | `_connect_lock`, `_operation_lock`: the holder, then the waiters (asyncio locks are fair) |
| `attempts` | `attempts_count` of the task in the connect loop |
| `StartQueues`, `StartGivesUp`, `StartSends` | the tasks up to their first lock |
| `RecheckReady`, `RecheckConnects`, `Connects`, `ConnectFails`, `Notifies`, `NotifyFails` | `_ensure_connected` up to the device-info request |
| `Written`, `WriteFails` | `_send_packets_locked` with the board's reaction, or with the tasks an error spawns |
| `InfoAnswered`, `PairAnswered`, `HandshakeRefused`, `StatusAnswered`, `TimesOut` | the ends of a wait for an answer |
| `snapshot` | what `_snapshot` made: a list of datapoints (`ListOf`), an error (`Unpackable`), nothing yet |
| `SettleEnds`, `StopLocked`, `StopsNotify`, `Disconnects`, `StopFails` | `_snapshot` and `_execute_disconnect` |
| `Ending` | the end of `read_all_dps`: the list, or the error `_snapshot` raised, once `stop()` is over |
| `Deliver` | `_handle_command_or_response` |
| `Drops` | bleak's disconnected callback |
| `link`, `air`, `BoardReports`, `Reacts` | the board and the radio (external) |
| `answered`, `reused` | history: what the board answered; whether `_reconnect` restarted the numbers (`Renumber`) while a request or an answer had one (`InUse`) |

Abstractions, each of which allows at least what the code can do unless said otherwise:

* Ready tasks run in any order; asyncio's ready queue is first in, first out. The one
  violation that depends on order (`DisconnectIsLast`) also exists in FIFO order: the link
  drops while a reconnect holds the lock and `stop()` waits for it, and a second reconnect
  waits behind `stop()`.
* The link and the board's session on it are one variable, with phases `down`, `up`,
  `keyed` (device info answered) and `paired`. A link that an attempt left up is the one the
  next client gets.
* A connection attempt may fail at any time (the board is asleep or out of range); every
  other misbehaviour (lost link, unanswered or refused request, failing write, late answer)
  costs one of `MaxFaults`.
* A packet sent again by `_resend_packets` is encrypted under the old session key, so the
  board makes nothing of it (a resent device-info request would be an exception).
* With a rotated key (`KeyValid` false) the board answers nothing: it cannot decrypt the
  device-info request.
* Whether a stored value can be packed again is left open: once anything was reported,
  `_snapshot` may raise `struct.error`. `stop()` runs all the same and, if it raises too,
  its error is the one the caller sees. `Datapoints` has which values raise.
* A pair answer of 2 ("already paired") is the 0 the code turns it into; futures nobody
  waits for are dropped; credentials, callbacks and task cancellation are left out. There is
  one board and one read; `BoardReaders` has several, and the `global_connect_lock`.
* The slots of `Background` bound how many spawned tasks live at once. A step that needs
  more is disabled; three are enough for every run with the faults it allows.

### BoardRead: what a read promises

It ends once: with datapoints the board reported during this read after it accepted the
pairing, with `struct.error` if they hold a value that cannot be packed again, with
`TuyaBLEError` if the board refused the status request, or with a transport error.
`ReadContract` maps `granted` and `refused` to the answers the board gave, and to true once
a number was reused (`reused`), since an answer may then be taken for another's. The callers
know two of the ends: for the coordinator `TuyaBLEError` means a bad key and anything else
a failed poll; for the config flow every error means a bad key; `watch` goes on after any.

### BoardReaders: several boards, several readers

The coordinators of one Home Assistant poll their boards; `watch` loops, each a process of
its own, scan for theirs. A read is a new `TuyaEboardDevice`, and of its session only what
others can notice is kept.

| TLA+ | Code |
|---|---|
| `lockQ[p]` | `global_connect_lock` of process `p`: the holder, then the waiters |
| `attempts`, `Begin`, `ConnectFails`, `HandshakeFails`, `NextAttempt` | the connect loop; every attempt takes the lock anew, for `establish_connection` only |
| `Connects`, `Pairs`, `Report`, `Snapshot` | a link, an accepted handshake, reports in the settle window, `_snapshot` and `stop()` |
| `store`, `stopped`, `NewSession` | the datapoint store and `_expected_disconnect` of the read's object |
| `Scan`, `Hear`, `ScanEnds`, `ScanTimesOut`, `Matches`, `Chosen` | `discover_board`: callback, deadline and choice, `_matches` |
| `Poll` | `_async_update` on an advertisement of the entry's own address |
| `CredentialsFor` | `JSONDeviceManager`: one set of credentials, whatever the address |
| `Advert`, `Rssi`, `link`, `LinkLost` | the boards and the radio (external) |

What a session does on its own is `TuyaBLEDevice`'s and left out here: the reconnect tasks
it spawns, its errors other than a failed attempt, and the end of a leaked link. Each task
that connects takes its own place in the queue, so `OvertakenOnce` bounds what one task of
another reader does, not all its reconnects together. A board has one link and advertises
only while it has none; it pairs only with whoever has its key. The link of a read that
failed stays up until it is lost or a later attempt of the same reader uses it, and the
board is heard by nobody meanwhile. `found` is ordered because `max` returns the first of
the strongest.

### Coordinator: snapshot, ride event, trip and sensors

| TLA+ | Code |
|---|---|
| `data`, `trip` | `self.data.dps`, `self.data.trip_distance_km10`; `None` is -1 |
| `reading`, `report` | a poll under way and what `read_all_dps` collected so far |
| `Merge`, `Distance`, `EffectiveTrip` | the merge in `_async_update`, `_async_fire_ride_event`, `_effective_trip_km10` |
| `Shown`, `restored` | `TuyaEboardSensor.native_value`, `_restored` |
| `StartRead`, `EndRead`, `FailRead` | `_async_update` |
| `SetUp`, `Reload`, `Crash`, `Save`, `stored` | `async_setup_entry`, `async_unload_entry`, and Home Assistant's restore storage (external) |
| `Ride`, `PowerCycle`, `BoardReports` | the board (external) |

`announced`, `first`, `last` and `lapsed` are history. A poll still under way when the entry
is unloaded is given up; whether Home Assistant cancels it is not visible in this
repository. Of the event only the distance is modelled; `Battery` stands for every datapoint
whose value does not matter. The board's odometer never goes down.

### RideJournal: what the event promises

While an odometer is known, each advance is announced once and in full. After it is lost
(restart) the journal resumes from a reading at least as high as any before.

### Presence: advertisements, presence check and poll gate

Time is discrete; `advertAge` and `pollAge` count units since an event, `check` counts down
to the timer. `Advert`, `PresenceCheck`, `EndPoll`, `Unload` and `SetUp` are the handlers;
`Tick`, `WakeOrSleep` and `Started` are external. Time does not pass a due timer, but up to
`Lag` units may pass inside `_async_presence_check`, between its two readings of the clock.
The base class, which is external, renders on every advertisement, starts a poll when
`_needs_poll` says so and none is running, and measures the interval from the end of a poll.
Every advertisement is assumed to reach the handler, and `utcnow()` to run forward.

### Framing, MessageChannel and PacketCodec: packets

`PacketCodec` has the integers of seven bits a byte (`_pack_int`, `_unpack_int`), the header
of a packet and the loop of `_build_packets`; a message is its length in bytes. `Framing`
takes from it, as the constant `Ends`, where the packets of a message of each length end,
and counts bytes; `IsCut` in `Cuts` says what it needs of them. `Takes` and `Rejects` are the two branches of `_notification_handler`;
`buffer` is what packets `_input_buffer` is made of and `filled` its length. The board cuts
its messages as the host does: no packet of the board's is in the repository.

The checksum in `_parse_input` is taken to detect every mixture of messages (`Intact`). In
the code it does so but for one mixture in 65536, and a mixture whose garbled length field
happens to end the message just there has no checksum to be compared. Decryption is left
out: what is handed on is the message. MessageChannel is the promise: every message is
handled once, in order, and only damaged ones are passed over.

### Datapoints and DpCodec: what is in a report

DpCodec is `protocol.py` as functions over sequences of bytes, recursive where the code
loops. Datapoints is the session's own parser, one turn of the loop a step, because a turn
stores what it found (`store`) and a later one may raise (`result`). `GetValue` is
`_get_value`, which packs a stored value again, and `Snapshot` what `_snapshot` makes of the
store. The header of seven bytes of a v4 report and the headers of the other report codes
are passed over. Of text it only matters
whether it can be decoded, which the constant `IsText` tells; the run has text without and
bytes with a top bit, which are no UTF-8 on their own.

### ConfigFlow: adding boards, and reauth

| TLA+ | Code |
|---|---|
| `flow[f].step` | the form or menu shown; `listing`, `cloud_read`, `manual_read` are the awaits |
| `address`, `discovered`, `account`, `devices` | `_discovery`, `_discovered`, `_cloud_creds`, `_cloud_devices` |
| `asked`, `data` | locals of `async_step_cloud` and of the steps that read |
| `entries`, `reauth` | the config entries and their reauth flows (Home Assistant keeps them) |
| `Discover`, `AddByUser`, `Scan`, `Pick`, `ChooseAuth` | the steps up to the choice of a login |
| `LogIn`, `LogInFails`, `Listed`, `PickDevice`, `CloudReadEnds` | `async_step_cloud`, `async_step_cloud_pick`, `_async_create_from_cloud` |
| `EnterCredentials`, `ManualReadEnds` | `async_step_credentials` |
| `StartReauth`, `ConfirmReauth`, `ReauthListed`, `ReauthFails` | `async_step_reauth_confirm` |
| `Close`, `CloseReauth`, `Remove`, `PairAnew` | the user and the Tuya app (external) |

A key is the number of the pairing that made it, so a later key is a larger one; only equal
and unequal matter to the code. A read succeeds only with the board's own id and latest key,
and may fail with any. Of Home Assistant it is assumed that it closes the other flows of a
board whose entry is created, puts a new entry in the place of one with the same unique id,
and refuses to discover a board that has a flow. Input that leads back to the same form is
left out. Reauth may start for any entry at any time; by `read_safety` the coordinator
starts it only when a board refuses the status request. What an account lists does not
change. Lists that were chosen from are dropped, since the code fills them anew before it
reads them again.

## 3. The runs

| Run | Question | Bounds | Result |
|---|---|---|---|
| `read_safety` | Are handshakes exclusive, is no lock leaked, do answers meet their requests, are flags and outcomes meaningful? | 3 spawned tasks (symmetric), 3 attempts, 2 faults, 1 report in flight, 1 message to acknowledge | holds, about 1.3 million states |
| `read_liveness` | Does a read keep `BoardRead`, does every waiter get the lock, do the spawned tasks die out? | 3 spawned tasks, 3 attempts, 1 fault | holds |
| `read_refused` | Does a read always disconnect? | 1 fault | violated |
| `read_stopped` | Is the disconnect the last thing that happens to the link? | 2 faults | violated |
| `read_rotated_key` | Does a rotated key surface as `TuyaBLEError`? | no fault | violated |
| `snapshot` | Is the journal exact, the trip kept, are sensors up to date, over partial reads and restarts? | odometer up to 2, rides of 1 or 2 | holds, about 1.4 million states |
| `stale_trip` | Is the trip shown that of the ride just made? | odometer up to 3 | violated |
| `presence_times` | Is a shown board watched, `present` on and off in time, no timer left behind, an awake board polled again? | const.py's times in units of 10 s (9, 3, 30), no lag | holds |
| `flow_safety` | Is each reload by reauth paid for by a new key, do kept accounts fit, are manual entries checked, is no entry replaced? | 2 flows (symmetric), 2 boards, one hidden behind an address that is no MAC, 2 accounts, one new key per board | holds, about 190,000 states |
| `report_v4` | Do parser and codec agree, what does a broken report leave? | two pieces and a rest: whole, cut and overlong DPs of five types and six bodies | holds, about 200,000 states |
| `reassembly` | Do whole messages get through, once and in order? Do numbers, lengths and packet sizes survive the codec? | 4 messages of 33, 65 or 145 bytes in packets of 20, 3 packets lost, any number of link losses | holds, about 130,000 states |
| `boards` | Is what a read returns its own board's and fresh, is nobody overtaken for long at the global lock, does every read end and `watch` go on? | 2 boards, an entry for each, 1 `watch` with and without `--mac`, 3 attempts | holds, about 87,000 states |

Why the bounds are enough. Two faults allow every pair of a lost link, a failing write, a
refusal, a silence and a late answer, on top of free connection failures, hence two
reconnects that compete with the reader and with each other; three attempts give a failing,
a second and an exhausted turn of the connect loop (the counter 100 of the code only
repeats the middle one). Two kilometres let a ride fall before, between and after two reads
and in the gap of a restart, with 0 a legal reading. The presence run uses the real times.
Three lost packets can take the end of one message, the start of the next and one more,
which is the shortest way to a mixture that has exactly the announced length. One new key
makes the stored key of an entry, a listing and a picked device old in each other's time;
two flows and two boards let flows meet and devices be mistaken; one account lists both
boards and the other only one, so logins can disagree. Two datapoints suffice for one to
replace the other or to precede a break; numbers of more than four bytes, beyond TLC's
integers, are left to the proofs. Messages of 33, 65 and 145 bytes take two, four and
eight packets, and the last one has a length of two bytes. Two entries queue for one lock,
the `watch` competes for the first one's board without being in that queue, and the other
board, which advertises the older service, is the one a scan may take by mistake.

`CHECK_DEADLOCK FALSE` stands where the system may stop: a read that has ended, a board that
has sent `MaxMessages` or stands still at `MaxOdometer`, a report that is parsed. The
presence and flow runs go on for ever and check deadlock.

Fairness. `TuyaBLEDevice`: weak fairness of every task's next step (asyncio runs every ready
task; bleak's calls return or raise; the waits have timeouts) and of delivery. `Presence`:
weak fairness of time, of due timers, of the end of a poll (`ReadContract`), of Home
Assistant's start, and of an awake board being heard through an adapter that can connect.
`BoardReaders`: weak fairness of every reader's next step (the scan has a deadline,
`establish_connection` and each request a timeout, settling and the interval of `watch` are
sleeps) and of `watch` scanning again; no fairness of boards, polls or reports.
`BoardRead` promises weak fairness of its end, which `read_liveness` checks. Coordinator,
Framing, Datapoints and ConfigFlow are checked for safety only: when the board is in range
again, or a form is filled in, is up to a person.

Every passing property is accompanied by a mutant of a definition, a plausible slip in the
code (a lock freed early, a flag not cleared, readings swapped), which makes TLC find the
property violated. Mutants are written just before the definition they replace.

## 4. What the violations show

1. `read_refused` - `read_all_dps` calls `stop()` only around the snapshot. When the board
   refuses the status request the link stays up after the read.
2. `read_stopped` - `_ensure_connected` looks at `_expected_disconnect` before it waits for
   the lock, not after: a reconnect queued behind `stop()` connects again.
3. `read_rotated_key` - the connect loop swallows whatever a wrong key causes and ends with
   a transport error; the coordinator's reauth on `TuyaBLEError` is not reached.
4. `stale_trip` - the trip counter is taken from the merged snapshot: a read with a new
   odometer and no trip counter shows the older ride's trip.

TLC refutes more statements, for which no run is kept; they can be seen by adding the
property, alone, to the cfg named:

* `AdvanceAnnounced` (`StaleTrip.cfg`): the snapshot lives in memory only, so a ride between
  the last read before a restart and the first one after it fires no event, although
  `src/README.md` promises one whenever the odometer advances between two reads.
* `ValuePersists` (`StaleTrip.cfg`): restored values are ignored once there is any snapshot,
  so a partial first read turns sensors unknown, against the comment in `_async_update`.
* `PresentIsWatched` with `Lag = 1` (`PresenceTimes.cfg`): the presence check reads the clock
  twice; when the timeout passes in between, `present` is rendered on and the check stops.
* `VerifiedBeforeCreated` (`FlowSafety.cfg`): the docstring of `config_flow.py` denies the
  leniency that a comment below it explains.
* `ReturnsOnlyPaired` without its condition `~reused` (`ReadSafety.cfg` with
  `MaxFaults = 4`, `Attempts = 5`, a `Background` of one task, `DPs = {}`, `MaxAir = 0`,
  `MaxAcked = 0`): a reconnect restarts the numbers while a device-info answer is on its
  way, the pair request of the next attempt gets that answer's number and is taken for
  accepted, and a read of a board that accepted no pairing returns an empty snapshot.
  `TuyaErrorOnlyFromStatus` without it falls the same way with seven faults, two tasks and
  eight attempts. With it both are proved (section 5).
* `SnapshotIsExact` (`ReportV4.cfg`): `protocol.py:48` calls `DataPoint.raw` "exact bytes on
  the wire (for fixtures / lossless re-encode)" and `device.py:150` "exact wire bytes", but
  `_snapshot` packs the decoded values again. A BOOL of several bytes becomes one, a VALUE
  always has four, an enum loses leading zeros, and an enum with a top bit makes the whole
  snapshot raise `struct.error`.
* `BlocksOnlyRejected` (`FlowSafety.cfg`, as a PROPERTY): a link lost during the read counts
  as a rejected key and blocks a cloud login whose key is right.
* `MatchedBoard` (`FlowSafety.cfg`): `_async_create_from_cloud` creates the entry of a
  sleeping board without a read because it was matched by its MAC (`config_flow.py:246`);
  the device picked by hand when nothing matched gets the same treatment, so the entry may
  be of another board.
* `MacIsUsed` (`Boards.cfg`): with `--mac` a scan that heard only other Tuya boards returns
  the strongest of them, although `device.py:78` says the MAC is used where it is exposed.
* `ProductVerified` (`Boards.cfg`): `device.py:63` says the product id in 0xA201's service
  data is verified; the code looks for it under 0xFD50 only.
* `MirrorsProtocol` with `LengthBytes = 1` (`ReportV4.cfg`): the v3 loop guards with a v4
  header's size, so an empty datapoint at the end of a report is lost, and `protocol.py` does
  not mirror it as its docstring says.

Seen while reading, without a run:

* The docstring of `TuyaEboardDevice` calls it connect-on-demand. One object serves one read:
  `_expected_disconnect` is never reset, so a second `read_all_dps` connects to nothing,
  sends nothing and returns the first one's store. All callers make a new object, which is
  what `FreshResult` checks.
* The write path could not work if its allowlist were filled: `write_dp` gives `set_value`
  the encoded bytes, which it converts with `bool`, `int` or `str`, and `_send_datapoints`
  raises unless the advertisement says protocol version 3. `end_update` forgets what was set
  while it waited for the batch to be sent. Nothing in the repository calls any of this.

## 5. What is proved

All proofs hold for every value of the constants, under the assumptions named in the
modules (`TasksAssumption`, `AttemptsAssumption`, `BoundsAssumption`, `RideAssumption`,
`TimesAssumption`, `CloudAssumption`, `NoEntryAssumption`, `EndsAssumption`,
`ReadersAssumption`, `RssiAssumption`, `LengthAssumption`, `StreamsAssumption`,
`MtuAssumption`). A theorem that needs more (`LengthBytes = 2`, `Lag = 0`, `~KeyValid`) says
so.

* **TuyaBLEDeviceProofs.** `TypeCorrect` and `Exclusion` come from one inductive invariant,
  `TypeOK /\ HandshakeExclusive`: neither is inductive alone, because `Tail(connectQ)` is a
  queue only if the queue is not empty, which exclusion tells of every task that leaves the
  loop, and exclusion needs the queue to be a sequence of tasks. There is one step per
  action; lemmas give the types of what `Goto`, `Spawn`, `Send` and `Proceed` change.
  `PairedLinked` proves `PairedImpliesLink` from `LinkInv`, which adds that whatever is in
  flight has a link and that nothing is in flight while the client disconnects. `LocksKept` proves `LockDiscipline`, the
  exclusion and `LocksAccounted`, which with the two is inductive: `Accounts` says of each
  action that it moves one task, which joins or leaves each queue just when it begins or
  ends to need the lock, at the end or from the head, and that only the holder changes the
  attempts. With it no task waits for a lock whose holder has gone, and who holds
  `_operation_lock` never waits for the other: the safety half of `LockIsGranted`.
  `RotatedKeyHidden`: with a wrong key nothing is ever answered, so no read raises
  `TuyaBLEError` or returns, for any attempts, tasks and faults (section 4, item 3).
* **AnswersProofs.** `AnswersMatched`, `ReturnedPaired` and `ErrorFromStatus` prove
  `AnswersMatch`, `ReturnsOnlyPaired` and `TuyaErrorOnlyFromStatus` however many faults
  there are; all three speak of reads in which no number was reused, and the latter two are
  false of others (section 4). `Roles` says which task can be where with which request;
  `Numbers`, that requests under way have different numbers, below the next one, as are
  those of the answers in flight; `Genuine` and `Earned` trace the pairing flag, the answers
  in flight, the state of each future and the reader's place back to what the board answered
  until a number is reused; `Claims` says what an outcome means. `ReadKept` is the safety
  part of `ReadContract` and has no such condition, as the mapping takes `reused` into
  account: the first state of a read is one of BoardRead's, and every step is one of
  BoardRead's or leaves what it sees unchanged. `SnapshotInv` says that a running read has a
  list or an error of `_snapshot` just while the session is being stopped, and an error only
  if something was reported.
* **CoordinatorProofs.** `IInv` adds to the type that readings are ordered in time (first,
  latest, the one under way, the board's own), that a positive trip belongs to a snapshot,
  and that what a sensor restored is the latest reading unless a crash lost it. From it:
  `OverAnnounced`, `JournalKept` (the refinement of RideJournal: only a finished read and a
  set-up touch the journal), `LatestShown`, `TripKept` and `SeenKept`.
* **PresenceProofs.** `TypeCorrect` and `Unloaded` hold for every lag. With `Lag = 0`,
  `WatchedWhileShown` and `InTime` follow from an invariant that bounds the age a shown board
  will have when its check is due: time moves a unit from the timer to the age.
* **ConfigFlowProofs.** One invariant gives `TypeCorrect`, `ReloadsPaid`, `AccountLists`,
  `ManualChecked` and `Unreplaced`. It says of each flow that the board it chose has no entry
  (Home Assistant closes the others), that the account asked is the one kept and lists the
  devices shown, and that no key is newer than its board's; of each entry that reloads,
  stored key and the board's key are ordered. Three lemmas cover the shapes of a step: one
  flow changes, one entry changes, an entry is created.
* **FramingProofs.** `TypeCorrect`, `Spliceless` and `ChannelKept` (the refinement of
  MessageChannel) hold for every way of cutting messages into numbered packets of which the
  last one ends the message (`EndsAssumption`). The invariant says that what is in the
  buffer and in the air are parts of messages not handled yet, in the order they were sent:
  of a message nothing was lost of, all parts (`Whole`), of a damaged one not all
  (`Broken`). So a buffer that fills up exactly and is of one message is a whole message,
  and the first whole one after a loss is taken.
* **BoardReadersProofs.** For any boards, entries, `watch` loops and advertisements:
  `TypeCorrect`, `OwnRead`, `FreshRead` and `Overtaking`. `Sessions` says that until the
  handshake succeeded a session's store is empty, and afterwards its board is the one of the
  credentials. `Queues` says that a queue has each reader once, only its head is past
  waiting, and whoever waits before another has not begun an attempt since that one joined;
  when the head begins, it overtakes each waiter behind it for the first time.

* **CodecProofs, datapoints.** For any set of byte streams, of any length:
  `DatapointsTypeCorrect`, `ParserMirrorsProtocol`, `StoreKeepsLatest`, `CodecRoundTrips` and
  `SnapshotOfLatest`; the first and the fourth for both widths of the length field, the
  others for v4 (in v3 `MirrorsProtocol` is false, section 4). The invariant `ParserInv`
  says that what `protocol.py` decodes of the whole stream is what was reported, followed
  by what it decodes from the parser's position on, and that the store holds the last value
  of each id reported; none of the properties is inductive, as they speak of reports that
  are over. What the recursive functions compute is proved by induction over sets of
  naturals (`LeastNat`, from the well-foundedness of `<`): the induction theorems of the
  library take an operator, which the provers cannot instantiate. `DecodeUndoesEncode`:
  `decode_value` undoes `encode_value` for all numbers of 32 bits.
* **CodecProofs, packets.** `IntegersUnpacked`: `_unpack_int` finds any number below 128^4
  that `_pack_int` put among other bytes, and its end; a message's 16-bit size is far below
  (`MessagesFit`). `HeadsAreRead` says so of the whole header. `MessagesAreCut`: the loop of
  `_build_packets` yields parts that are not empty and the last of which ends the message,
  for any MTU, which is what `EndsAssumption` asks of the constant `Ends`: the proofs of
  Framing hold of the code's own cutting. `PacketsAreFilled`: no packet exceeds the MTU.

Only model-checked: all liveness (`ReadContract` with its fairness, `LockIsGranted`,
`StopQuiesces`, `SleepStopsTimer`, `PolledAgain`, `ReadersGoOn`), which is out of TLAPS's
reach.

## 6. Not modelled, and the plan

Left out, and why:

* **Writing.** `write_dp` refuses every datapoint, since the allowlist is empty; `set_value`,
  batched updates and `_send_datapoints` are reached by nothing else.
* **The ride event's battery and voltage.** With a battery that changes and is reported or
  not, the run `snapshot` is too large for TLC; without, a property would say nothing.
* **Binary sensors `cruise` and `ble_lock`.** They restore and render like the sensors, which
  Coordinator has; the inversion of the lock is a single expression.
* **`initialize`'s decoding of the advertisement, `detect_generation`.** The former's bound
  flag and uuid are read nowhere, its protocol version is put into the packets' headers and
  replaced by the one in the device info; an advertised uuid that does not decrypt raises
  before anything is connected. The latter picks characteristics and a code from a table.
* **A poll that runs while its entry is reloaded.** Whether Home Assistant cancels it is not
  in this repository.
* **Pure input and output.** HTTP in the cloud client, encryption, loading of credentials and
  maps, translations, the one-shot commands and scripts under `src/tools`, blueprints and the
  release script.

What would add most next: Coordinator over BoardRead instead of its own external reads; a
second read of one board by two processes, with the sessions' own reconnects, in
BoardReaders; and what bounds the number of tasks the session spawns after `stop()`.
