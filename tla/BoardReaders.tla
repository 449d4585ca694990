----------------------------- MODULE BoardReaders -----------------------------
(***************************************************************************)
(* Several readers of several boards: the coordinators of Home Assistant's *)
(* entries, which share one process and so one global_connect_lock, and    *)
(* the `watch' loops of tools/cli.py, each a process of its own that scans *)
(* for its board first.  Every read goes through a new TuyaEboardDevice.   *)
(*                                                                         *)
(* Of a session only what others notice is kept: the attempts, the lock,   *)
(* the link and the datapoint store; the rest is TuyaBLEDevice.tla.  The   *)
(* boards and the radio are external: a board has one link, advertises     *)
(* while it has none, and answers only those who have its key.             *)
(***************************************************************************)
EXTENDS Integers, Sequences

CONSTANTS
  Boards,
  Coordinators,  \* of the entries of one Home Assistant
  Watches,       \* `watch' loops
  Own,           \* the board each reader has the credentials of
  ProductId,     \* the product_id in them
  Macs,          \* what --mac a watch may be given, None for no --mac
  Advert,        \* what each board advertises
  Rssi,          \* the strengths at which a scan may hear each board
  Attempts,      \* attempts_count of _ensure_connected
  None

Readers == Coordinators \cup Watches

ASSUME ReadersAssumption ==
  /\ Coordinators \cap Watches = {}
  /\ Own \in [Readers -> Boards] /\ None \notin Boards \cup Readers
  /\ Macs \subseteq Boards \cup {None}
ASSUME AttemptsAssumption == Attempts \in Nat /\ Attempts >= 2
ASSUME RssiAssumption == Rssi \in [Boards -> SUBSET Int]

\* The readers that share a process.
Processes  == {Coordinators} \cup {{w} : w \in Watches}
Process(r) == IF r \in Coordinators THEN Coordinators ELSE {r}

VARIABLES
  mac,        \* the --mac of each watch
  pc,         \* where each reader is suspended
  found,      \* what its scan found, in the order found
  target,     \* the board its TuyaEboardDevice was made for
  attempts,   \* attempts left to its _ensure_connected
  lockQ,      \* each process's global_connect_lock: holder, then the waiters
  link,       \* who each board is connected to
  store,      \* the datapoint store of its TuyaEboardDevice: whose they are
  stopped,    \* its _expected_disconnect
  reported,   \* the board reported one since the read began (history)
  overtaken   \* how often others began an attempt since it waits (history)

vars == <<mac, pc, found, target, attempts, lockQ, link, store, stopped,
          reported, overtaken>>

Locations == {"asleep", "scanning", "queued", "connecting", "handshake",
              "settle"}
Cap == 2   \* overtaken counts no further

TypeOK ==
  /\ mac \in [Watches -> Macs]
  /\ pc \in [Readers -> Locations]
  /\ found \in [Readers -> Seq([board : Boards, rssi : Int])]
  /\ target \in [Readers -> Boards \cup {None}]
  /\ attempts \in [Readers -> 0..(Attempts - 1)]
  /\ lockQ \in [Processes -> Seq(Readers)]
  /\ link \in [Boards -> Readers \cup {None}]
  /\ store \in [Readers -> Boards \cup {None}]
  /\ stopped \in [Readers -> BOOLEAN]
  /\ reported \in [Readers -> BOOLEAN]
  /\ overtaken \in [Readers -> [Readers -> 0..Cap]]

Init ==
  /\ mac \in [Watches -> Macs]
  /\ pc = [r \in Readers |-> "asleep"]
  /\ found = [r \in Readers |-> <<>>]
  /\ target = [r \in Readers |-> None]
  /\ attempts = [r \in Readers |-> 0]
  /\ lockQ = [p \in Processes |-> <<>>]
  /\ link = [b \in Boards |-> None]
  /\ store = [r \in Readers |-> None]
  /\ stopped = [r \in Readers |-> FALSE]
  /\ reported = [r \in Readers |-> FALSE]
  /\ overtaken = [r \in Readers |-> [s \in Readers |-> 0]]

Goto(r, p) == pc' = [pc EXCEPT ![r] = p]

-----------------------------------------------------------------------------
(* discover_board. *)

Has(f, b) == \E i \in DOMAIN f : f[i].board = b

\* _matches: a name like the product's, or a Tuya service whose service data
\* names no other product.  SERVICE_UUID is 0xFD50's: only there is it looked at.
Matches(r, b) ==
  \/ r \in Advert[b].resembles
  \/ /\ Advert[b].service \in {"a201", "fd50"}
     /\ Advert[b].service = "fd50" => Advert[b].product \in {None, ProductId[r]}

\* The detection callback: the MAC's board as last heard, others as first heard.
Heard(f, r, b, rssi) ==
  LET advert == [board |-> b, rssi |-> rssi] IN
  IF mac[r] = b /\ Has(f, b)
  THEN [i \in DOMAIN f |-> IF f[i].board = b THEN advert ELSE f[i]]
  ELSE IF ~Has(f, b) /\ (mac[r] = b \/ Matches(r, b)) THEN Append(f, advert)
  ELSE f

\* `rssi or -999': an unknown strength is the weakest.
Strength(advert) == IF advert.rssi = 0 THEN -999 ELSE advert.rssi

\* What discover_board returns: the MAC's board, else the first of the strongest.
Chosen(f, r, b) ==
  IF Has(f, mac[r]) THEN b = mac[r]
  ELSE \E i \in DOMAIN f :
         /\ f[i].board = b
         /\ \A j \in DOMAIN f :
              \/ Strength(f[j]) < Strength(f[i])
              \/ Strength(f[j]) = Strength(f[i]) /\ i <= j

-----------------------------------------------------------------------------
(* A read begins. *)

\* TuyaEboardDevice.__init__; mutant: one object for all reads of a loop.
SessionReused(r) == UNCHANGED <<store, stopped>>
NewSession(r) ==
  /\ store' = [store EXCEPT ![r] = None]
  /\ stopped' = [stopped EXCEPT ![r] = FALSE]

\* update() up to the global lock; a stopped session is not connected again.
Update(r) ==
  IF stopped'[r]
  THEN Goto(r, "settle") /\ UNCHANGED <<attempts, lockQ>>
  ELSE /\ attempts' = [attempts EXCEPT ![r] = Attempts - 1]
       /\ lockQ' = [lockQ EXCEPT ![Process(r)] = Append(@, r)]
       /\ Goto(r, "queued")

Read(r, b) ==
  /\ target' = [target EXCEPT ![r] = b]
  /\ reported' = [reported EXCEPT ![r] = FALSE]
  /\ NewSession(r) /\ Update(r)
  /\ UNCHANGED <<mac, link, overtaken>>

\* _async_update, called for an advertisement of the entry's own address.
Poll(r) ==
  /\ r \in Coordinators /\ pc[r] = "asleep" /\ link[Own[r]] = None
  /\ Read(r, Own[r])
  /\ UNCHANGED found

\* cmd_watch goes round: _connect begins to scan.
Scan(r) ==
  /\ r \in Watches /\ pc[r] = "asleep"
  /\ Goto(r, "scanning")
  /\ found' = [found EXCEPT ![r] = <<>>]
  /\ UNCHANGED <<mac, target, attempts, lockQ, link, store, stopped, reported,
                 overtaken>>

Hear(r, b, rssi) ==
  /\ pc[r] = "scanning" /\ link[b] = None
  /\ found' = [found EXCEPT ![r] = Heard(@, r, b, rssi)]
  /\ UNCHANGED <<mac, pc, target, attempts, lockQ, link, store, stopped,
                 reported, overtaken>>

ScanEnds(r) ==
  /\ pc[r] = "scanning"
  /\ \E b \in Boards : Chosen(found[r], r, b) /\ Read(r, b)
  /\ found' = [found EXCEPT ![r] = <<>>]

\* An exception ends the read, not the loop of cmd_watch.
AfterError(r) == Goto(r, "asleep")

\* TimeoutError at the deadline; mutant: the scan goes on until it finds a board.
ScanEndless(r) == FALSE
ScanTimesOut(r) ==
  /\ pc[r] = "scanning" /\ found[r] = <<>>
  /\ AfterError(r)
  /\ UNCHANGED <<mac, found, target, attempts, lockQ, link, store, stopped,
                 reported, overtaken>>

-----------------------------------------------------------------------------
(* update(): the connect loop under the global lock, then the status.  *)

\* The queue once r is out of `async with global_connect_lock', if it was in.
Holds(r) == lockQ[Process(r)] # <<>> /\ Head(lockQ[Process(r)]) = r
Release(r) ==
  IF Holds(r) THEN Tail(lockQ[Process(r)]) ELSE lockQ[Process(r)]

\* `continue': behind those who wait, or BleakNotFoundError after the last
\* attempt; mutants: the lock is kept for the next attempt; attempts_count is
\* compared too late.
NextAttemptKeepsLock(r) ==
  /\ attempts' = [attempts EXCEPT ![r] = @ - 1]
  /\ lockQ' = [lockQ EXCEPT ![Process(r)] =
                 IF attempts[r] = 1 THEN Release(r)
                 ELSE IF pc[r] = "connecting" THEN @ ELSE Append(@, r)]
  /\ IF attempts[r] = 1 THEN AfterError(r) ELSE Goto(r, "queued")
NextAttemptLate(r) ==
  /\ attempts' = [attempts EXCEPT ![r] = @ - 1]
  /\ lockQ' = [lockQ EXCEPT ![Process(r)] =
                 IF attempts[r] = 0 THEN Release(r) ELSE Append(Release(r), r)]
  /\ IF attempts[r] = 0 THEN AfterError(r) ELSE Goto(r, "queued")
NextAttempt(r) ==
  /\ attempts' = [attempts EXCEPT ![r] = @ - 1]
  /\ lockQ' = [lockQ EXCEPT ![Process(r)] =
                 IF attempts[r] = 1 THEN Release(r) ELSE Append(Release(r), r)]
  /\ IF attempts[r] = 1 THEN AfterError(r) ELSE Goto(r, "queued")

Waiting(r) == pc[r] = "queued"

Begin(r) ==
  /\ Waiting(r) /\ Holds(r)
  /\ Goto(r, "connecting")
  /\ overtaken' = [s \in Readers |-> [o \in Readers |->
       IF s = r THEN 0
       ELSE IF o = r /\ Waiting(s) /\ Process(s) = Process(r) /\ overtaken[s][r] < Cap
       THEN overtaken[s][r] + 1
       ELSE overtaken[s][o]]]
  /\ UNCHANGED <<mac, found, target, attempts, lockQ, link, store, stopped,
                 reported>>

\* A link this reader left up is the one used.  The lock covers no more than
\* establish_connection.
Connects(r) ==
  /\ pc[r] = "connecting" /\ link[target[r]] \in {None, r}
  /\ link' = [link EXCEPT ![target[r]] = r]
  /\ Goto(r, "handshake")
  /\ lockQ' = [lockQ EXCEPT ![Process(r)] = Release(r)]
  /\ UNCHANGED <<mac, found, target, attempts, store, stopped, reported,
                 overtaken>>

ConnectFails(r) ==
  /\ pc[r] = "connecting"
  /\ NextAttempt(r)
  /\ UNCHANGED <<mac, found, target, link, store, stopped, reported,
                 overtaken>>

\* JSONDeviceManager: whatever the address; mutant: those of the board there.
CredentialsByAddress(r, b) == b
CredentialsFor(r, b) == Own[r]

\* Device info, pairing and status answered, or the status refused or lost:
\* that error leaves update(), past stop().
Pairs(r) ==
  /\ pc[r] = "handshake" /\ link[target[r]] = r
  /\ CredentialsFor(r, target[r]) = target[r]
  /\ attempts' = [attempts EXCEPT ![r] = 0]
  /\ Goto(r, "settle") \/ AfterError(r)
  /\ UNCHANGED <<mac, found, target, lockQ, link, store, stopped, reported,
                 overtaken>>

\* The link is not closed, only forgotten.
HandshakeFails(r) ==
  /\ pc[r] = "handshake"
  /\ NextAttempt(r)
  /\ UNCHANGED <<mac, found, target, link, store, stopped, reported,
                 overtaken>>

-----------------------------------------------------------------------------
(* The settle window and the end of the read. *)

Report(r) ==
  /\ pc[r] = "settle" /\ ~stopped[r] /\ link[target[r]] = r
  /\ store' = [store EXCEPT ![r] = target[r]]
  /\ reported' = [reported EXCEPT ![r] = TRUE]
  /\ UNCHANGED <<mac, pc, found, target, attempts, lockQ, link, stopped,
                 overtaken>>

\* What _snapshot returns, while the settle window is open.
Result(r) == IF pc[r] = "settle" THEN store[r] ELSE None

\* _snapshot, then stop().
Snapshot(r) ==
  /\ pc[r] = "settle"
  /\ stopped' = [stopped EXCEPT ![r] = TRUE]
  /\ link' = [link EXCEPT ![target[r]] = IF @ = r THEN None ELSE @]
  /\ Goto(r, "asleep")
  /\ UNCHANGED <<mac, found, target, attempts, lockQ, store, reported, overtaken>>

-----------------------------------------------------------------------------
(* The boards (external). *)

LinkLost(b) ==
  /\ link[b] # None
  /\ link' = [link EXCEPT ![b] = None]
  /\ UNCHANGED <<mac, pc, found, target, attempts, lockQ, store, stopped,
                 reported, overtaken>>

\* What a reader does once a read has begun.
Proceed(r) ==
  \/ ScanEnds(r) \/ ScanTimesOut(r) \/ Begin(r)
  \/ Connects(r) \/ ConnectFails(r) \/ Pairs(r) \/ HandshakeFails(r)
  \/ Snapshot(r)

Next ==
  \/ \E r \in Readers : Poll(r) \/ Scan(r) \/ Proceed(r) \/ Report(r)
  \/ \E w \in Watches, b \in Boards : \E rssi \in Rssi[b] : Hear(w, b, rssi)
  \/ \E b \in Boards : LinkLost(b)

\* The scan has a deadline, establish_connection and each request a timeout,
\* the settle window and the interval of `watch' are sleeps.
Fairness ==
  /\ \A r \in Readers : WF_vars(Proceed(r))
  /\ \A w \in Watches : WF_vars(Scan(w))

Spec == Init /\ [][Next]_vars /\ Fairness

-----------------------------------------------------------------------------
(* Properties. *)

\* However leniently a scan matches, a read returns datapoints of the board
\* whose credentials it was given (device.py:67, "accept the Tuya advertiser").
OwnData == \A r \in Readers : Result(r) # None => Result(r) = Own[r]

\* What a read returns was reported after it began, over any sequence of reads
\* (device.py:164): nothing is left of an earlier read's store.
FreshResult == \A r \in Readers : Result(r) # None => reported[r]

\* While a reader waits for the global lock (tuya_ble.py:577) every other one
\* begins at most one attempt, not the hundred of its loop.
OvertakenOnce ==
  \A r, s \in Readers : Waiting(r) => overtaken[r][s] <= 1

\* Every read ends, whatever the other boards do, so nobody waits for the
\* global lock for ever (tuya_ble.py:577); and a `watch' goes round again,
\* whatever its reads meet (cli.py:108).
ReadersGoOn ==
  /\ \A r \in Readers : pc[r] # "asleep" ~> pc[r] = "asleep"
  /\ \A w \in Watches : []<>(pc[w] = "scanning")

-----------------------------------------------------------------------------
(* Statements of the comments that do not hold. *)

\* device.py:78: the MAC "is used directly on platforms that expose it".
MacIsUsed ==
  \A w \in Watches :
    mac[w] # None /\ pc[w] \notin {"asleep", "scanning"} => target[w] = mac[w]

\* device.py:63: "If 0xA201 service_data carries the product id", verify it.
ProductVerified ==
  \A w \in Watches :
    pc[w] \notin {"asleep", "scanning"} /\ w \notin Advert[target[w]].resembles
      => Advert[target[w]].product \in {None, ProductId[w]}

=============================================================================
