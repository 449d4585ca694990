----------------------------- MODULE ConfigFlow -----------------------------
(***************************************************************************)
(* TuyaEboardConfigFlow: several flows that add boards, by cloud login or  *)
(* with a key entered by hand, and the reauth flow of each entry, while    *)
(* boards are paired anew and so get new keys.  A flow's step is the form  *)
(* or menu it shows, or the await it is suspended at.  A device of the     *)
(* cloud is named by the board it stands for; keys of a board are numbered *)
(* in the order in which it got them.                                      *)
(***************************************************************************)
EXTENDS Integers

CONSTANTS
  Flows,     \* flows that may be open at once
  Boards,
  Accounts,  \* Tuya IoT projects whose credentials the user has
  Listing,   \* the boards of each account
  MacShown,  \* the boards whose BLE address is the MAC the cloud knows
  MaxKey,    \* bound: how often a board is paired anew
  NoBoard, NoAccount, NoEntry

ASSUME CloudAssumption ==
  /\ Listing \in [Accounts -> SUBSET Boards] /\ MacShown \subseteq Boards
  /\ MaxKey \in Nat
  /\ NoBoard \notin Boards /\ NoAccount \notin Accounts

VARIABLES
  flow,     \* the state of each TuyaEboardConfigFlow that adds a board
  entries,  \* the config entry of each board
  reauth,   \* the reauth flow of each entry
  boardKey, \* the number of the key each board has now
  reloads   \* history: how often reauth reloaded each entry

vars == <<flow, entries, reauth, boardKey, reloads>>

Device == [id : Boards, key : 0..MaxKey]
NoDevice == [id |-> NoBoard, key |-> -1]

\* What an entry keeps; read tells (history) that the board was read with these
\* credentials before the entry was created.
EntryData ==
  [id : Boards, key : 0..MaxKey, account : Accounts \cup {NoAccount}, read : BOOLEAN]

ASSUME NoEntryAssumption == NoEntry \notin EntryData

FlowStep == {"none", "menu", "pick", "choose_auth", "cloud", "listing",
             "cloud_pick", "cloud_read", "credentials", "manual_read"}
FlowState ==
  [step : FlowStep, address : Boards \cup {NoBoard}, discovered : SUBSET Boards,
   account : Accounts \cup {NoAccount}, asked : Accounts \cup {NoAccount},
   devices : SUBSET Device, data : Device \cup {NoDevice}]

ReauthState ==
  [step : {"none", "listing", "confirm"}, account : Accounts \cup {NoAccount}]

TypeOK ==
  /\ flow \in [Flows -> FlowState]
  /\ entries \in [Boards -> EntryData \cup {NoEntry}]
  /\ reauth \in [Boards -> ReauthState]
  /\ boardKey \in [Boards -> 0..MaxKey]
  /\ reloads \in [Boards -> Nat]

\* __init__ of a flow: nothing discovered, no cloud credentials (account), no
\* listing asked for.
NewFlow ==
  [step |-> "none", address |-> NoBoard, discovered |-> {}, account |-> NoAccount,
   asked |-> NoAccount, devices |-> {}, data |-> NoDevice]
NoReauth == [step |-> "none", account |-> NoAccount]

Init ==
  /\ flow = [f \in Flows |-> NewFlow]
  /\ entries = [b \in Boards |-> NoEntry]
  /\ reauth = [b \in Boards |-> NoReauth]
  /\ boardKey = [b \in Boards |-> 0]
  /\ reloads = [b \in Boards |-> 0]

CurrentIds == {b \in Boards : entries[b] # NoEntry}

\* _abort_if_unique_id_configured; mutant: not called, as if the filter of the
\* scan were enough.
ConfiguredUnchecked(b) == FALSE
Configured(b) == b \in CurrentIds

\* async_list_devices of an account, as the cloud answers now.
ListDevices(a) == {[id |-> b, key |-> boardKey[b]] : b \in Listing[a]}

\* The device of an id in a listing; and match_by_mac, which finds at most the
\* board itself, since no two devices of a cloud have the same MAC.
Find(devices, id) ==
  IF \E d \in devices : d.id = id THEN CHOOSE d \in devices : d.id = id ELSE NoDevice
MatchByMac(devices, address) ==
  IF address \in MacShown THEN Find(devices, address) ELSE NoDevice

\* Whether a board lets itself be read with these credentials.
Accepts(b, d) == d.id = b /\ d.key = boardKey[b]

-----------------------------------------------------------------------------
(* Flows that add a board. *)

At(f, s) == flow[f].step = s
Show(f, s) == flow' = [flow EXCEPT ![f].step = s]

\* async_step_bluetooth.  Home Assistant refuses a second flow that was
\* discovered for a board with a flow under way.
Discover(f, b) ==
  /\ At(f, "none") /\ ~Configured(b)
  /\ \A g \in Flows : flow[g].address # b
  /\ flow' = [flow EXCEPT ![f].step = "choose_auth", ![f].address = b]
  /\ UNCHANGED <<entries, reauth, boardKey, reloads>>

\* async_step_user.
AddByUser(f) ==
  /\ At(f, "none") /\ Show(f, "menu")
  /\ UNCHANGED <<entries, reauth, boardKey, reloads>>

\* async_step_scan; without an adapter or a new board the menu is shown again.
Scan(f) ==
  /\ At(f, "menu")
  /\ \E found \in SUBSET (Boards \ CurrentIds) \ {{}} :
       flow' = [flow EXCEPT ![f].step = "pick", ![f].discovered = found]
  /\ UNCHANGED <<entries, reauth, boardKey, reloads>>

\* async_step_pick (what was discovered or listed is dropped here once it was
\* chosen from: the code reads it only after filling it anew), with
\* raise_on_progress=False: other flows for this board do not matter.
Pick(f, b) ==
  /\ At(f, "pick") /\ b \in flow[f].discovered
  /\ flow' = IF Configured(b) THEN [flow EXCEPT ![f] = NewFlow]
             ELSE [flow EXCEPT ![f].step = "choose_auth", ![f].address = b,
                               ![f].discovered = {}]
  /\ UNCHANGED <<entries, reauth, boardKey, reloads>>

\* async_step_choose_auth.
ChooseAuth(f) ==
  /\ At(f, "choose_auth")
  /\ \E s \in {"cloud", "credentials"} : Show(f, s)
  /\ UNCHANGED <<entries, reauth, boardKey, reloads>>

\* The credentials async_step_cloud keeps; mutant: those entered first.
FirstAccount(f, a) == IF flow[f].account = NoAccount THEN a ELSE flow[f].account
KeptAccount(f, a) == a

\* async_step_cloud up to the await of the listing.
LogIn(f, a) ==
  /\ At(f, "cloud")
  /\ flow' = [flow EXCEPT ![f].step = "listing", ![f].asked = a,
                          ![f].account = KeptAccount(f, a)]
  /\ UNCHANGED <<entries, reauth, boardKey, reloads>>

\* CloudAuthError, CloudConnError, or an account without devices.
LogInFails(f) ==
  /\ At(f, "listing")
  /\ flow' = [flow EXCEPT ![f].step = "cloud", ![f].asked = NoAccount]
  /\ UNCHANGED <<entries, reauth, boardKey, reloads>>

\* async_step_cloud from the answer: on to the read with the device that
\* matches, or to the choice of one.
Listed(f) ==
  /\ At(f, "listing") /\ Listing[flow[f].asked] # {}
  /\ LET devices == ListDevices(flow[f].asked)
         match == MatchByMac(devices, flow[f].address)
     IN  flow' = [flow EXCEPT
           ![f].step = IF match # NoDevice THEN "cloud_read" ELSE "cloud_pick",
           ![f].asked = NoAccount, ![f].data = match,
           ![f].devices = IF match = NoDevice THEN devices ELSE {}]
  /\ UNCHANGED <<entries, reauth, boardKey, reloads>>

\* async_step_cloud_pick and async_step_credentials up to the read.
PickDevice(f, d) ==
  /\ At(f, "cloud_pick") /\ d \in flow[f].devices
  /\ flow' = [flow EXCEPT ![f].step = "cloud_read", ![f].devices = {},
                          ![f].data = d]
  /\ UNCHANGED <<entries, reauth, boardKey, reloads>>

EnterCredentials(f, d) ==
  /\ At(f, "credentials") /\ d.key <= boardKey[d.id]
  /\ flow' = [flow EXCEPT ![f].step = "manual_read", ![f].data = d]
  /\ UNCHANGED <<entries, reauth, boardKey, reloads>>

\* The results of _async_try_read: no exception stands for "none".  The board may
\* be asleep, fall asleep, or report nothing, with any credentials; only with the
\* right ones can it be read.
Results(f) ==
  {"cannot_connect", "invalid_auth"} \cup
  (IF Accepts(flow[f].address, flow[f].data) THEN {"none"} ELSE {})

\* Which results let the entry be created, in _async_create_from_cloud and in
\* async_step_credentials; mutant of the second: as lenient as the first.
CloudCreates(result) == result # "invalid_auth"
ManualCreatesAsleep(result) == result # "invalid_auth"
ManualCreates(result) == result = "none"

\* async_create_entry.  Home Assistant closes all flows of this board, and puts
\* the entry in the place of one the board may have.
Create(f, account, result) ==
  LET b == flow[f].address IN
  /\ entries' = [entries EXCEPT ![b] =
       [id |-> flow[f].data.id, key |-> flow[f].data.key, account |-> account,
        read |-> result = "none"]]
  /\ flow' = [g \in Flows |-> IF flow[g].address = b THEN NewFlow ELSE flow[g]]
  /\ reloads' = [reloads EXCEPT ![b] = 0]

\* The form again, with the error.
Again(f, s) == flow' = [flow EXCEPT ![f].step = s, ![f].data = NoDevice]

\* _async_create_from_cloud and async_step_credentials from the end of the read.
CloudReadEnds(f) ==
  /\ At(f, "cloud_read")
  /\ \E result \in Results(f) :
       IF CloudCreates(result) THEN Create(f, flow[f].account, result)
       ELSE Again(f, "cloud") /\ UNCHANGED <<entries, reloads>>
  /\ UNCHANGED <<reauth, boardKey>>

ManualReadEnds(f) ==
  /\ At(f, "manual_read")
  /\ \E result \in Results(f) :
       IF ManualCreates(result) THEN Create(f, NoAccount, result)
       ELSE Again(f, "credentials") /\ UNCHANGED <<entries, reloads>>
  /\ UNCHANGED <<reauth, boardKey>>

\* The user closes a flow (external).
Close(f) ==
  /\ ~At(f, "none") /\ flow' = [flow EXCEPT ![f] = NewFlow]
  /\ UNCHANGED <<entries, reauth, boardKey, reloads>>

-----------------------------------------------------------------------------
(* Reauth. *)

\* async_start_reauth after a TuyaBLEError, which does nothing while a reauth
\* flow is open, and async_step_reauth_confirm without input: with the account
\* of the entry if it has one.
StartReauth(b) ==
  /\ entries[b] # NoEntry /\ reauth[b].step = "none"
  /\ reauth' = [reauth EXCEPT ![b] =
       [step |-> IF entries[b].account = NoAccount THEN "confirm" ELSE "listing",
        account |-> entries[b].account]]
  /\ UNCHANGED <<flow, entries, boardKey, reloads>>

\* async_step_reauth_confirm with the account entered.
ConfirmReauth(b, a) ==
  /\ reauth[b].step = "confirm"
  /\ reauth' = [reauth EXCEPT ![b] = [step |-> "listing", account |-> a]]
  /\ UNCHANGED <<flow, entries, boardKey, reloads>>

\* Whether the device found replaces the key; mutants: whatever its key, and
\* even if none was found.
RefreshesSameKey(device, entry) == device # NoDevice
RefreshesUnfound(device, entry) == device.key # entry.key
Refreshes(device, entry) == device # NoDevice /\ device.key # entry.key

\* async_step_reauth_confirm from the answer of the cloud.
ReauthListed(b) ==
  /\ reauth[b].step = "listing"
  /\ LET a == reauth[b].account
         device == Find(ListDevices(a), entries[b].id)
     IN  IF Refreshes(device, entries[b])
         THEN /\ entries' = [entries EXCEPT ![b].key = device.key, ![b].account = a]
              /\ reauth' = [reauth EXCEPT ![b] = NoReauth]
              /\ reloads' = [reloads EXCEPT ![b] = @ + 1]
         ELSE /\ reauth' = [reauth EXCEPT ![b].step = "confirm"]
              /\ UNCHANGED <<entries, reloads>>
  /\ UNCHANGED <<flow, boardKey>>

\* CloudAuthError or CloudConnError.
ReauthFails(b) ==
  /\ reauth[b].step = "listing"
  /\ reauth' = [reauth EXCEPT ![b].step = "confirm"]
  /\ UNCHANGED <<flow, entries, boardKey, reloads>>

\* The user closes the reauth flow, removes the entry, or pairs the board anew
\* in the Tuya app (external).
CloseReauth(b) ==
  /\ reauth[b].step # "none" /\ reauth' = [reauth EXCEPT ![b] = NoReauth]
  /\ UNCHANGED <<flow, entries, boardKey, reloads>>

Remove(b) ==
  /\ entries[b] # NoEntry /\ entries' = [entries EXCEPT ![b] = NoEntry]
  /\ reauth' = [reauth EXCEPT ![b] = NoReauth]
  /\ reloads' = [reloads EXCEPT ![b] = 0]
  /\ UNCHANGED <<flow, boardKey>>

PairAnew(b) ==
  /\ boardKey[b] < MaxKey /\ boardKey' = [boardKey EXCEPT ![b] = @ + 1]
  /\ UNCHANGED <<flow, entries, reauth, reloads>>

-----------------------------------------------------------------------------
FlowNext(f) ==
  \/ \E b \in Boards : Discover(f, b) \/ Pick(f, b)
  \/ AddByUser(f) \/ Scan(f) \/ ChooseAuth(f)
  \/ \E a \in Accounts : LogIn(f, a)
  \/ LogInFails(f) \/ Listed(f)
  \/ \E d \in Device : PickDevice(f, d) \/ EnterCredentials(f, d)
  \/ CloudReadEnds(f) \/ ManualReadEnds(f) \/ Close(f)

ReauthNext(b) ==
  \/ StartReauth(b) \/ ReauthListed(b) \/ ReauthFails(b) \/ CloseReauth(b)
  \/ \E a \in Accounts : ConfirmReauth(b, a)
  \/ Remove(b) \/ PairAnew(b)

Next == (\E f \in Flows : FlowNext(f)) \/ (\E b \in Boards : ReauthNext(b))

Spec == Init /\ [][Next]_vars

-----------------------------------------------------------------------------
(* Properties. *)

\* Reauth does not reload an entry again and again: each reload is paid for by
\* a new key of the board (config_flow.py:338-341).
NoReloadLoop == \A b \in CurrentIds : reloads[b] <= entries[b].key

\* The account an entry keeps lists its device, so a silent reauth can find the
\* device again, whatever was logged in to before (config_flow.py:10).
AccountListsDevice ==
  \A b \in CurrentIds :
    entries[b].account # NoAccount => entries[b].id \in Listing[entries[b].account]

\* An entry without an account is of the board it was made for: a wrong device
\* entered by hand never gets past the read (config_flow.py:249, 270-275).
ManualIsOwnBoard ==
  \A b \in CurrentIds : entries[b].account = NoAccount => entries[b].id = b

\* One entry per board: a flow never overwrites the entry another one made;
\* only reauth changes an entry, and never the device it is for.
NeverReplaced ==
  [][\A b \in Boards :
       {entries[b], entries'[b]} \subseteq EntryData /\ entries'[b] # entries[b] =>
         reauth[b].step = "listing" /\ entries'[b].id = entries[b].id]_vars

\* config_flow.py:8-9, "Either way the credentials are verified by one real
\* connect+read before the entry is created."
VerifiedBeforeCreated == \A b \in CurrentIds : entries[b].read

\* config_flow.py:246, "The cloud key is authoritative (we matched the board by
\* MAC)": the device of an entry is its board's.
MatchedBoard == \A b \in CurrentIds : entries[b].id = b

\* config_flow.py:246-247, "so only block on a real key rejection": a cloud login
\* is not refused with the credentials the board accepts.
BlocksOnlyRejected ==
  [][\A f \in Flows :
       At(f, "cloud_read") /\ flow'[f].step = "cloud" =>
         ~Accepts(flow[f].address, flow[f].data)]_vars

=============================================================================
