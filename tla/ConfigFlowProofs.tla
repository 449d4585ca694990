-------------------------- MODULE ConfigFlowProofs --------------------------
(***************************************************************************)
(* Proofs about ConfigFlow: its type, the reloads of reauth, the accounts  *)
(* and devices of entries, and that no entry is replaced, for any number   *)
(* of flows, boards, accounts and keys.                                    *)
(***************************************************************************)
EXTENDS ConfigFlow, TLAPS

\* The steps of a flow that knows its board.
Chosen == FlowStep \ {"none", "menu", "pick"}

\* What holds of a flow in state s: its board has no entry; the account asked
\* is the one kept; it holds devices that account lists, with keys they had.
FlowOK(s) ==
  /\ s.step \in Chosen => s.address \in Boards /\ entries[s.address] = NoEntry
  /\ s.step = "listing" => s.asked \in Accounts /\ s.account = s.asked
  /\ s.step = "cloud_pick" =>
       s.account \in Accounts /\ \A d \in s.devices : d.id \in Listing[s.account]
  /\ s.step = "cloud_read" => s.account \in Accounts /\ s.data.id \in Listing[s.account]
  /\ s.step \in {"cloud_read", "manual_read"} =>
       s.data \in Device /\ s.data.key <= boardKey[s.data.id]
  /\ \A d \in s.devices : d.key <= boardKey[d.id]

\* What holds of the entry of board b and of its reauth flow.
EntryOK(b) ==
  entries[b] # NoEntry =>
    /\ reloads[b] <= entries[b].key /\ entries[b].key <= boardKey[entries[b].id]
    /\ entries[b].account # NoAccount => entries[b].id \in Listing[entries[b].account]
    /\ entries[b].account = NoAccount => entries[b].id = b
ReauthOK(b) ==
  /\ reauth[b].step # "none" => entries[b] # NoEntry
  /\ reauth[b].step = "listing" => reauth[b].account \in Accounts

IInv ==
  /\ TypeOK
  /\ \A f \in Flows : FlowOK(flow[f])
  /\ \A b \in Boards : EntryOK(b) /\ ReauthOK(b)

USE CloudAssumption, NoEntryAssumption

-----------------------------------------------------------------------------
(* What the cloud lists, and the two ways a step changes a flow. *)

LEMMA ListedDevices ==
  ASSUME TypeOK, NEW a \in Accounts
  PROVE  /\ ListDevices(a) \in SUBSET Device
         /\ \A d \in ListDevices(a) : d.id \in Listing[a] /\ d.key = boardKey[d.id]
  BY DEF ListDevices, Device, TypeOK

LEMMA FindFinds ==
  ASSUME NEW devices \in SUBSET Device, NEW id, Find(devices, id) # NoDevice
  PROVE  Find(devices, id) \in devices /\ Find(devices, id).id = id
  BY DEF Find

LEMMA MatchFinds ==
  ASSUME NEW devices \in SUBSET Device, NEW address
  PROVE  MatchByMac(devices, address) \in devices \cup {NoDevice}
  BY DEF MatchByMac, Find

LEMMA NoDeviceIsNone == NoDevice \notin Device
  BY DEF NoDevice, Device

LEMMA NewFlowOK == NewFlow \in FlowState /\ FlowOK(NewFlow)
  BY DEF NewFlow, FlowState, FlowOK, FlowStep, Chosen, NoDevice

\* A step that changes one flow, and nothing else, to a good state.
LEMMA OneFlow ==
  ASSUME IInv, NEW f \in Flows, NEW s \in FlowState, FlowOK(s),
         flow' = [flow EXCEPT ![f] = s], UNCHANGED <<entries, reauth, boardKey, reloads>>
  PROVE  IInv'
  <1>1. TypeOK'
    BY DEF IInv, TypeOK
  <1>2. \A g \in Flows : FlowOK(flow[g])'
    BY DEF IInv, TypeOK, FlowOK
  <1>3. \A b \in Boards : (EntryOK(b) /\ ReauthOK(b))'
    BY DEF IInv, EntryOK, ReauthOK
  <1> QED BY <1>1, <1>2, <1>3 DEF IInv

\* A step that changes the entry of one board, and its reauth flow.
LEMMA OneEntry ==
  ASSUME IInv, NEW b \in Boards, NEW e \in EntryData, NEW r \in ReauthState, NEW n \in Nat,
         entries[b] # NoEntry, n <= e.key, e.key <= boardKey[e.id],
         e.account # NoAccount => e.id \in Listing[e.account],
         e.account = NoAccount => e.id = b,
         r.step = "listing" => r.account \in Accounts,
         entries' = [entries EXCEPT ![b] = e], reauth' = [reauth EXCEPT ![b] = r],
         reloads' = [reloads EXCEPT ![b] = n], UNCHANGED <<flow, boardKey>>
  PROVE  IInv'
  <1>1. TypeOK'
    BY DEF IInv, TypeOK
  <1>2. \A g \in Flows : FlowOK(flow[g])'
    BY DEF IInv, TypeOK, FlowOK
  <1>3. \A c \in Boards : (EntryOK(c) /\ ReauthOK(c))'
    BY DEF IInv, TypeOK, EntryOK, ReauthOK
  <1> QED BY <1>1, <1>2, <1>3 DEF IInv

\* The end of a read that creates the entry.
LEMMA CreateOK ==
  ASSUME IInv, NEW f \in Flows, NEW account \in Accounts \cup {NoAccount}, NEW result,
         flow[f].step \in {"cloud_read", "manual_read"}, Create(f, account, result),
         account # NoAccount => flow[f].data.id \in Listing[account],
         account = NoAccount => flow[f].data.id = flow[f].address,
         UNCHANGED <<reauth, boardKey>>
  PROVE  IInv'
  <1> DEFINE b == flow[f].address
             e == [id |-> flow[f].data.id, key |-> flow[f].data.key, account |-> account,
                   read |-> result = "none"]
  <1>1. b \in Boards /\ entries[b] = NoEntry /\ flow[f].data \in Device
        /\ flow[f].data.key <= boardKey[flow[f].data.id]
    BY DEF IInv, FlowOK, Chosen, FlowStep
  <1>2. e \in EntryData
    BY <1>1 DEF EntryData, Device
  <1>3. TypeOK'
    <2>1. \A g \in Flows : flow'[g] \in FlowState
      BY NewFlowOK DEF Create, IInv, TypeOK
    <2> QED BY <1>1, <1>2, <2>1 DEF Create, IInv, TypeOK
  <1>4. \A g \in Flows : FlowOK(flow[g])'
    <2> TAKE g \in Flows
    <2>1. CASE flow[g].address = b
      BY <2>1 DEF Create, FlowOK, NewFlow, Chosen, FlowStep, NoDevice
    <2>2. CASE flow[g].address # b
      BY <1>1, <2>2 DEF Create, IInv, TypeOK, FlowOK
    <2> QED BY <2>1, <2>2
  <1>5. \A c \in Boards : (EntryOK(c) /\ ReauthOK(c))'
    <2> TAKE c \in Boards
    <2>1. CASE c = b
      BY <1>1, <1>2, <2>1 DEF Create, IInv, TypeOK, EntryOK, ReauthOK, Device
    <2>2. CASE c # b
      BY <1>1, <2>2 DEF Create, IInv, TypeOK, EntryOK, ReauthOK
    <2> QED BY <2>1, <2>2
  <1> QED BY <1>3, <1>4, <1>5 DEF IInv

-----------------------------------------------------------------------------
(* The invariant. *)

LEMMA InitIInv == Init => IInv
  BY NewFlowOK DEF Init, IInv, TypeOK, EntryOK, ReauthOK, NoReauth, ReauthState

\* The steps of a flow that adds a board.
LEMMA FlowStepIInv ==
  ASSUME IInv, NEW f \in Flows, FlowNext(f)
  PROVE  IInv'
  <1> USE DEF At, Show
  <1>0. flow[f] \in FlowState /\ FlowOK(flow[f])
    BY DEF IInv, TypeOK
  <1>1. CASE \E b \in Boards : Discover(f, b)
    <2> PICK b \in Boards : Discover(f, b)
      BY <1>1
    <2> DEFINE s == [flow[f] EXCEPT !.step = "choose_auth", !.address = b]
    <2>1. s \in FlowState /\ FlowOK(s)
      BY <1>0 DEF Discover, Configured, CurrentIds, FlowState, FlowStep, FlowOK
    <2>2. flow' = [flow EXCEPT ![f] = s]
      BY DEF Discover, IInv, TypeOK
    <2> QED BY <2>1, <2>2, OneFlow DEF Discover
  <1>2. CASE \E b \in Boards : Pick(f, b)
    <2> PICK b \in Boards : Pick(f, b)
      BY <1>2
    <2> DEFINE s == [flow[f] EXCEPT !.step = "choose_auth", !.address = b,
                                    !.discovered = {}]
    <2>1. CASE Configured(b)
      BY <2>1, NewFlowOK, OneFlow DEF Pick
    <2>2. CASE ~Configured(b)
      <3>1. s \in FlowState /\ FlowOK(s)
        BY <1>0, <2>2 DEF Configured, CurrentIds, FlowState, FlowStep, FlowOK
      <3>2. flow' = [flow EXCEPT ![f] = s]
        BY <2>2 DEF Pick, IInv, TypeOK
      <3> QED BY <3>1, <3>2, OneFlow DEF Pick
    <2> QED BY <2>1, <2>2
  <1>3. CASE AddByUser(f)
    <2> DEFINE s == [flow[f] EXCEPT !.step = "menu"]
    <2>1. s \in FlowState /\ FlowOK(s) /\ flow' = [flow EXCEPT ![f] = s]
      BY <1>0, <1>3 DEF AddByUser, FlowState, FlowStep, FlowOK, Chosen, IInv, TypeOK
    <2> QED BY <1>3, <2>1, OneFlow DEF AddByUser
  <1>4. CASE Scan(f)
    <2> PICK found \in SUBSET (Boards \ CurrentIds) :
          flow' = [flow EXCEPT ![f].step = "pick", ![f].discovered = found]
      BY <1>4 DEF Scan
    <2> DEFINE s == [flow[f] EXCEPT !.step = "pick", !.discovered = found]
    <2>1. s \in FlowState /\ FlowOK(s) /\ flow' = [flow EXCEPT ![f] = s]
      BY <1>0 DEF FlowState, FlowStep, FlowOK, Chosen, IInv, TypeOK
    <2> QED BY <1>4, <2>1, OneFlow DEF Scan
  <1>5. CASE ChooseAuth(f)
    <2> PICK step \in {"cloud", "credentials"} : flow' = [flow EXCEPT ![f].step = step]
      BY <1>5 DEF ChooseAuth
    <2> DEFINE s == [flow[f] EXCEPT !.step = step]
    <2>1. s \in FlowState /\ FlowOK(s) /\ flow' = [flow EXCEPT ![f] = s]
      BY <1>0, <1>5 DEF ChooseAuth, FlowState, FlowStep, FlowOK, Chosen, IInv, TypeOK
    <2> QED BY <1>5, <2>1, OneFlow DEF ChooseAuth
  <1>6. CASE \E a \in Accounts : LogIn(f, a)
    <2> PICK a \in Accounts : LogIn(f, a)
      BY <1>6
    <2> DEFINE s == [flow[f] EXCEPT !.step = "listing", !.asked = a, !.account = a]
    <2>1. s \in FlowState /\ FlowOK(s) /\ flow' = [flow EXCEPT ![f] = s]
      BY <1>0 DEF LogIn, KeptAccount, FlowState, FlowStep, FlowOK, Chosen, IInv, TypeOK
    <2> QED BY <2>1, OneFlow DEF LogIn
  <1>7. CASE LogInFails(f)
    <2> DEFINE s == [flow[f] EXCEPT !.step = "cloud", !.asked = NoAccount]
    <2>1. s \in FlowState /\ FlowOK(s) /\ flow' = [flow EXCEPT ![f] = s]
      BY <1>0, <1>7 DEF LogInFails, FlowState, FlowStep, FlowOK, Chosen, IInv, TypeOK
    <2> QED BY <1>7, <2>1, OneFlow DEF LogInFails
  <1>8. CASE Listed(f)
    <2> DEFINE a == flow[f].account
               devices == ListDevices(a)
               match == MatchByMac(devices, flow[f].address)
               step == IF match # NoDevice THEN "cloud_read" ELSE "cloud_pick"
               kept == IF match = NoDevice THEN devices ELSE {}
               s == [flow[f] EXCEPT !.step = step, !.asked = NoAccount, !.data = match,
                                    !.devices = kept]
    <2>1. a \in Accounts /\ flow[f].asked = a
      BY <1>0, <1>8 DEF Listed, FlowOK
    <2>2. /\ devices \in SUBSET Device
          /\ \A d \in devices : d.id \in Listing[a] /\ d.key = boardKey[d.id]
      BY <2>1, ListedDevices DEF IInv
    <2>3. match \in devices \cup {NoDevice}
      BY <2>2, MatchFinds
    <2>4. kept \in SUBSET Device /\ \A d \in kept : d.id \in Listing[a] /\ d.key = boardKey[d.id]
      BY <2>2
    <2>5. match # NoDevice =>
            match \in Device /\ match.id \in Listing[a] /\ match.key = boardKey[match.id]
      BY <2>2, <2>3
    <2>6. flow' = [flow EXCEPT ![f] = s]
      BY <1>8, <2>1 DEF Listed, IInv, TypeOK
    <2>7. \A d \in Device : boardKey[d.id] \in Int
      BY DEF IInv, TypeOK, Device
    <2> HIDE DEF devices, match, kept
    <2>8. s \in FlowState
      BY <1>0, <2>3, <2>4, <2>5 DEF FlowState, FlowStep
    <2>9. FlowOK(s)
      BY <1>0, <1>8, <2>1, <2>4, <2>5, <2>7 DEF Listed, FlowState, FlowOK, Chosen, FlowStep
    <2> QED BY <1>8, <2>6, <2>8, <2>9, OneFlow DEF Listed
  <1>9. CASE \E d \in Device : PickDevice(f, d)
    <2> PICK d \in Device : PickDevice(f, d)
      BY <1>9
    <2> DEFINE s == [flow[f] EXCEPT !.step = "cloud_read", !.devices = {}, !.data = d]
    <2>1. s \in FlowState /\ FlowOK(s) /\ flow' = [flow EXCEPT ![f] = s]
      BY <1>0 DEF PickDevice, FlowState, FlowStep, FlowOK, Chosen, IInv, TypeOK
    <2> QED BY <2>1, OneFlow DEF PickDevice
  <1>10. CASE \E d \in Device : EnterCredentials(f, d)
    <2> PICK d \in Device : EnterCredentials(f, d)
      BY <1>10
    <2> DEFINE s == [flow[f] EXCEPT !.step = "manual_read", !.data = d]
    <2>1. s \in FlowState /\ FlowOK(s) /\ flow' = [flow EXCEPT ![f] = s]
      BY <1>0 DEF EnterCredentials, FlowState, FlowStep, FlowOK, Chosen, IInv, TypeOK
    <2> QED BY <2>1, OneFlow DEF EnterCredentials
  <1>11. CASE CloudReadEnds(f)
    <2> PICK result \in Results(f) :
          IF CloudCreates(result) THEN Create(f, flow[f].account, result)
          ELSE Again(f, "cloud") /\ UNCHANGED <<entries, reloads>>
      BY <1>11 DEF CloudReadEnds
    <2>1. CASE CloudCreates(result)
      <3>1. flow[f].account \in Accounts /\ flow[f].data.id \in Listing[flow[f].account]
        BY <1>0, <1>11 DEF CloudReadEnds, FlowOK
      <3> QED BY <1>11, <2>1, <3>1, CreateOK DEF CloudReadEnds
    <2>2. CASE ~CloudCreates(result)
      <3> DEFINE s == [flow[f] EXCEPT !.step = "cloud", !.data = NoDevice]
      <3>1. s \in FlowState /\ FlowOK(s) /\ flow' = [flow EXCEPT ![f] = s]
        BY <1>0, <1>11, <2>2 DEF CloudReadEnds, Again, FlowState, FlowStep, FlowOK, Chosen, IInv, TypeOK
      <3> QED BY <1>11, <2>2, <3>1, OneFlow DEF CloudReadEnds
    <2> QED BY <2>1, <2>2
  <1>12. CASE ManualReadEnds(f)
    <2> PICK result \in Results(f) :
          IF ManualCreates(result) THEN Create(f, NoAccount, result)
          ELSE Again(f, "credentials") /\ UNCHANGED <<entries, reloads>>
      BY <1>12 DEF ManualReadEnds
    <2>1. CASE ManualCreates(result)
      <3>1. flow[f].data.id = flow[f].address
        BY <2>1 DEF ManualCreates, Results, Accepts
      <3> QED BY <1>12, <2>1, <3>1, CreateOK DEF ManualReadEnds
    <2>2. CASE ~ManualCreates(result)
      <3> DEFINE s == [flow[f] EXCEPT !.step = "credentials", !.data = NoDevice]
      <3>1. s \in FlowState /\ FlowOK(s) /\ flow' = [flow EXCEPT ![f] = s]
        BY <1>0, <1>12, <2>2 DEF ManualReadEnds, Again, FlowState, FlowStep, FlowOK, Chosen, IInv, TypeOK
      <3> QED BY <1>12, <2>2, <3>1, OneFlow DEF ManualReadEnds
    <2> QED BY <2>1, <2>2
  <1>13. CASE Close(f)
    BY <1>13, NewFlowOK, OneFlow DEF Close
  <1> QED BY <1>1, <1>2, <1>3, <1>4, <1>5, <1>6, <1>7, <1>8, <1>9, <1>10, <1>11,
             <1>12, <1>13 DEF FlowNext

\* A step that changes a reauth flow, and nothing else.
LEMMA OneReauth ==
  ASSUME IInv, NEW b \in Boards, NEW r \in ReauthState,
         r.step # "none" => entries[b] # NoEntry, r.step = "listing" => r.account \in Accounts,
         reauth' = [reauth EXCEPT ![b] = r], UNCHANGED <<flow, entries, boardKey, reloads>>
  PROVE  IInv'
  <1>1. TypeOK'
    BY DEF IInv, TypeOK
  <1>2. \A g \in Flows : FlowOK(flow[g])'
    BY DEF IInv, FlowOK
  <1>3. \A c \in Boards : (EntryOK(c) /\ ReauthOK(c))'
    BY DEF IInv, TypeOK, EntryOK, ReauthOK
  <1> QED BY <1>1, <1>2, <1>3 DEF IInv

\* The steps of reauth, of the user and of the Tuya app.
LEMMA ReauthStepIInv ==
  ASSUME IInv, NEW b \in Boards, ReauthNext(b)
  PROVE  IInv'
  <1>0. reauth[b] \in ReauthState /\ EntryOK(b) /\ ReauthOK(b)
        /\ entries[b] \in EntryData \cup {NoEntry} /\ reloads[b] \in Nat
    BY DEF IInv, TypeOK
  <1>1. CASE StartReauth(b)
    <2> DEFINE r == [step |-> IF entries[b].account = NoAccount THEN "confirm" ELSE "listing",
                     account |-> entries[b].account]
    <2>1. entries[b] \in EntryData /\ reauth' = [reauth EXCEPT ![b] = r]
      BY <1>0, <1>1 DEF StartReauth
    <2>2. r \in ReauthState /\ r.step # "none" /\ (r.step = "listing" => r.account \in Accounts)
      BY <2>1 DEF EntryData, ReauthState
    <2> QED BY <1>1, <2>1, <2>2, OneReauth DEF StartReauth
  <1>2. CASE ReauthListed(b)
    <2> DEFINE a == reauth[b].account
               device == Find(ListDevices(a), entries[b].id)
    <2>1. a \in Accounts /\ entries[b] \in EntryData
      BY <1>0, <1>2 DEF ReauthListed, ReauthOK
    <2>2. CASE Refreshes(device, entries[b])
      <3> DEFINE e == [entries[b] EXCEPT !.key = device.key, !.account = a]
      <3>1. device \in Device /\ device.id = entries[b].id /\ device.id \in Listing[a]
            /\ device.key = boardKey[device.id] /\ device.key # entries[b].key
        BY <2>1, <2>2, ListedDevices, FindFinds DEF Refreshes, IInv
      <3> HIDE DEF device
      <3>2. e \in EntryData /\ e.key = device.key /\ e.account = a /\ e.id = entries[b].id
        BY <2>1, <3>1 DEF EntryData, Device
      <3>3. entries[b].key \in Nat /\ device.key \in Nat /\ reloads[b] + 1 \in Nat
            /\ boardKey[device.id] \in Nat
        BY <1>0, <2>1, <3>1 DEF EntryData, Device
      <3>4. reloads[b] + 1 <= e.key /\ e.key <= boardKey[e.id]
        BY <1>0, <2>1, <3>1, <3>2, <3>3 DEF EntryOK
      <3>5. entries[b] # NoEntry
        BY <2>1
      <3>6. entries' = [entries EXCEPT ![b] = e] /\ reauth' = [reauth EXCEPT ![b] = NoReauth]
            /\ reloads' = [reloads EXCEPT ![b] = reloads[b] + 1]
        BY <1>2, <2>2 DEF ReauthListed, IInv, TypeOK, device
      <3>7. NoReauth \in ReauthState /\ NoReauth.step = "none"
        BY DEF NoReauth, ReauthState
      <3> QED BY <1>2, <2>1, <3>1, <3>2, <3>3, <3>4, <3>5, <3>6, <3>7, OneEntry DEF ReauthListed
    <2>3. CASE ~Refreshes(device, entries[b])
      <3> DEFINE r == [reauth[b] EXCEPT !.step = "confirm"]
      <3>1. r \in ReauthState /\ r.step = "confirm" /\ reauth' = [reauth EXCEPT ![b] = r]
        BY <1>0, <1>2, <2>3 DEF ReauthListed, ReauthState, IInv, TypeOK
      <3> QED BY <1>2, <2>1, <2>3, <3>1, OneReauth DEF ReauthListed
    <2> QED BY <2>2, <2>3
  <1>3. CASE ReauthFails(b)
    <2> DEFINE r == [reauth[b] EXCEPT !.step = "confirm"]
    <2>1. r \in ReauthState /\ r.step = "confirm" /\ reauth' = [reauth EXCEPT ![b] = r]
      BY <1>0, <1>3 DEF ReauthFails, ReauthState, IInv, TypeOK
    <2> QED BY <1>0, <1>3, <2>1, OneReauth DEF ReauthFails, ReauthOK
  <1>4. CASE CloseReauth(b)
    BY <1>4, OneReauth DEF CloseReauth, NoReauth, ReauthState
  <1>5. CASE \E a \in Accounts : ConfirmReauth(b, a)
    <2> PICK a \in Accounts : ConfirmReauth(b, a)
      BY <1>5
    <2> DEFINE r == [step |-> "listing", account |-> a]
    <2>1. r \in ReauthState /\ entries[b] # NoEntry
      BY <1>0 DEF ConfirmReauth, ReauthState, ReauthOK
    <2> QED BY <2>1, OneReauth DEF ConfirmReauth
  <1>6. CASE Remove(b)
    <2>1. TypeOK'
      BY <1>6 DEF Remove, IInv, TypeOK, NoReauth, ReauthState
    <2>2. \A g \in Flows : FlowOK(flow[g])'
      BY <1>6 DEF Remove, IInv, TypeOK, FlowOK
    <2>3. \A c \in Boards : (EntryOK(c) /\ ReauthOK(c))'
      BY <1>6 DEF Remove, IInv, TypeOK, EntryOK, ReauthOK, NoReauth
    <2> QED BY <2>1, <2>2, <2>3 DEF IInv
  <1>7. CASE PairAnew(b)
    <2>1. TypeOK'
      BY <1>7 DEF PairAnew, IInv, TypeOK
    <2>2. \A c \in Boards : boardKey[c] \in Nat /\ boardKey'[c] \in Nat /\ boardKey[c] <= boardKey'[c]
      BY <1>7 DEF PairAnew, IInv, TypeOK
    <2>3. \A g \in Flows : FlowOK(flow[g])'
      <3> TAKE g \in Flows
      <3>1. flow[g] \in FlowState /\ FlowOK(flow[g]) /\ flow'[g] = flow[g] /\ entries' = entries
        BY <1>7 DEF PairAnew, IInv, TypeOK
      <3>2. \A d \in Device : d.key <= boardKey[d.id] => d.key <= boardKey'[d.id]
        BY <2>2 DEF Device
      <3>3. flow[g].devices \subseteq Device
        BY <3>1 DEF FlowState
      <3> QED BY <3>1, <3>2, <3>3 DEF FlowOK
    <2>4. \A c \in Boards : (EntryOK(c) /\ ReauthOK(c))'
      <3> TAKE c \in Boards
      <3>1. entries[c] # NoEntry =>
              entries[c].id \in Boards /\ entries[c].key \in Nat /\ entries[c].key <= boardKey[entries[c].id]
        BY DEF IInv, TypeOK, EntryOK, EntryData
      <3>2. entries[c] # NoEntry => entries[c].key <= boardKey'[entries[c].id]
        BY <2>2, <3>1
      <3> QED BY <1>7, <3>2 DEF PairAnew, IInv, EntryOK, ReauthOK
    <2> QED BY <2>1, <2>3, <2>4 DEF IInv
  <1> QED BY <1>1, <1>2, <1>3, <1>4, <1>5, <1>6, <1>7 DEF ReauthNext

\* Nothing that happens breaks the invariant.
LEMMA StepIInv == IInv /\ [Next]_vars => IInv'
  <1> SUFFICES ASSUME IInv, [Next]_vars PROVE IInv'
    OBVIOUS
  <1>1. CASE Next
    BY <1>1, FlowStepIInv, ReauthStepIInv DEF Next
  <1>2. CASE UNCHANGED vars
    BY <1>2 DEF vars, IInv, TypeOK, FlowOK, EntryOK, ReauthOK
  <1> QED BY <1>1, <1>2

LEMMA Invariance == Spec => []IInv
  BY InitIInv, StepIInv, PTL DEF Spec

-----------------------------------------------------------------------------
(* The results. *)

\* Every variable keeps its type: an entry has a board's key, never the missing
\* one of a device that was not found (config_flow.py:332-346).
THEOREM TypeCorrect == Spec => []TypeOK
  <1>1. IInv => TypeOK
    BY DEF IInv
  <1> QED BY <1>1, Invariance, PTL

\* Each reload of an entry by reauth is paid for by a new key of its board, so
\* reauth does not reload in a loop (config_flow.py:338-346).
THEOREM ReloadsPaid == Spec => []NoReloadLoop
  <1>1. IInv => NoReloadLoop
    BY DEF IInv, NoReloadLoop, CurrentIds, EntryOK
  <1> QED BY <1>1, Invariance, PTL

\* The account kept in an entry lists the device of the entry, after any logins,
\* refusals and reauths (config_flow.py:161-165, 343-346).
THEOREM AccountLists == Spec => []AccountListsDevice
  <1>1. IInv => AccountListsDevice
    BY DEF IInv, AccountListsDevice, CurrentIds, EntryOK
  <1> QED BY <1>1, Invariance, PTL

\* What was entered by hand is of the board the entry is for, because only a
\* read of that board lets the entry be created (config_flow.py:270-275).
THEOREM ManualChecked == Spec => []ManualIsOwnBoard
  <1>1. IInv => ManualIsOwnBoard
    BY DEF IInv, ManualIsOwnBoard, CurrentIds, EntryOK
  <1> QED BY <1>1, Invariance, PTL

\* No flow overwrites the entry of a board: an entry changes by its reauth only,
\* and stays that of its device (config_flow.py:72, 129-130, 346).
THEOREM Unreplaced == Spec => NeverReplaced
  <1> DEFINE Kept(b) ==
        {entries[b], entries'[b]} \subseteq EntryData /\ entries'[b] # entries[b] =>
          reauth[b].step = "listing" /\ entries'[b].id = entries[b].id
  <1>1. IInv /\ [Next]_vars => [\A b \in Boards : Kept(b)]_vars
    <2> SUFFICES ASSUME IInv, Next, NEW b \in Boards PROVE Kept(b)
      BY DEF vars
    <2>1. ASSUME NEW f \in Flows, FlowNext(f) PROVE Kept(b)
      <3>1. CASE CloudReadEnds(f) \/ ManualReadEnds(f)
        <4>1. entries[flow[f].address] = NoEntry /\ flow[f].address \in Boards
          BY <3>1 DEF CloudReadEnds, ManualReadEnds, At, IInv, FlowOK, Chosen, FlowStep
        <4>2. b # flow[f].address => entries'[b] = entries[b]
          BY <3>1, <4>1 DEF CloudReadEnds, ManualReadEnds, Create, IInv, TypeOK
        <4> QED BY <4>1, <4>2
      <3>2. CASE UNCHANGED entries
        BY <3>2
      <3> QED BY <2>1, <3>1, <3>2 DEF FlowNext, Discover, Pick, AddByUser, Scan, ChooseAuth,
            LogIn, LogInFails, Listed, PickDevice, EnterCredentials, Close
    <2>2. ASSUME NEW c \in Boards, ReauthNext(c) PROVE Kept(b)
      <3>1. CASE Remove(c)
        BY <3>1 DEF Remove, IInv, TypeOK
      <3>2. CASE ReauthListed(c)
        BY <3>2 DEF ReauthListed, IInv, TypeOK, EntryData
      <3>3. CASE UNCHANGED entries
        BY <3>3
      <3> QED BY <2>2, <3>1, <3>2, <3>3 DEF ReauthNext, StartReauth, ReauthFails, CloseReauth,
            ConfirmReauth, PairAnew
    <2> QED BY <2>1, <2>2 DEF Next
  <1> QED BY <1>1, Invariance, PTL DEF Spec, NeverReplaced

=============================================================================
