---------------------------- MODULE AnswersProofs ----------------------------
(***************************************************************************)
(* Proofs about the answers of TuyaBLEDevice, for any number of spawned    *)
(* tasks, attempts, faults and reports: as long as the read lasts and no   *)
(* _reconnect restarts the numbers while one is in use, no two requests    *)
(* share a number, so that an answer meets the request it answers, and     *)
(* what the read makes of the answers is what the board said.              *)
(***************************************************************************)
EXTENDS TuyaBLEDeviceProofs

Settling == {"settle", "stopping", "stop_notify", "disconnecting"}

\* What the coroutine a task runs tells of its place and its request.
Role(t) ==
  /\ job[t] = "read" <=> t = Reader
  /\ pc[t] \in Settling \cup {"done"} => t = Reader
  /\ pc[t] = "idle" => t # Reader
  /\ call[t].req = "status" => t = Reader
  /\ call[t].req \in {"resend", "response"} => t # Reader
  /\ pc[t] = "await" => Asks(t)
  /\ Asks(t) => pc[t] \in {"write", "await"}
  /\ pc[t] = "write" => call[t].req # "none"

Roles ==
  /\ \A t \in Tasks : Role(t)
  /\ outcome = "running" <=> pc[Reader] # "done"

\* The numbers under way are below the next one, and each is one request's.
Numbers ==
  /\ \A t \in Tasks : Asks(t) => call[t].seq \in 1..(seqNum - 1)
  /\ \A i \in 1..Len(air) : air[i].to < seqNum
  /\ \A t, u \in Tasks :
       Asks(t) /\ Asks(u) /\ call[t].seq = call[u].seq => t = u
Match ==
  \A t \in Tasks : \A i \in 1..Len(air) :
    Asks(t) /\ air[i].to = call[t].seq => air[i].code = call[t].req

Granted == [req |-> "pair", result |-> 0] \in answered
Refused == [req |-> "status", result |-> 1] \in answered

\* What is in flight was answered, and the pairing was granted.
Genuine ==
  /\ \A i \in 1..Len(air) : air[i].code # "report" =>
       [req |-> air[i].code, result |-> air[i].result] \in answered
  /\ paired => Granted

\* What a request was told, the board said; who is past the pairing had it.
Earned ==
  /\ \A t \in Tasks :
       /\ call[t].req = "pair" /\ call[t].reply = "ok" => Granted
       /\ call[t].req = "status" => Granted
       /\ call[t].req = "status" /\ call[t].reply = "error" => Refused
  /\ pc[Reader] \in Settling => Granted

Fresh == outcome = "running" /\ ~reused
Claims == ReturnsOnlyPaired /\ TuyaErrorOnlyFromStatus

AnswersInv ==
  /\ Roles /\ Genuine
  /\ Fresh => Numbers /\ Match /\ Earned
  /\ Claims

LEMMA ReaderTask == Reader \in Tasks
BY DEF Tasks

-----------------------------------------------------------------------------
(* Roles. *)

\* A handler that moves t and touches no other task's call keeps the others'.
LEMMA RoleOthers ==
  ASSUME TypeOK, Roles, NEW t \in Tasks, NEW p, Goto(t, p),
         UNCHANGED call \/ \E c : call' = [call EXCEPT ![t] = c]
  PROVE  /\ \A u \in Tasks : u # t => Role(u)' /\ pc'[u] = pc[u]
         /\ pc'[t] = p
         /\ p # "idle" => job'[t] = job[t]
         /\ p = "idle" => job'[t] = "none"
<1>1. pc'[t] = p /\ (p # "idle" => job'[t] = job[t])
      /\ (p = "idle" => job'[t] = "none")
  BY DEF TypeOK, Goto
<1>2. ASSUME NEW u \in Tasks, u # t PROVE Role(u)' /\ pc'[u] = pc[u]
  <2>1. pc'[u] = pc[u] /\ job'[u] = job[u] /\ call'[u] = call[u]
    BY <1>2 DEF TypeOK, Goto
  <2>2. Role(u)
    BY DEF Roles
  <2> QED BY <2>1, <2>2 DEF Role, Asks
<1> QED BY <1>1, <1>2

\* Then it keeps Roles if t itself fits its place.
LEMMA RolesMoved ==
  ASSUME TypeOK, Roles, NEW t \in Tasks, NEW p, Goto(t, p),
         UNCHANGED call \/ \E c : call' = [call EXCEPT ![t] = c],
         p # "idle" \/ t # Reader,
         p \in Settling \cup {"done"} => t = Reader,
         p = "await" => Asks(t)',
         Asks(t)' => p \in {"write", "await"},
         p = "write" => call'[t].req # "none",
         call'[t].req = "status" => t = Reader,
         call'[t].req \in {"resend", "response"} => t # Reader,
         p = "done" => outcome' # "running",
         p # "done" => UNCHANGED outcome,
         pc[t] # "done"
  PROVE  Roles'
<1>1. /\ \A u \in Tasks : u # t => Role(u)' /\ pc'[u] = pc[u]
      /\ pc'[t] = p
      /\ p # "idle" => job'[t] = job[t]
      /\ p = "idle" => job'[t] = "none"
  BY RoleOthers
<1>2. Role(t)'
  <2>1. job'[t] = "read" <=> t = Reader
    BY <1>1 DEF Roles, Role
  <2> QED BY <1>1, <2>1 DEF Role
<1>3. outcome' = "running" <=> pc'[Reader] # "done"
  <2>1. CASE t = Reader
    BY <1>1, <2>1 DEF Roles
  <2>2. CASE t # Reader
    <3>1. p # "done" /\ pc'[Reader] = pc[Reader]
      BY <1>1, <2>2, ReaderTask
    <3> QED BY <3>1 DEF Roles
  <2> QED BY <2>1, <2>2
<1> QED BY <1>1, <1>2, <1>3 DEF Roles

\* A task that neither writes nor waits has nothing to ask.
LEMMA PlaceCall ==
  ASSUME TypeOK, Roles, NEW t \in Tasks, pc[t] \notin {"write", "await"}
  PROVE  ~Asks(t)
BY DEF Roles, Role

LEMMA NoCallReq == NoCall.req = "none" /\ NoCall.reply = "none"
                   /\ ResendCall.req = "resend" /\ ResendCall.reply = "none"
BY DEF NoCall, ResendCall

\* A step that sends nothing and leaves t to neither write nor wait.
LEMMA RolesIdle ==
  ASSUME TypeOK, Roles, NEW t \in Tasks, NEW p, Goto(t, p),
         \/ UNCHANGED call /\ pc[t] \notin {"write", "await"}
         \/ call' = [call EXCEPT ![t] = NoCall],
         p \notin {"write", "await"},
         p # "idle" \/ t # Reader,
         p \in Settling \cup {"done"} => t = Reader,
         p = "done" => outcome' # "running",
         p # "done" => UNCHANGED outcome,
         pc[t] # "done"
  PROVE  Roles'
<1>1. UNCHANGED call \/ \E c : call' = [call EXCEPT ![t] = c]
  OBVIOUS
<1>2. /\ ~Asks(t)'
      /\ call'[t].req = "status" => t = Reader
      /\ call'[t].req \in {"resend", "response"} => t # Reader
  <2>1. CASE UNCHANGED call /\ pc[t] \notin {"write", "await"}
    <3>1. ~Asks(t) /\ Role(t)
      BY <2>1, PlaceCall DEF Roles
    <3> QED BY <2>1, <3>1 DEF Asks, Role
  <2>2. CASE call' = [call EXCEPT ![t] = NoCall]
    <3>1. call'[t].req = "none"
      BY <2>2, NoCallReq DEF TypeOK
    <3> QED BY <3>1 DEF Asks, Handshake
  <2> QED BY <2>1, <2>2
<1> QED BY <1>1, <1>2, RolesMoved

\* A failed attempt.
LEMMA RolesLoop ==
  ASSUME TypeOK, Roles, NEW t \in Tasks, LoopAgain(t), Goto(t, LoopTo(t)),
         \/ UNCHANGED call /\ pc[t] \notin {"write", "await"}
         \/ call' = [call EXCEPT ![t] = NoCall],
         pc[t] # "done"
  PROVE  Roles'
<1>1. job[t] = "read" <=> t = Reader
  BY DEF Roles, Role
<1>2. /\ LoopTo(t) = "idle" => t # Reader
      /\ LoopTo(t) \in Settling \cup {"done"} => t = Reader
      /\ LoopTo(t) \notin {"await", "write"}
      /\ LoopTo(t) = "done" => outcome' # "running"
      /\ LoopTo(t) # "done" => UNCHANGED outcome
  BY <1>1 DEF LoopTo, LoopAgain, Settling
<1> HIDE DEF LoopTo
<1> QED BY <1>2, RolesIdle

\* A step that sends r, or sends built packets again.
LEMMA RolesSend ==
  ASSUME TypeOK, Roles, NEW t \in Tasks, NEW r, NEW futures,
         Send(t, r, futures) \/ (r = "resend" /\ SendAgain(t, futures)),
         Goto(t, "write"), UNCHANGED outcome, pc[t] # "done",
         r # "none", r = "status" => t = Reader,
         r \in {"resend", "response"} => t # Reader
  PROVE  Roles'
<1>1. call'[t].req = r
  BY NoCallReq DEF Send, SendAgain, TypeOK
<1>2. \E c : call' = [call EXCEPT ![t] = c]
  BY DEF Send, SendAgain
<1> QED BY <1>1, <1>2, RolesMoved DEF Settling

LEMMA RolesProceed ==
  ASSUME TypeOK, Roles, NEW t \in Tasks, NEW futures, Proceed(t, futures),
         UNCHANGED outcome, pc[t] # "done"
  PROVE  Roles'
<1>0. job[t] = "read" <=> t = Reader
  BY DEF Roles, Role
<1>1. CASE /\ job[t] = "read"
           /\ Send(t, "status", futures) /\ Goto(t, "write")
  BY <1>0, <1>1, RolesSend
<1>2. CASE /\ job[t] = "resend"
           /\ SendAgain(t, futures) /\ Goto(t, "write")
  BY <1>0, <1>2, RolesSend
<1>3. CASE /\ job[t] \in {"reconnect", "resend"}
           /\ Goto(t, "idle") /\ call' = [call EXCEPT ![t] = NoCall]
  BY <1>0, <1>3, RolesIdle DEF Settling
<1> QED BY <1>1, <1>2, <1>3 DEF Proceed

\* Spawned tasks come from the idle ones, and none is a reader.
LEMMA SpawnRoles ==
  ASSUME TypeOK, Roles, NEW n, NEW j \in {"reconnect", "resend", "response"},
         NEW locations \in [Tasks -> Locations], Spawn(n, j, locations),
         NEW u \in Tasks, locations[u] = pc[u],
         call'[u].req = call[u].req
  PROVE  Role(u)' /\ (u = Reader => pc'[u] = pc[u])
<1>1. Role(u) /\ (pc[u] = "idle" => ~Asks(u))
  BY PlaceCall DEF Roles
<1>2. Asks(u)' <=> Asks(u)
  BY DEF Asks
<1>3. CASE pc[u] # "idle"
  <2>1. pc'[u] = pc[u] /\ job'[u] = job[u]
    BY <1>3 DEF Spawn
  <2> QED BY <1>1, <1>2, <2>1 DEF Role
<1>4. CASE pc[u] = "idle"
  <2>1. u # Reader /\ pc'[u] \in {"idle", "start"} /\ job'[u] # "read"
    BY <1>1, <1>4 DEF Spawn, Role
  <2> QED BY <1>1, <1>2, <1>4, <2>1 DEF Role, Settling
<1> QED BY <1>3, <1>4

LEMMA RolesWriteFails ==
  ASSUME TypeOK, Roles, NEW t \in Tasks, WriteFails(t)
  PROVE  Roles'
<1> DEFINE inLoop == call[t].req \in Handshake
           p == IF inLoop THEN LoopTo(t) ELSE AfterError(t)
           n == IF Connected /\ paired /\ ~expected THEN 2 ELSE 1
           j == IF paired' THEN "resend" ELSE "reconnect"
           locations == [pc EXCEPT ![t] = p]
<1>1. /\ Spawn(n, j, locations) /\ pc[t] = "write"
      /\ call' = [call EXCEPT ![t] = NoCall]
      /\ IF inLoop THEN LoopAgain(t)
         ELSE outcome' = IF job[t] = "read" THEN "BleakError" ELSE outcome
  BY DEF WriteFails
<1>2. job[t] = "read" <=> t = Reader
  BY DEF Roles, Role
<1>3. /\ p = "idle" => t # Reader
      /\ p \in Settling \cup {"done"} => t = Reader
      /\ p \notin {"await", "write"}
      /\ p = "done" => outcome' # "running"
      /\ p # "done" => UNCHANGED outcome
      /\ p \in Locations
  BY <1>1, <1>2 DEF LoopTo, LoopAgain, AfterError, Settling, Locations
<1>4. locations \in [Tasks -> Locations] /\ locations[t] = p
      /\ \A u \in Tasks : u # t => locations[u] = pc[u]
  <2> HIDE DEF p
  <2> QED BY <1>3 DEF TypeOK
<1>5. j \in {"reconnect", "resend", "response"}
  OBVIOUS
<1>6. ASSUME NEW u \in Tasks, u # t
      PROVE  Role(u)' /\ (u = Reader => pc'[u] = pc[u])
  <2>1. call'[u].req = call[u].req
    BY <1>1, <1>6 DEF TypeOK
  <2> HIDE DEF n, j, locations
  <2> QED BY <1>1, <1>4, <1>5, <1>6, <2>1, SpawnRoles
<1>7. Role(t)' /\ (t = Reader => pc'[t] = p)
  <2>1. call'[t].req = "none"
    BY <1>1, NoCallReq DEF TypeOK
  <2>2. ~Asks(t)'
    BY <2>1 DEF Asks, Handshake
  <2>3. CASE p # "idle"
    <3>1. pc'[t] = p /\ job'[t] = job[t]
      <4> HIDE DEF n, j, p, locations
      <4> QED BY <1>1, <1>4, <2>3 DEF Spawn
    <3> HIDE DEF p
    <3> QED BY <1>2, <1>3, <2>1, <2>2, <2>3, <3>1 DEF Role
  <2>4. CASE p = "idle"
    <3>1. pc'[t] \in {"idle", "start"} /\ job'[t] \in {j, "none"}
      <4> HIDE DEF n, j, p, locations
      <4> QED BY <1>1, <1>4, <2>4 DEF Spawn
    <3>2. t # Reader /\ job'[t] # "read"
      BY <1>3, <2>4, <3>1
    <3> HIDE DEF p, j
    <3> QED BY <2>1, <2>2, <3>1, <3>2 DEF Role, Settling
  <2> QED BY <2>3, <2>4
<1>8. outcome' = "running" <=> pc'[Reader] # "done"
  <2>1. CASE t = Reader
    <3>1. outcome = "running"
      BY <1>1, <2>1 DEF Roles
    <3> HIDE DEF p
    <3> QED BY <1>3, <1>7, <2>1, <3>1
  <2>2. CASE t # Reader
    <3>1. pc'[Reader] = pc[Reader]
      BY <1>6, <2>2, ReaderTask
    <3>2. UNCHANGED outcome
      <4> HIDE DEF p
      <4> QED BY <1>3, <2>2
    <3> QED BY <3>1, <3>2 DEF Roles
  <2> QED BY <2>1, <2>2
<1> HIDE DEF p
<1> QED BY <1>6, <1>7, <1>8 DEF Roles

LEMMA RolesSettle ==
  ASSUME TypeOK, Roles, NEW t \in Tasks,
         \/ StatusAnswered(t) \/ SettleEnds(t) \/ StopLocked(t)
         \/ StopsNotify(t) \/ Disconnects(t) \/ StopFails(t)
  PROVE  Roles'
<1>1. CASE StatusAnswered(t)
  <2>1. t = Reader
    BY <1>1 DEF StatusAnswered, Roles, Role
  <2> QED BY <1>1, <2>1, RolesIdle DEF StatusAnswered, Settling
<1>2. CASE SettleEnds(t) \/ StopLocked(t)
  <2>1. pc[t] \in Settling /\ t = Reader
    BY <1>2 DEF SettleEnds, StopLocked, Settling, Roles, Role
  <2>2. CASE /\ Goto(t, "stopping") /\ UNCHANGED <<outcome, call>>
    BY <2>1, <2>2, RolesIdle DEF Settling
  <2>3. ASSUME NEW q, NEW shot, ExecuteDisconnect(t, q, shot), UNCHANGED call
        PROVE  Roles'
    <3>1. CASE Goto(t, "stop_notify") /\ UNCHANGED outcome
      BY <2>1, <2>3, <3>1, RolesIdle DEF Settling
    <3>2. CASE Goto(t, "done") /\ outcome' # "running"
      BY <2>1, <2>3, <3>2, RolesIdle DEF Settling
    <3> QED BY <2>3, <3>1, <3>2, EndingType DEF ExecuteDisconnect
  <2> QED BY <1>2, <2>2, <2>3 DEF SettleEnds, StopLocked
<1>3. CASE StopsNotify(t) \/ Disconnects(t) \/ StopFails(t)
  <2>1. pc[t] \in Settling /\ t = Reader
    BY <1>3 DEF StopsNotify, Disconnects, StopFails, Settling, Roles, Role
  <2> QED BY <1>3, <2>1, RolesIdle, EndingType
          DEF StopsNotify, Disconnects, StopFails, Settling
<1> QED BY <1>1, <1>2, <1>3

LEMMA RolesTask ==
  ASSUME TypeOK, Roles, NEW t \in Tasks, TaskStep(t)
  PROVE  Roles'
<1>0. /\ job[t] = "read" <=> t = Reader
      /\ pc[t] = "await" => Asks(t)
      /\ pc[t] = "write" => call[t].req # "none"
      /\ call[t].req = "status" => t = Reader
  BY DEF Roles, Role
<1>1. CASE StartQueues(t) \/ StartGivesUp(t) \/ RecheckConnects(t)
           \/ Connects(t) \/ BacksOff(t)
  BY <1>0, <1>1, RolesIdle DEF StartQueues, StartGivesUp, RecheckConnects,
     Connects, BacksOff, Settling
<1>2. CASE StartSends(t)
  BY <1>0, <1>2, RolesSend DEF StartSends
<1>3. CASE RecheckReady(t) \/ PairAnswered(t)
  BY <1>3, RolesProceed DEF RecheckReady, PairAnswered, Accepted
<1>4. CASE ConnectFails(t) \/ NotifyFails(t) \/ HandshakeRefused(t)
  BY <1>4, RolesLoop DEF ConnectFails, NotifyFails, HandshakeRefused
<1>5. CASE Notifies(t) \/ InfoAnswered(t)
  BY <1>5, RolesLoop, RolesSend DEF Notifies, InfoAnswered, Accepted
<1>6. CASE Written(t)
  <2>1. CASE call[t].req \in {"resend", "response"}
    <3>1. Goto(t, "idle") /\ call' = [call EXCEPT ![t] = NoCall]
          /\ UNCHANGED outcome /\ pc[t] = "write"
      BY <1>6, <2>1 DEF Written
    <3>2. t # Reader
      BY <2>1 DEF Roles, Role
    <3> QED BY <3>1, <3>2, RolesIdle DEF Settling
  <2>2. CASE call[t].req \notin {"resend", "response"}
    <3>1. Goto(t, "await") /\ UNCHANGED <<call, outcome>> /\ pc[t] = "write"
      BY <1>6, <2>2 DEF Written
    <3>2. Asks(t) /\ Asks(t)'
      <4>1. call[t].req \in Requests
        BY DEF TypeOK, Calls
      <4>2. call[t].req \in Handshake \cup {"status"}
        BY <1>0, <2>2, <3>1, <4>1 DEF Requests
      <4> QED BY <3>1, <4>2 DEF Asks
    <3>3. call'[t].req \notin {"resend", "response"}
      BY <2>2, <3>1
    <3>4. call'[t].req = "status" => t = Reader
      BY <1>0, <3>1
    <3> QED BY <3>1, <3>2, <3>3, <3>4, RolesMoved DEF Settling
  <2> QED BY <2>1, <2>2
<1>7. CASE WriteFails(t)
  BY <1>7, RolesWriteFails
<1>8. CASE TimesOut(t)
  <2>1. /\ call' = [call EXCEPT ![t] = NoCall] /\ pc[t] = "await"
        /\ \/ /\ call[t].req \in Handshake
              /\ LoopAgain(t) /\ Goto(t, LoopTo(t))
           \/ /\ call[t].req \notin Handshake
              /\ Goto(t, "settle") /\ UNCHANGED outcome
    BY <1>8 DEF TimesOut, Unanswered
  <2>2. call[t].req \notin Handshake => t = Reader
    BY <1>0, <2>1 DEF Asks
  <2> QED BY <2>1, <2>2, RolesLoop, RolesIdle
<1>9. CASE \/ StatusAnswered(t) \/ SettleEnds(t) \/ StopLocked(t)
           \/ StopsNotify(t) \/ Disconnects(t) \/ StopFails(t)
  BY <1>9, RolesSettle
<1> QED BY <1>1, <1>2, <1>3, <1>4, <1>5, <1>6, <1>7, <1>8, <1>9 DEF TaskStep

LEMMA RolesSpawned ==
  ASSUME TypeOK, Roles, NEW n, NEW j \in {"reconnect", "resend", "response"},
         Spawn(n, j, pc), \A u \in Tasks : call'[u].req = call[u].req,
         UNCHANGED outcome
  PROVE  Roles'
<1>1. pc \in [Tasks -> Locations]
  BY DEF TypeOK
<1>2. \A u \in Tasks : Role(u)' /\ (u = Reader => pc'[u] = pc[u])
  BY <1>1, SpawnRoles
<1> QED BY <1>2, ReaderTask DEF Roles

-----------------------------------------------------------------------------
(* Numbers. *)

\* What u asks, and by which number, stays.
SameRequest(u) == call'[u].req = call[u].req /\ call'[u].seq = call[u].seq

\* Requests end, answers arrive or are lost, nothing new is numbered.
LEMMA NumbersShrink ==
  ASSUME TypeOK, Numbers, Match, UNCHANGED seqNum,
         \A u \in Tasks : SameRequest(u) \/ ~Asks(u)',
         \/ air' \in {air, <<>>}
         \/ air # <<>> /\ air' = Tail(air)
  PROVE  Numbers' /\ Match'
<1>1. \A u \in Tasks : Asks(u)' => Asks(u) /\ call'[u].req = call[u].req
                                   /\ call'[u].seq = call[u].seq
  BY DEF SameRequest, Asks
<1>2. \A i \in 1..Len(air') : \E k \in 1..Len(air) : air'[i] = air[k]
  <2>1. CASE air' = air
    BY <2>1
  <2>2. CASE air' = <<>>
    BY <2>2
  <2>3. CASE air # <<>> /\ air' = Tail(air)
    <3>1. air \in Seq(Message)
      BY DEF TypeOK
    <3>2. \A i \in 1..Len(air') : i + 1 \in 1..Len(air) /\ air'[i] = air[i + 1]
      BY <2>3, <3>1
    <3> QED BY <3>2
  <2> QED BY <2>1, <2>2, <2>3
<1>3. Numbers'
  <2>1. \A u \in Tasks : Asks(u)' => call'[u].seq \in 1..(seqNum' - 1)
    BY <1>1 DEF Numbers
  <2>2. \A i \in 1..Len(air') : air'[i].to < seqNum'
    BY <1>2 DEF Numbers
  <2>3. \A u, v \in Tasks :
          Asks(u)' /\ Asks(v)' /\ call'[u].seq = call'[v].seq => u = v
    BY <1>1 DEF Numbers
  <2> QED BY <2>1, <2>2, <2>3 DEF Numbers
<1>4. Match'
  <2> SUFFICES ASSUME NEW u \in Tasks, NEW i \in 1..Len(air'), Asks(u)',
                      air'[i].to = call'[u].seq
               PROVE  air'[i].code = call'[u].req
    BY DEF Match
  <2>1. PICK k \in 1..Len(air) : air'[i] = air[k]
    BY <1>2
  <2> QED BY <1>1, <2>1 DEF Match
<1> QED BY <1>3, <1>4

\* A request sent takes a number nobody has.
LEMMA NumbersSend ==
  ASSUME TypeOK, Numbers, Match, NEW t \in Tasks, NEW r, NEW futures,
         Send(t, r, futures), UNCHANGED air
  PROVE  Numbers' /\ Match'
<1>1. /\ call'[t].seq = seqNum /\ seqNum' = seqNum + 1 /\ seqNum \in Nat \ {0}
      /\ \A u \in Tasks : u # t => call'[u] = call[u]
  BY DEF Send, TypeOK
<1>2. \A u \in Tasks : u # t /\ Asks(u)' => Asks(u) /\ call'[u] = call[u]
  BY <1>1 DEF Asks
<1>3. \A i \in 1..Len(air) : air[i].to \in Nat
  <2>1. \A i \in 1..Len(air) : air[i] \in Message
    BY DEF TypeOK
  <2> QED BY <2>1 DEF Message
<1>4. \A u \in Tasks : Asks(u) => call[u].seq \in 1..(seqNum - 1)
  BY DEF Numbers
<1>5. Numbers'
  <2>1. \A u \in Tasks : Asks(u)' => call'[u].seq \in 1..(seqNum' - 1)
    <3> SUFFICES ASSUME NEW u \in Tasks, Asks(u)'
                 PROVE  call'[u].seq \in 1..(seqNum' - 1)
      OBVIOUS
    <3>1. CASE u = t
      BY <1>1, <3>1
    <3>2. CASE u # t
      BY <1>1, <1>2, <1>4, <3>2
    <3> QED BY <3>1, <3>2
  <2>2. \A i \in 1..Len(air') : air'[i].to < seqNum'
    BY <1>1, <1>3 DEF Numbers
  <2>3. ASSUME NEW u \in Tasks, NEW v \in Tasks, Asks(u)', Asks(v)',
               call'[u].seq = call'[v].seq
        PROVE  u = v
    <3>1. CASE u # t /\ v # t
      BY <1>2, <2>3, <3>1 DEF Numbers
    <3>2. CASE u = t /\ v # t
      BY <1>1, <1>2, <1>4, <2>3, <3>2
    <3>3. CASE u # t /\ v = t
      BY <1>1, <1>2, <1>4, <2>3, <3>3
    <3> QED BY <3>1, <3>2, <3>3
  <2> QED BY <2>1, <2>2, <2>3 DEF Numbers
<1>6. Match'
  <2> SUFFICES ASSUME NEW u \in Tasks, NEW i \in 1..Len(air), Asks(u)',
                      air[i].to = call'[u].seq
               PROVE  air[i].code = call'[u].req
    BY DEF Match
  <2>1. u # t
    BY <1>1, <1>3 DEF Numbers
  <2> QED BY <1>2, <2>1 DEF Match
<1> QED BY <1>5, <1>6

\* _reconnect restarts the numbers while none is in use.
LEMMA NumbersAnew ==
  ASSUME TypeOK, Numbers, Match, NEW t \in Tasks, Renumber(t), ~reused',
         UNCHANGED <<call, air>>
  PROVE  Numbers' /\ Match'
<1>1. CASE seqNum' = seqNum
  <2>1. \A u \in Tasks : SameRequest(u)
    BY DEF SameRequest
  <2> QED BY <1>1, <2>1, NumbersShrink
<1>2. CASE seqNum' = 1 /\ ~InUse
  <2>1. \A u \in Tasks : ~Asks(u)
    BY <1>2 DEF InUse
  <2>2. \A u \in Tasks : ~Asks(u)'
    BY <2>1 DEF Asks
  <2>3. \A i \in 1..Len(air) : air[i].to = 0
    BY <1>2 DEF InUse
  <2>4. \A i \in 1..Len(air') : air'[i].to < seqNum'
    BY <1>2, <2>3
  <2> QED BY <2>2, <2>4 DEF Numbers, Match
<1> QED BY <1>1, <1>2 DEF Renumber

\* The answer carries the number and the code of the request it answers.
LEMMA NumbersWritten ==
  ASSUME TypeOK, Roles, Numbers, Match, NEW t \in Tasks, Written(t)
  PROVE  Numbers' /\ Match'
<1>0. UNCHANGED seqNum /\ Reacts(t, call[t].req)
  BY DEF Written
<1>1. \A u \in Tasks : SameRequest(u) \/ ~Asks(u)'
  <2>1. CASE UNCHANGED call
    BY <2>1 DEF SameRequest
  <2>2. CASE call' = [call EXCEPT ![t] = NoCall]
    <3>1. call'[t].req = "none" /\ \A u \in Tasks : u # t => call'[u] = call[u]
      BY <2>2, NoCallReq DEF TypeOK
    <3> QED BY <3>1 DEF SameRequest, Asks, Handshake
  <2> QED BY <2>1, <2>2 DEF Written
<1>2. CASE UNCHANGED air
  BY <1>0, <1>1, <1>2, NumbersShrink
<1>3. CASE ~UNCHANGED air
  <2>1. PICK result \in {0, 1} :
          /\ CanServe(call[t].req)
          /\ air' = Append(air, [code |-> call[t].req, to |-> call[t].seq,
                                 result |-> result, dps |-> {}, ack |-> FALSE])
    BY <1>0, <1>3 DEF Reacts
  <2>2. Asks(t) /\ UNCHANGED call
    <3>1. call[t].req \in {"device_info", "pair", "status"}
      BY <2>1 DEF CanServe
    <3> QED BY <3>1 DEF Asks, Handshake, Written
  <2>3. \A u \in Tasks : Asks(u)' <=> Asks(u)
    BY <2>2 DEF Asks
  <2>4. /\ Len(air') = Len(air) + 1
        /\ air'[Len(air) + 1].to = call[t].seq
        /\ air'[Len(air) + 1].code = call[t].req
        /\ \A i \in 1..Len(air) : air'[i] = air[i]
    BY <2>1 DEF TypeOK
  <2>5. \A i \in 1..Len(air') : i \in 1..Len(air) \/ i = Len(air) + 1
    BY <2>4 DEF TypeOK
  <2>6. call[t].seq \in 1..(seqNum - 1) /\ seqNum \in Nat
    BY <2>2 DEF Numbers, TypeOK
  <2>7. Numbers'
    <3>1. \A i \in 1..Len(air') : air'[i].to < seqNum'
      BY <1>0, <2>4, <2>5, <2>6 DEF Numbers
    <3> QED BY <1>0, <2>2, <2>3, <3>1 DEF Numbers
  <2>8. Match'
    <3> SUFFICES ASSUME NEW u \in Tasks, NEW i \in 1..Len(air'), Asks(u),
                        air'[i].to = call[u].seq
                 PROVE  air'[i].code = call[u].req
      BY <2>2, <2>3 DEF Match
    <3>1. CASE i \in 1..Len(air)
      BY <2>4, <3>1 DEF Match
    <3>2. CASE i = Len(air) + 1
      <4>1. u = t
        BY <2>2, <2>4, <3>2 DEF Numbers
      <4> QED BY <2>4, <3>2, <4>1
    <3> QED BY <2>5, <3>1, <3>2
  <2> QED BY <2>7, <2>8
<1> QED BY <1>2, <1>3

LEMMA NoCallSame ==
  ASSUME TypeOK, NEW t \in Tasks,
         NEW c \in {NoCall, ResendCall}, call' = [call EXCEPT ![t] = c]
  PROVE  \A u \in Tasks : SameRequest(u) \/ ~Asks(u)'
<1>1. call'[t].req \notin Handshake \cup {"status"}
  BY NoCallReq DEF TypeOK, Handshake
<1>2. \A u \in Tasks : u # t => call'[u] = call[u]
  BY DEF TypeOK
<1> QED BY <1>1, <1>2 DEF SameRequest, Asks

LEMMA NumbersProceed ==
  ASSUME TypeOK, Numbers, Match, NEW t \in Tasks, NEW futures,
         Proceed(t, futures), UNCHANGED air
  PROVE  Numbers' /\ Match'
<1>1. CASE Send(t, "status", futures)
  BY <1>1, NumbersSend
<1>2. CASE UNCHANGED seqNum /\ \E c \in {NoCall, ResendCall} :
                                  call' = [call EXCEPT ![t] = c]
  BY <1>2, NoCallSame, NumbersShrink
<1> QED BY <1>1, <1>2 DEF Proceed, SendAgain

LEMMA NumbersTask ==
  ASSUME TypeOK, Roles, Numbers, Match, NEW t \in Tasks, TaskStep(t), Fresh'
  PROVE  Numbers' /\ Match'
<1>0. (\A u \in Tasks : SameRequest(u)) \/ ~UNCHANGED call
  BY DEF SameRequest
<1>1. CASE StartQueues(t) \/ StartGivesUp(t)
  BY <1>1, NumbersAnew DEF StartQueues, StartGivesUp, Fresh
<1>2. CASE StartSends(t)
  <2>1. CASE SendAgain(t, expecting)
    BY <1>2, <2>1, NoCallSame, NumbersShrink DEF StartSends, SendAgain
  <2>2. CASE Send(t, "response", expecting)
    BY <1>2, <2>2, NumbersSend DEF StartSends
  <2> QED BY <1>2, <2>1, <2>2 DEF StartSends
<1>3. CASE RecheckReady(t) \/ PairAnswered(t)
  BY <1>3, NumbersProceed DEF RecheckReady, PairAnswered
<1>4. CASE \/ RecheckConnects(t) \/ Connects(t) \/ ConnectFails(t)
           \/ NotifyFails(t) \/ BacksOff(t) \/ StopFails(t)
  BY <1>0, <1>4, NumbersShrink DEF RecheckConnects, Connects, ConnectFails,
     NotifyFails, BacksOff, StopFails
<1>5. CASE WriteFails(t) \/ HandshakeRefused(t) \/ StatusAnswered(t)
           \/ TimesOut(t)
  <2>1. UNCHANGED <<seqNum, air>> /\ call' = [call EXCEPT ![t] = NoCall]
    BY <1>5 DEF WriteFails, HandshakeRefused, StatusAnswered, TimesOut
  <2> QED BY <2>1, NoCallSame, NumbersShrink
<1>6. CASE Notifies(t)
  <2>1. CASE Send(t, "device_info", expecting)
    BY <1>6, <2>1, NumbersSend DEF Notifies
  <2>2. CASE UNCHANGED <<call, seqNum>>
    BY <1>0, <1>6, <2>2, NumbersShrink DEF Notifies
  <2> QED BY <1>6, <2>1, <2>2 DEF Notifies
<1>7. CASE InfoAnswered(t)
  <2>1. CASE Send(t, "pair", Pop(call[t].seq))
    BY <1>7, <2>1, NumbersSend DEF InfoAnswered
  <2>2. CASE call' = [call EXCEPT ![t] = NoCall] /\ UNCHANGED seqNum
    BY <1>7, <2>2, NoCallSame, NumbersShrink DEF InfoAnswered
  <2> QED BY <1>7, <2>1, <2>2 DEF InfoAnswered
<1>8. CASE Written(t)
  BY <1>8, NumbersWritten
<1>9. CASE SettleEnds(t) \/ StopLocked(t)
  <2>1. outcome' = "running"
    BY DEF Fresh
  <2>2. UNCHANGED <<call, air>> /\ UNCHANGED seqNum
    BY <1>9, <2>1, EndingType DEF SettleEnds, StopLocked, ExecuteDisconnect
  <2> QED BY <1>0, <2>2, NumbersShrink
<1>10. CASE StopsNotify(t) \/ Disconnects(t)
  <2>1. outcome' = "running"
    BY DEF Fresh
  <2>2. UNCHANGED <<call, seqNum>> /\ air' = <<>>
    BY <1>10, <2>1, EndingType DEF StopsNotify, Disconnects
  <2> QED BY <1>0, <2>2, NumbersShrink
<1> QED BY <1>1, <1>2, <1>3, <1>4, <1>5, <1>6, <1>7, <1>8, <1>9, <1>10
        DEF TaskStep

LEMMA NumbersReport ==
  ASSUME TypeOK, Numbers, Match, BoardReports
  PROVE  Numbers' /\ Match'
<1>1. UNCHANGED <<call, seqNum>>
  BY DEF BoardReports
<1>2. PICK D \in SUBSET DPs, ack \in BOOLEAN :
        air' = Append(air, [code |-> "report", to |-> 0, result |-> 0,
                            dps |-> D, ack |-> ack])
  BY DEF BoardReports
<1>3. /\ Len(air') = Len(air) + 1 /\ air'[Len(air) + 1].to = 0
      /\ \A i \in 1..Len(air) : air'[i] = air[i]
      /\ \A i \in 1..Len(air') : i \in 1..Len(air) \/ i = Len(air) + 1
  BY <1>2 DEF TypeOK
<1>4. \A u \in Tasks : Asks(u)' <=> Asks(u)
  BY <1>1 DEF Asks
<1>5. \A u \in Tasks : Asks(u) => call[u].seq # 0
  BY DEF Numbers
<1>6. Numbers'
  <2>1. \A i \in 1..Len(air') : air'[i].to < seqNum'
    BY <1>1, <1>3 DEF Numbers, TypeOK
  <2> QED BY <1>1, <1>4, <2>1 DEF Numbers
<1>7. Match'
  BY <1>1, <1>3, <1>4, <1>5 DEF Match
<1> QED BY <1>6, <1>7

LEMMA NumbersDeliver ==
  ASSUME Inv, Numbers, Match, Deliver
  PROVE  Numbers' /\ Match'
<1>1. \A u \in Tasks : SameRequest(u)
  <2> SUFFICES ASSUME NEW u \in Tasks PROVE SameRequest(u)
    OBVIOUS
  <2>1. \E b : call'[u] = call[u] \/ call'[u] = [call[u] EXCEPT !.reply = b]
    BY DEF Deliver
  <2>2. call[u] \in Calls
    BY DEF Inv, TypeOK
  <2> QED BY <2>1, <2>2 DEF SameRequest, Calls
<1>2. air # <<>> /\ air' = Tail(air) /\ UNCHANGED seqNum
  BY DEF Deliver
<1> QED BY <1>1, <1>2, NumbersShrink DEF Inv

-----------------------------------------------------------------------------
(* What the board answered, and what the read made of it. *)

\* Nothing the board answered is taken back.
LEMMA AnsweredStays ==
  ASSUME Next
  PROVE  answered \subseteq answered'
<1>1. ASSUME NEW t \in Tasks, TaskStep(t) PROVE answered \subseteq answered'
  <2>1. CASE Written(t)
    BY <2>1 DEF Written, Reacts
  <2>2. CASE StartQueues(t) \/ StartGivesUp(t) \/ StartSends(t)
             \/ RecheckReady(t) \/ RecheckConnects(t) \/ Connects(t)
             \/ ConnectFails(t) \/ Notifies(t) \/ NotifyFails(t)
             \/ WriteFails(t) \/ InfoAnswered(t) \/ PairAnswered(t)
    BY <2>2 DEF StartQueues, StartGivesUp, StartSends, RecheckReady,
       RecheckConnects, Connects, ConnectFails, Notifies, NotifyFails,
       WriteFails, InfoAnswered, PairAnswered
  <2>3. CASE HandshakeRefused(t) \/ StatusAnswered(t) \/ TimesOut(t)
             \/ BacksOff(t) \/ SettleEnds(t) \/ StopLocked(t)
             \/ StopsNotify(t) \/ Disconnects(t) \/ StopFails(t)
    BY <2>3 DEF HandshakeRefused, StatusAnswered, TimesOut, BacksOff,
       SettleEnds, StopLocked, StopsNotify, Disconnects, StopFails
  <2> QED BY <1>1, <2>1, <2>2, <2>3 DEF TaskStep
<1>2. CASE Deliver \/ BoardReports \/ Drops
  BY <1>2 DEF Deliver, BoardReports, Drops
<1> QED BY <1>1, <1>2 DEF Next

LEMMA GenuineKept ==
  ASSUME TypeOK, Genuine, answered \subseteq answered',
         \/ air' \in {air, <<>>}
         \/ air # <<>> /\ air' = Tail(air),
         paired' => paired \/ Granted
  PROVE  Genuine'
<1>1. \A i \in 1..Len(air') : \E k \in 1..Len(air) : air'[i] = air[k]
  <2>1. CASE air' = air
    BY <2>1
  <2>2. CASE air' = <<>>
    BY <2>2
  <2>3. CASE air # <<>> /\ air' = Tail(air)
    <3>1. air \in Seq(Message)
      BY DEF TypeOK
    <3>2. \A i \in 1..Len(air') : i + 1 \in 1..Len(air) /\ air'[i] = air[i + 1]
      BY <2>3, <3>1
    <3> QED BY <3>2
  <2> QED BY <2>1, <2>2, <2>3
<1>2. \A i \in 1..Len(air') : air'[i].code # "report" =>
        [req |-> air'[i].code, result |-> air'[i].result] \in answered'
  <2> SUFFICES ASSUME NEW i \in 1..Len(air'), air'[i].code # "report"
               PROVE  [req |-> air'[i].code, result |-> air'[i].result]
                        \in answered'
    OBVIOUS
  <2>1. PICK k \in 1..Len(air) : air'[i] = air[k]
    BY <1>1
  <2> QED BY <2>1 DEF Genuine
<1>3. paired' => Granted'
  BY DEF Genuine, Granted
<1> QED BY <1>2, <1>3 DEF Genuine

\* A message more in flight.
LEMMA GenuineMore ==
  ASSUME TypeOK, Genuine, answered \subseteq answered', NEW m,
         air' = Append(air, m), UNCHANGED paired,
         m.code = "report"
           \/ [req |-> m.code, result |-> m.result] \in answered'
  PROVE  Genuine'
<1>1. /\ air'[Len(air) + 1] = m
      /\ \A i \in 1..Len(air) : air'[i] = air[i]
      /\ \A i \in 1..Len(air') : i \in 1..Len(air) \/ i = Len(air) + 1
  BY DEF TypeOK
<1>2. \A i \in 1..Len(air') : air'[i].code # "report" =>
        [req |-> air'[i].code, result |-> air'[i].result] \in answered'
  <2> SUFFICES ASSUME NEW i \in 1..Len(air'), air'[i].code # "report"
               PROVE  [req |-> air'[i].code, result |-> air'[i].result]
                        \in answered'
    OBVIOUS
  <2>1. CASE i \in 1..Len(air)
    BY <1>1, <2>1 DEF Genuine
  <2>2. CASE i = Len(air) + 1
    BY <1>1, <2>2
  <2> QED BY <1>1, <2>1, <2>2
<1>3. paired' => Granted'
  BY DEF Genuine, Granted
<1> QED BY <1>2, <1>3 DEF Genuine

LEMMA GenuineTask ==
  ASSUME TypeOK, Genuine, NEW t \in Tasks, TaskStep(t),
         answered \subseteq answered'
  PROVE  Genuine'
<1>1. CASE Written(t)
  <2>0. UNCHANGED paired /\ Reacts(t, call[t].req)
    BY <1>1 DEF Written
  <2>1. CASE UNCHANGED air
    BY <2>0, <2>1, GenuineKept
  <2>2. CASE ~UNCHANGED air
    <3> DEFINE m(result) == [code |-> call[t].req, to |-> call[t].seq,
                             result |-> result, dps |-> {}, ack |-> FALSE]
    <3>1. PICK result \in {0, 1} :
            /\ air' = Append(air, m(result))
            /\ answered' = answered
                             \cup {[req |-> call[t].req, result |-> result]}
      BY <2>0, <2>2 DEF Reacts
    <3>2. /\ m(result).code = call[t].req /\ m(result).result = result
          /\ [req |-> m(result).code, result |-> m(result).result] \in answered'
      BY <3>1
    <3> HIDE DEF m
    <3> QED BY <2>0, <3>1, <3>2, GenuineMore
  <2> QED BY <2>1, <2>2
<1>2. CASE ~Written(t)
  <2>1. (paired' => paired) /\ air' \in {air, <<>>}
    <3>1. CASE StartQueues(t) \/ StartGivesUp(t) \/ StartSends(t)
               \/ RecheckReady(t) \/ RecheckConnects(t) \/ Connects(t)
               \/ ConnectFails(t) \/ Notifies(t) \/ NotifyFails(t)
               \/ InfoAnswered(t) \/ PairAnswered(t)
      BY <3>1 DEF StartQueues, StartGivesUp, StartSends, RecheckReady,
         RecheckConnects, Connects, ConnectFails, Notifies, NotifyFails,
         InfoAnswered, PairAnswered
    <3>2. CASE HandshakeRefused(t) \/ StatusAnswered(t) \/ TimesOut(t)
               \/ BacksOff(t) \/ SettleEnds(t) \/ StopLocked(t)
               \/ StopsNotify(t) \/ Disconnects(t) \/ StopFails(t)
      BY <3>2 DEF HandshakeRefused, StatusAnswered, TimesOut, BacksOff,
         SettleEnds, StopLocked, StopsNotify, Disconnects, Disconnected,
         StopFails
    <3>3. CASE WriteFails(t)
      BY <3>3 DEF WriteFails
    <3> QED BY <1>2, <3>1, <3>2, <3>3 DEF TaskStep
  <2> QED BY <2>1, GenuineKept
<1> QED BY <1>1, <1>2

LEMMA GenuineEnvironment ==
  ASSUME TypeOK, Genuine, Deliver \/ BoardReports \/ Drops
  PROVE  Genuine'
<1>1. CASE Deliver
  <2> DEFINE m == Head(air)
  <2>1. /\ air # <<>> /\ air' = Tail(air) /\ UNCHANGED answered
        /\ paired' = IF m.code = "pair" THEN m.result = 0 ELSE paired
    BY <1>1 DEF Deliver
  <2>2. m = air[1] /\ 1 \in 1..Len(air)
    BY <2>1 DEF TypeOK
  <2>3. m.code # "report" =>
          [req |-> m.code, result |-> m.result] \in answered
    <3> HIDE DEF m
    <3> QED BY <2>2 DEF Genuine
  <2>4. paired' => paired \/ Granted
    <3> HIDE DEF m
    <3> QED BY <2>1, <2>3 DEF Granted
  <2> QED BY <2>1, <2>4, GenuineKept
<1>2. CASE BoardReports
  <2>1. PICK D \in SUBSET DPs, ack \in BOOLEAN :
          air' = Append(air, [code |-> "report", to |-> 0, result |-> 0,
                              dps |-> D, ack |-> ack])
    BY <1>2 DEF BoardReports
  <2>2. UNCHANGED <<paired, answered>>
    BY <1>2 DEF BoardReports
  <2> QED BY <2>1, <2>2, GenuineMore
<1>3. CASE Drops
  <2>1. air' = <<>> /\ paired' = FALSE /\ UNCHANGED answered
    BY <1>3 DEF Drops, Disconnected
  <2> QED BY <2>1, GenuineKept
<1> QED BY <1>1, <1>2, <1>3

\* A step that answers no request, and asks for the status only when paired.
LEMMA EarnedKept ==
  ASSUME TypeOK, Earned, answered \subseteq answered',
         \A u \in Tasks : \/ call'[u] = call[u]
                          \/ /\ call'[u].reply = "none"
                             /\ call'[u].req = "status" => Granted,
         pc'[Reader] \in Settling => pc[Reader] \in Settling \/ Granted
  PROVE  Earned'
<1>1. (Granted => Granted') /\ (Refused => Refused')
  BY DEF Granted, Refused
<1> HIDE DEF Granted, Refused
<1>2. ASSUME NEW u \in Tasks
      PROVE  /\ call'[u].req = "pair" /\ call'[u].reply = "ok" => Granted'
             /\ call'[u].req = "status" => Granted'
             /\ call'[u].req = "status" /\ call'[u].reply = "error" => Refused'
  <2>1. CASE call'[u] = call[u]
    BY <1>1, <2>1 DEF Earned
  <2>2. CASE /\ call'[u].reply = "none"
             /\ call'[u].req = "status" => Granted
    BY <1>1, <2>2
  <2> QED BY <2>1, <2>2
<1>3. pc'[Reader] \in Settling => Granted'
  BY <1>1 DEF Earned
<1> QED BY <1>2, <1>3 DEF Earned

LEMMA EarnedMoved ==
  ASSUME TypeOK, Earned, NEW t \in Tasks, NEW p, Goto(t, p),
         answered \subseteq answered',
         p \in Settling => pc[t] \in Settling \/ Granted,
         \/ UNCHANGED call
         \/ \E c : /\ call' = [call EXCEPT ![t] = c] /\ c.reply = "none"
                   /\ c.req = "status" => Granted
  PROVE  Earned'
<1>1. \A u \in Tasks : \/ call'[u] = call[u]
                       \/ /\ call'[u].reply = "none"
                          /\ call'[u].req = "status" => Granted
  BY DEF TypeOK
<1>2. pc'[Reader] \in Settling => pc[Reader] \in Settling \/ Granted
  BY ReaderTask DEF Goto, TypeOK
<1> QED BY <1>1, <1>2, EarnedKept

LEMMA EarnedSend ==
  ASSUME TypeOK, Earned, NEW t \in Tasks, NEW r, NEW futures,
         Send(t, r, futures), r = "status" => Granted, Goto(t, "write"),
         answered \subseteq answered'
  PROVE  Earned'
<1> DEFINE c == [req |-> r, seq |-> seqNum, reply |-> "none"]
<1>1. /\ call' = [call EXCEPT ![t] = c] /\ c.reply = "none"
      /\ c.req = "status" => Granted
  BY DEF Send
<1> HIDE DEF c
<1> QED BY <1>1, EarnedMoved DEF Settling

LEMMA EarnedProceed ==
  ASSUME TypeOK, Earned, NEW t \in Tasks, NEW futures, Proceed(t, futures),
         Granted, answered \subseteq answered'
  PROVE  Earned'
<1>1. CASE Send(t, "status", futures) /\ Goto(t, "write")
  BY <1>1, EarnedSend
<1>2. CASE SendAgain(t, futures) /\ Goto(t, "write")
  BY <1>2, EarnedMoved, NoCallReq DEF SendAgain
<1>3. CASE Goto(t, "idle") /\ call' = [call EXCEPT ![t] = NoCall]
  BY <1>3, EarnedMoved, NoCallReq
<1> QED BY <1>1, <1>2, <1>3 DEF Proceed

LEMMA EarnedWriteFails ==
  ASSUME TypeOK, Earned, NEW t \in Tasks, WriteFails(t)
  PROVE  Earned'
<1> DEFINE p == IF call[t].req \in Handshake THEN LoopTo(t) ELSE AfterError(t)
           n == IF Connected /\ paired /\ ~expected THEN 2 ELSE 1
           j == IF paired' THEN "resend" ELSE "reconnect"
<1>1. /\ Spawn(n, j, [pc EXCEPT ![t] = p])
      /\ call' = [call EXCEPT ![t] = NoCall] /\ UNCHANGED answered
  BY DEF WriteFails
<1>2. p \notin Settling
  BY DEF LoopTo, AfterError, Settling
<1>3. pc'[Reader] \in Settling => pc[Reader] \in Settling
  <2>1. pc'[Reader] \in {"start", [pc EXCEPT ![t] = p][Reader]}
    <3> HIDE DEF n, j, p
    <3> QED BY <1>1, ReaderTask DEF Spawn
  <2>2. [pc EXCEPT ![t] = p][Reader] \in {p, pc[Reader]}
    <3> HIDE DEF p
    <3> QED BY ReaderTask DEF TypeOK
  <2>3. "start" \notin Settling
    BY DEF Settling
  <2> HIDE DEF p
  <2> QED BY <1>2, <2>1, <2>2, <2>3
<1>4. \A u \in Tasks : \/ call'[u] = call[u]
                       \/ /\ call'[u].reply = "none"
                          /\ call'[u].req = "status" => Granted
  BY <1>1, NoCallReq DEF TypeOK
<1> QED BY <1>1, <1>3, <1>4, EarnedKept

LEMMA EarnedTask ==
  ASSUME TypeOK, Roles, Genuine, Earned, NEW t \in Tasks, TaskStep(t),
         answered \subseteq answered'
  PROVE  Earned'
<1>0. /\ pc[t] = "await" /\ call[t].req \notin Handshake => Granted
      /\ call[t].req = "status" => Granted
      /\ call[t].req = "pair" /\ call[t].reply = "ok" => Granted
      /\ paired => Granted
  BY DEF Roles, Role, Asks, Earned, Genuine
<1> HIDE DEF Granted
<1>1. CASE StartQueues(t) \/ StartGivesUp(t) \/ RecheckConnects(t)
           \/ Connects(t) \/ BacksOff(t)
  BY <1>1, EarnedMoved DEF StartQueues, StartGivesUp, RecheckConnects,
     Connects, BacksOff, Settling
<1>2. CASE StartSends(t)
  <2>1. CASE SendAgain(t, expecting)
    BY <1>2, <2>1, EarnedMoved, NoCallReq DEF StartSends, SendAgain, Settling
  <2>2. CASE Send(t, "response", expecting)
    BY <1>2, <2>2, EarnedSend DEF StartSends
  <2> QED BY <1>2, <2>1, <2>2 DEF StartSends
<1>3. CASE RecheckReady(t) \/ PairAnswered(t)
  BY <1>0, <1>3, EarnedProceed DEF RecheckReady, Ready, PairAnswered, Accepted
<1>4. CASE ConnectFails(t) \/ NotifyFails(t) \/ HandshakeRefused(t)
           \/ Notifies(t) \/ InfoAnswered(t)
  <2>1. LoopTo(t) \notin Settling
    BY DEF LoopTo, Settling
  <2>2. CASE Goto(t, LoopTo(t))
             /\ (UNCHANGED call \/ call' = [call EXCEPT ![t] = NoCall])
    BY <2>1, <2>2, EarnedMoved, NoCallReq
  <2>3. CASE \E r \in Handshake : \E q : Send(t, r, q) /\ Goto(t, "write")
    BY <2>3, EarnedSend DEF Handshake
  <2> QED BY <1>4, <2>2, <2>3 DEF ConnectFails, NotifyFails, HandshakeRefused,
             Notifies, InfoAnswered, Handshake
<1>5. CASE Written(t)
  <2>1. \/ Goto(t, "idle") /\ call' = [call EXCEPT ![t] = NoCall]
        \/ Goto(t, "await") /\ UNCHANGED call
    BY <1>5 DEF Written
  <2> QED BY <2>1, EarnedMoved, NoCallReq DEF Settling
<1>6. CASE WriteFails(t)
  BY <1>6, EarnedWriteFails
<1>7. CASE StatusAnswered(t) \/ TimesOut(t)
  <2>1. LoopTo(t) \notin Settling
    BY DEF LoopTo, Settling
  <2>2. /\ call' = [call EXCEPT ![t] = NoCall]
        /\ \/ Goto(t, LoopTo(t)) \/ Goto(t, "done")
           \/ Goto(t, "settle") /\ Granted
    BY <1>0, <1>7 DEF StatusAnswered, TimesOut, Unanswered
  <2> QED BY <2>1, <2>2, EarnedMoved, NoCallReq DEF Settling
<1>8. CASE \/ SettleEnds(t) \/ StopLocked(t) \/ StopsNotify(t)
           \/ Disconnects(t) \/ StopFails(t)
  <2>1. pc[t] \in Settling /\ UNCHANGED call /\ \E p : Goto(t, p)
    BY <1>8 DEF SettleEnds, StopLocked, ExecuteDisconnect, StopsNotify,
       Disconnects, StopFails, Settling
  <2> QED BY <2>1, EarnedMoved
<1> QED BY <1>1, <1>2, <1>3, <1>4, <1>5, <1>6, <1>7, <1>8 DEF TaskStep

LEMMA SpawnPlaces ==
  ASSUME NEW n, NEW j, Spawn(n, j, pc)
  PROVE  pc'[Reader] \in Settling => pc[Reader] \in Settling
BY ReaderTask DEF Spawn, Settling

\* The answer a request gets is its own.
LEMMA EarnedDeliver ==
  ASSUME TypeOK, Roles, Match, Genuine, Earned, Deliver
  PROVE  Earned'
<1> DEFINE m == Head(air)
<1>1. m = air[1] /\ 1 \in 1..Len(air)
  BY DEF TypeOK, Deliver
<1>2. m.code # "report" => [req |-> m.code, result |-> m.result] \in answered
  <2> HIDE DEF m
  <2> QED BY <1>1 DEF Genuine
<1>3. m.result \in {0, 1}
  <2>1. air[1] \in Message
    BY <1>1 DEF TypeOK
  <2> HIDE DEF m
  <2> QED BY <1>1, <2>1 DEF Message
<1>4. UNCHANGED answered
  BY DEF Deliver
<1>5. pc'[Reader] \in Settling => pc[Reader] \in Settling
  <2>1. \E n, j : Spawn(n, j, pc)
    BY DEF Deliver
  <2> QED BY <2>1, SpawnPlaces
<1>6. ASSUME NEW u \in Tasks
      PROVE  /\ call'[u].req = "pair" /\ call'[u].reply = "ok" => Granted
             /\ call'[u].req = "status" => Granted
             /\ call'[u].req = "status" /\ call'[u].reply = "error" => Refused
  <2>1. /\ call[u].req = "pair" /\ call[u].reply = "ok" => Granted
        /\ call[u].req = "status" => Granted
        /\ call[u].req = "status" /\ call[u].reply = "error" => Refused
    BY DEF Earned
  <2>2. CASE call'[u] = call[u]
    BY <2>1, <2>2
  <2>3. CASE /\ call[u].seq = m.to
             /\ call'[u] = [call[u] EXCEPT !.reply =
                              IF m.result = 1 THEN "error" ELSE "ok"]
    <3> HIDE DEF m
    <3>1. call[u] \in Calls
      BY DEF TypeOK
    <3>2. /\ call'[u].req = call[u].req
          /\ call'[u].reply = IF m.result = 1 THEN "error" ELSE "ok"
      BY <2>3, <3>1 DEF Calls
    <3>3. call[u].req \in {"pair", "status"} => m.code = call[u].req
      BY <1>1, <2>3 DEF Match, Asks, Handshake
    <3>4. CASE call[u].req = "pair"
      BY <1>2, <1>3, <3>2, <3>3, <3>4 DEF Granted
    <3>5. CASE call[u].req = "status"
      BY <1>2, <1>3, <2>1, <3>2, <3>3, <3>5 DEF Refused
    <3> QED BY <3>2, <3>4, <3>5
  <2> QED BY <2>2, <2>3 DEF Deliver
<1>7. (Granted' <=> Granted) /\ (Refused' <=> Refused)
  BY <1>4 DEF Granted, Refused
<1> HIDE DEF Granted, Refused
<1> QED BY <1>5, <1>6, <1>7 DEF Earned

LEMMA EarnedEnvironment ==
  ASSUME TypeOK, Earned, BoardReports \/ Drops
  PROVE  Earned'
<1>1. UNCHANGED <<call, answered>>
  BY DEF BoardReports, Drops
<1>2. UNCHANGED pc \/ \E n, j : Spawn(n, j, pc)
  BY DEF BoardReports, Drops
<1>3. pc'[Reader] \in Settling => pc[Reader] \in Settling
  BY <1>2, SpawnPlaces
<1> QED BY <1>1, <1>3, EarnedKept

-----------------------------------------------------------------------------
(* How the read ends. *)

LEMMA LoopOutcome ==
  ASSUME Roles, NEW t \in Tasks, LoopAgain(t), outcome' # outcome
  PROVE  t = Reader /\ outcome' = "BleakError"
BY DEF Roles, Role, LoopAgain

\* Only the reader ends the read, once, and from where it may.
LEMMA OutcomeSet ==
  ASSUME TypeOK, Roles, NEW t \in Tasks, TaskStep(t), outcome' # outcome
  PROVE  /\ outcome = "running"
         /\ outcome' \in {"returned", "struct.error"} => pc[Reader] \in Settling
         /\ outcome' = "TuyaBLEError" =>
              call[Reader].req = "status" /\ call[Reader].reply = "error"
<1>0. /\ job[t] = "read" <=> t = Reader
      /\ pc[t] \in Settling => t = Reader
      /\ call[t].req = "status" => t = Reader
      /\ call[t].reply \in {"none", "ok", "error"}
      /\ pc[Reader] # "done" => outcome = "running"
  BY DEF Roles, Role, TypeOK, Calls
<1>1. CASE ConnectFails(t) \/ Notifies(t) \/ NotifyFails(t)
           \/ InfoAnswered(t) \/ HandshakeRefused(t)
  <2>1. LoopAgain(t) /\ pc[t] \in {"connect", "notify", "await"}
    BY <1>1 DEF ConnectFails, Notifies, NotifyFails, InfoAnswered, Accepted,
       HandshakeRefused
  <2> QED BY <1>0, <2>1, LoopOutcome
<1>2. CASE WriteFails(t)
  <2>1. /\ pc[t] = "write"
        /\ \/ LoopAgain(t)
           \/ outcome' = IF job[t] = "read" THEN "BleakError" ELSE outcome
    BY <1>2 DEF WriteFails
  <2>2. t = Reader /\ outcome' = "BleakError"
    BY <1>0, <2>1, LoopOutcome
  <2> QED BY <1>0, <2>1, <2>2
<1>3. CASE StatusAnswered(t)
  BY <1>0, <1>3 DEF StatusAnswered
<1>4. CASE TimesOut(t)
  <2>1. LoopAgain(t) /\ pc[t] = "await"
    BY <1>4 DEF TimesOut, Unanswered
  <2> QED BY <1>0, <2>1, LoopOutcome
<1>5. CASE SettleEnds(t) \/ StopLocked(t) \/ Disconnects(t) \/ StopFails(t)
  <2>1. pc[t] \in Settling /\ outcome' # "TuyaBLEError"
    BY <1>5, EndingType DEF SettleEnds, StopLocked, ExecuteDisconnect,
       Disconnects, StopFails, Settling
  <2> QED BY <1>0, <2>1 DEF Settling
<1>6. CASE \/ StartQueues(t) \/ StartGivesUp(t) \/ StartSends(t)
           \/ RecheckReady(t) \/ RecheckConnects(t) \/ Connects(t)
           \/ Written(t) \/ PairAnswered(t) \/ BacksOff(t) \/ StopsNotify(t)
  BY <1>6 DEF StartQueues, StartGivesUp, StartSends, RecheckReady,
     RecheckConnects, Connects, Written, PairAnswered, BacksOff, StopsNotify
<1> QED BY <1>1, <1>2, <1>3, <1>4, <1>5, <1>6 DEF TaskStep

\* A number reused stays so.
LEMMA ReusedStays ==
  ASSUME TypeOK, Next, ~reused'
  PROVE  ~reused
<1>1. ASSUME NEW t \in Tasks, TaskStep(t) PROVE ~reused
  <2>1. CASE StartQueues(t) \/ StartGivesUp(t)
    BY <2>1 DEF StartQueues, StartGivesUp, Renumber
  <2>2. CASE StartSends(t) \/ RecheckReady(t) \/ RecheckConnects(t)
             \/ Connects(t) \/ ConnectFails(t) \/ Notifies(t)
             \/ NotifyFails(t) \/ Written(t) \/ WriteFails(t)
             \/ InfoAnswered(t) \/ PairAnswered(t)
    BY <2>2 DEF StartSends, RecheckReady, RecheckConnects, Connects,
       ConnectFails, Notifies, NotifyFails, Written, WriteFails, InfoAnswered,
       PairAnswered
  <2>3. CASE HandshakeRefused(t) \/ StatusAnswered(t) \/ TimesOut(t)
             \/ BacksOff(t) \/ SettleEnds(t) \/ StopLocked(t)
             \/ StopsNotify(t) \/ Disconnects(t) \/ StopFails(t)
    BY <2>3 DEF HandshakeRefused, StatusAnswered, TimesOut, BacksOff,
       SettleEnds, StopLocked, StopsNotify, Disconnects, StopFails
  <2> QED BY <1>1, <2>1, <2>2, <2>3 DEF TaskStep
<1>2. CASE Deliver \/ BoardReports \/ Drops
  BY <1>2 DEF Deliver, BoardReports, Drops
<1> QED BY <1>1, <1>2 DEF Next

LEMMA OutcomeStays ==
  ASSUME Deliver \/ BoardReports \/ Drops
  PROVE  UNCHANGED outcome
BY DEF Deliver, BoardReports, Drops

LEMMA FreshBefore ==
  ASSUME TypeOK, Roles, Next, Fresh'
  PROVE  Fresh
<1>1. ~reused
  BY ReusedStays DEF Fresh
<1>2. outcome = "running"
  BY OutcomeSet, OutcomeStays DEF Next, Fresh
<1> QED BY <1>1, <1>2 DEF Fresh

LEMMA ClaimsKept ==
  ASSUME TypeOK, Roles, Next, Claims, Fresh => Earned
  PROVE  Claims'
<1>1. answered \subseteq answered'
  BY AnsweredStays
<1>2. CASE UNCHANGED outcome
  BY <1>1, <1>2, ReusedStays DEF Claims, ReturnsOnlyPaired, TuyaErrorOnlyFromStatus
<1>3. CASE outcome' # outcome /\ ~reused'
  <2>1. PICK t \in Tasks : TaskStep(t)
    BY <1>3, OutcomeStays DEF Next
  <2>2. /\ outcome = "running"
        /\ outcome' = "returned" => pc[Reader] \in Settling
        /\ outcome' = "TuyaBLEError" =>
             call[Reader].req = "status" /\ call[Reader].reply = "error"
    BY <1>3, <2>1, OutcomeSet
  <2>3. Earned
    BY <1>3, <2>2, ReusedStays DEF Fresh
  <2>4. /\ outcome' = "returned" => Granted
        /\ outcome' = "TuyaBLEError" => Refused
    BY <2>2, <2>3, ReaderTask DEF Earned
  <2> QED BY <1>1, <2>4
          DEF Claims, ReturnsOnlyPaired, TuyaErrorOnlyFromStatus, Granted, Refused
<1>4. CASE reused'
  BY <1>4 DEF Claims, ReturnsOnlyPaired, TuyaErrorOnlyFromStatus
<1> QED BY <1>2, <1>3, <1>4

-----------------------------------------------------------------------------

LEMMA InitAnswers == Init => AnswersInv
<1> SUFFICES ASSUME Init PROVE AnswersInv
  OBVIOUS
<1>1. \A t \in Tasks : ~Asks(t) /\ call[t].req = "none"
  BY NoCallReq DEF Init, Asks, Handshake
<1>2. Roles
  <2>1. \A t \in Tasks : Role(t)
    BY <1>1 DEF Init, Role, Settling
  <2>2. outcome = "running" /\ pc[Reader] # "done"
    BY ReaderTask DEF Init
  <2> QED BY <2>1, <2>2 DEF Roles
<1>3. Genuine /\ Match
  BY DEF Init, Genuine, Match
<1>4. Numbers
  BY <1>1 DEF Init, Numbers
<1>5. Earned
  BY <1>1, ReaderTask DEF Init, Earned, Settling
<1>6. Claims
  BY DEF Init, Claims, ReturnsOnlyPaired, TuyaErrorOnlyFromStatus
<1> QED BY <1>2, <1>3, <1>4, <1>5, <1>6 DEF AnswersInv

LEMMA NextAnswers == Inv /\ AnswersInv /\ [Next]_vars => AnswersInv'
<1> SUFFICES ASSUME Inv, AnswersInv, [Next]_vars PROVE AnswersInv'
  OBVIOUS
<1>1. TypeOK /\ Roles /\ Genuine
  BY DEF Inv, AnswersInv
<1>2. CASE Next
  <2>1. answered \subseteq answered'
    BY <1>2, AnsweredStays
  <2>2. Roles'
    <3>1. ASSUME NEW t \in Tasks, TaskStep(t) PROVE Roles'
      BY <1>1, <3>1, RolesTask
    <3>2. CASE Deliver
      <4>1. \A u \in Tasks : call'[u].req = call[u].req
        <5> SUFFICES ASSUME NEW u \in Tasks PROVE call'[u].req = call[u].req
          OBVIOUS
        <5>1. \E b : call'[u] = call[u]
                     \/ call'[u] = [call[u] EXCEPT !.reply = b]
          BY <3>2 DEF Deliver
        <5>2. call[u] \in Calls
          BY <1>1 DEF TypeOK
        <5> QED BY <5>1, <5>2 DEF Calls
      <4>2. \E n : Spawn(n, "response", pc)
        BY <3>2 DEF Deliver
      <4> QED BY <1>1, <3>2, <4>1, <4>2, RolesSpawned, OutcomeStays
    <3>3. CASE BoardReports
      BY <1>1, <3>3 DEF BoardReports, Roles, Role, Asks
    <3>4. CASE Drops
      <4>1. \E n : Spawn(n, "reconnect", pc)
        BY <3>4 DEF Drops
      <4>2. UNCHANGED <<call, outcome>>
        BY <3>4 DEF Drops
      <4> QED BY <1>1, <4>1, <4>2, RolesSpawned
    <3> QED BY <1>2, <3>1, <3>2, <3>3, <3>4 DEF Next
  <2>3. Genuine'
    BY <1>1, <1>2, <2>1, GenuineTask, GenuineEnvironment DEF Next
  <2>4. ASSUME Fresh' PROVE Numbers' /\ Match' /\ Earned'
    <3>1. Numbers /\ Match /\ Earned
      BY <1>1, <1>2, <2>4, FreshBefore DEF AnswersInv
    <3>2. Numbers' /\ Match'
      <4>1. CASE Drops
        <5>1. UNCHANGED <<call, seqNum>> /\ air' = <<>>
          BY <4>1 DEF Drops
        <5>2. \A u \in Tasks : SameRequest(u)
          BY <5>1 DEF SameRequest
        <5> QED BY <1>1, <3>1, <5>1, <5>2, NumbersShrink
      <4> QED BY <1>1, <1>2, <2>4, <3>1, <4>1, NumbersTask, NumbersDeliver,
                 NumbersReport DEF Next
    <3>3. Earned'
      BY <1>1, <1>2, <2>1, <3>1, EarnedTask, EarnedDeliver, EarnedEnvironment
         DEF Next
    <3> QED BY <3>2, <3>3
  <2>5. Claims'
    <3>1. Claims /\ (Fresh => Earned)
      BY DEF AnswersInv
    <3> QED BY <1>1, <1>2, <3>1, ClaimsKept
  <2> QED BY <2>2, <2>3, <2>4, <2>5 DEF AnswersInv
<1>3. CASE UNCHANGED vars
  <2>1. Roles' /\ Genuine'
    BY <1>1, <1>3 DEF vars, Roles, Role, Asks, Genuine, Granted
  <2>2. (Fresh' <=> Fresh) /\ (Numbers' <=> Numbers) /\ (Match' <=> Match)
        /\ (Earned' <=> Earned) /\ (Claims' <=> Claims)
    BY <1>3 DEF vars, Fresh, Numbers, Match, Asks, Earned, Granted, Refused,
       Claims, ReturnsOnlyPaired, TuyaErrorOnlyFromStatus
  <2> QED BY <2>1, <2>2 DEF AnswersInv
<1> QED BY <1>2, <1>3

LEMMA AnswersAlways == Spec => []AnswersInv
BY InitInv, NextInv, InitAnswers, NextAnswers, PTL DEF Spec

\* As long as the read lasts and no number was reused, the answer that a request
\* waits for by its number is the answer to that request.
THEOREM AnswersMatched == Spec => []AnswersMatch
<1>1. AnswersInv => AnswersMatch
  BY DEF AnswersInv, Fresh, Match, AnswersMatch
<1> QED BY <1>1, AnswersAlways, PTL

\* Unless a number was reused, a snapshot is returned only after the board
\* accepted the pairing.
THEOREM ReturnedPaired == Spec => []ReturnsOnlyPaired
<1>1. AnswersInv => ReturnsOnlyPaired
  BY DEF AnswersInv, Claims
<1> QED BY <1>1, AnswersAlways, PTL

\* Unless a number was reused, the read raises TuyaBLEError only after the board
\* refused the status request.
THEOREM ErrorFromStatus == Spec => []TuyaErrorOnlyFromStatus
<1>1. AnswersInv => TuyaErrorOnlyFromStatus
  BY DEF AnswersInv, Claims
<1> QED BY <1>1, AnswersAlways, PTL

-----------------------------------------------------------------------------
(* The read implements BoardRead. *)

\* The datapoint store only grows.
LEMMA StoreGrows ==
  ASSUME TypeOK, Next
  PROVE  dps \subseteq dps'
<1>1. ASSUME NEW t \in Tasks, TaskStep(t) PROVE UNCHANGED dps
  <2>1. CASE StartQueues(t) \/ StartGivesUp(t) \/ StartSends(t)
             \/ RecheckReady(t) \/ RecheckConnects(t) \/ Connects(t)
             \/ ConnectFails(t) \/ Notifies(t) \/ NotifyFails(t)
             \/ Written(t) \/ WriteFails(t) \/ InfoAnswered(t)
             \/ PairAnswered(t)
    BY <2>1 DEF StartQueues, StartGivesUp, StartSends, RecheckReady,
       RecheckConnects, Connects, ConnectFails, Notifies, NotifyFails, Written,
       WriteFails, InfoAnswered, PairAnswered
  <2>2. CASE HandshakeRefused(t) \/ StatusAnswered(t) \/ TimesOut(t)
             \/ BacksOff(t) \/ SettleEnds(t) \/ StopLocked(t)
             \/ StopsNotify(t) \/ Disconnects(t) \/ StopFails(t)
    BY <2>2 DEF HandshakeRefused, StatusAnswered, TimesOut, BacksOff,
       SettleEnds, StopLocked, StopsNotify, Disconnects, StopFails
  <2> QED BY <1>1, <2>1, <2>2 DEF TaskStep
<1>2. CASE Deliver \/ BoardReports \/ Drops
  BY <1>2 DEF Deliver, BoardReports, Drops
<1> QED BY <1>1, <1>2 DEF Next

Stopping == {"stopping", "stop_notify", "disconnecting"}

\* The snapshot is made where the settle window ends, once, and fails only if
\* something was reported.
SnapshotInv ==
  /\ pc[Reader] \in Stopping => snapshot.made # "none"
  /\ outcome = "running" /\ pc[Reader] \notin Stopping => snapshot = NoSnapshot
  /\ snapshot.made = "error" => dps # {}

SamePlace == pc'[Reader] \in Stopping <=> pc[Reader] \in Stopping

LEMMA PlaceMoved ==
  ASSUME TypeOK, NEW t \in Tasks, NEW p, Goto(t, p), p \notin Stopping,
         pc[t] \notin Stopping
  PROVE  SamePlace
BY ReaderTask DEF Goto, TypeOK, SamePlace

LEMMA PlaceSpawned ==
  ASSUME TypeOK, NEW n, NEW j, NEW locations, Spawn(n, j, locations),
         locations[Reader] \in Stopping <=> pc[Reader] \in Stopping
  PROVE  SamePlace
BY ReaderTask DEF Spawn, Stopping, SamePlace

LEMMA LoopPlace == \A t : LoopTo(t) \notin Stopping
BY DEF LoopTo, Stopping

\* What does not stop the session takes nobody there or away from there.
LEMMA PlaceKept ==
  ASSUME TypeOK, NEW t \in Tasks, TaskStep(t),
         ~SettleEnds(t), ~StopLocked(t), ~StopsNotify(t), ~Disconnects(t),
         ~StopFails(t)
  PROVE  SamePlace /\ UNCHANGED <<snapshot, dps>>
<1>1. CASE WriteFails(t)
  <2> DEFINE p == IF call[t].req \in Handshake THEN LoopTo(t) ELSE AfterError(t)
             n == IF Connected /\ paired /\ ~expected THEN 2 ELSE 1
             j == IF paired' THEN "resend" ELSE "reconnect"
             locations == [pc EXCEPT ![t] = p]
  <2>1. Spawn(n, j, locations) /\ pc[t] = "write" /\ UNCHANGED <<snapshot, dps>>
    BY <1>1 DEF WriteFails
  <2>2. p \notin Stopping /\ pc[t] \notin Stopping
    BY <2>1, LoopPlace DEF AfterError, Stopping
  <2>3. locations[Reader] \in Stopping <=> pc[Reader] \in Stopping
    <3> HIDE DEF p
    <3> QED BY <2>2, ReaderTask DEF TypeOK
  <2> HIDE DEF n, j, p, locations
  <2> QED BY <2>1, <2>3, PlaceSpawned
<1>2. CASE ~WriteFails(t)
  <2>1. /\ \E p : p \notin Stopping /\ Goto(t, p)
        /\ pc[t] \notin Stopping /\ UNCHANGED <<snapshot, dps>>
    <3>1. CASE StartQueues(t) \/ StartGivesUp(t) \/ StartSends(t)
               \/ RecheckConnects(t) \/ Connects(t) \/ BacksOff(t)
      BY <3>1 DEF StartQueues, StartGivesUp, StartSends, RecheckConnects,
                  Connects, BacksOff, Stopping
    <3>2. CASE Written(t) \/ StatusAnswered(t)
      BY <3>2 DEF Written, StatusAnswered, Stopping
    <3>3. CASE RecheckReady(t) \/ PairAnswered(t)
      BY <3>3 DEF RecheckReady, PairAnswered, Accepted, Proceed, Stopping
    <3>4. CASE ConnectFails(t) \/ NotifyFails(t) \/ HandshakeRefused(t)
      BY <3>4, LoopPlace DEF ConnectFails, NotifyFails, HandshakeRefused, Stopping
    <3>5. CASE Notifies(t) \/ InfoAnswered(t)
      BY <3>5, LoopPlace DEF Notifies, InfoAnswered, Accepted, Stopping
    <3>6. CASE TimesOut(t)
      BY <3>6, LoopPlace DEF TimesOut, Unanswered, Stopping
    <3> QED BY <1>2, <3>1, <3>2, <3>3, <3>4, <3>5, <3>6 DEF TaskStep
  <2> QED BY <2>1, PlaceMoved
<1> QED BY <1>1, <1>2

LEMMA SnapshotTask ==
  ASSUME TypeOK, Roles, SnapshotInv, NEW t \in Tasks, TaskStep(t)
  PROVE  SnapshotInv'
<1>1. CASE SettleEnds(t)
  <2>1. pc[t] = "settle"
    BY <1>1 DEF SettleEnds
  <2>2. t = Reader
    BY <2>1 DEF Roles, Role, Settling
  <2>3. /\ snapshot'.made = "list" \/ (snapshot'.made = "error" /\ dps # {})
        /\ UNCHANGED dps
    BY <1>1 DEF SettleEnds, ListOf, Unpackable
  <2>4. pc'[Reader] \in Stopping \/ outcome' # "running"
    BY <1>1, <2>2, EndingType
       DEF SettleEnds, ExecuteDisconnect, Goto, TypeOK, Stopping
  <2> QED BY <2>3, <2>4 DEF SnapshotInv
<1>2. CASE StopLocked(t) \/ StopsNotify(t) \/ Disconnects(t) \/ StopFails(t)
  <2>1. pc[t] \in Stopping /\ UNCHANGED <<snapshot, dps>>
    BY <1>2 DEF StopLocked, StopsNotify, Disconnects, StopFails, Stopping
  <2>2. t = Reader
    BY <2>1 DEF Roles, Role, Settling, Stopping
  <2>3. pc'[Reader] \in Stopping \/ outcome' # "running"
    BY <1>2, <2>2, EndingType
       DEF StopLocked, ExecuteDisconnect, StopsNotify, Disconnects, StopFails,
           Goto, TypeOK, Stopping
  <2> QED BY <2>1, <2>2, <2>3 DEF SnapshotInv
<1>3. CASE /\ ~SettleEnds(t) /\ ~StopLocked(t) /\ ~StopsNotify(t)
           /\ ~Disconnects(t) /\ ~StopFails(t)
  <2>1. SamePlace /\ UNCHANGED <<snapshot, dps>>
    BY <1>3, PlaceKept
  <2>2. outcome' = "running" => outcome = "running"
    BY OutcomeSet
  <2> QED BY <2>1, <2>2 DEF SnapshotInv, SamePlace
<1> QED BY <1>1, <1>2, <1>3

LEMMA SnapshotEnvironment ==
  ASSUME TypeOK, SnapshotInv, Deliver \/ BoardReports \/ Drops
  PROVE  SnapshotInv'
<1>1. UNCHANGED <<snapshot, outcome>> /\ dps \subseteq dps'
  BY DEF Deliver, BoardReports, Drops
<1>2. SamePlace
  <2>1. CASE BoardReports
    BY <2>1 DEF BoardReports, SamePlace
  <2>2. CASE Deliver \/ Drops
    <3>1. \E n, j : Spawn(n, j, pc)
      BY <2>2 DEF Deliver, Drops
    <3> QED BY <3>1, PlaceSpawned
  <2> QED BY <2>1, <2>2
<1> QED BY <1>1, <1>2 DEF SnapshotInv, SamePlace

LEMMA SnapshotAlways == Spec => []SnapshotInv
<1>1. Init => SnapshotInv
  BY ReaderTask DEF Init, SnapshotInv, NoSnapshot, Stopping
<1>2. Inv /\ AnswersInv /\ SnapshotInv /\ [Next]_vars => SnapshotInv'
  <2>1. CASE UNCHANGED vars
    BY <2>1 DEF vars, SnapshotInv
  <2>2. Inv /\ AnswersInv => TypeOK /\ Roles
    BY DEF Inv, AnswersInv
  <2> QED BY <2>1, <2>2, SnapshotTask, SnapshotEnvironment DEF Next
<1> QED BY <1>1, <1>2, InitInv, NextInv, AnswersAlways, PTL DEF Spec

\* What the caller gets changes in steps that the board has no part in, and the
\* snapshot only where the settle window ends.
LEMMA ResultSet ==
  ASSUME TypeOK, Roles, SnapshotInv, NEW t \in Tasks, TaskStep(t),
         ~UNCHANGED <<outcome, snapshot>>
  PROVE  /\ UNCHANGED <<dps, answered, reused>>
         /\ outcome' # outcome =>
              \/ outcome' \in {"BleakError", "TuyaBLEError"}
              \/ outcome' = Ending(snapshot') /\ snapshot'.made # "none"
         /\ snapshot' # snapshot =>
              /\ pc[Reader] = "settle"
              /\ snapshot' = ListOf(dps) \/ (snapshot' = Unpackable /\ dps # {})
              /\ outcome' \in {outcome, Ending(snapshot')}
<1>1. CASE SettleEnds(t)
  <2>1. pc[t] = "settle"
    BY <1>1 DEF SettleEnds
  <2>2. t = Reader
    BY <2>1 DEF Roles, Role, Settling
  <2>3. /\ snapshot' = ListOf(dps) \/ (snapshot' = Unpackable /\ dps # {})
        /\ UNCHANGED <<dps, answered, reused>>
    BY <1>1 DEF SettleEnds
  <2>4. outcome' \in {outcome, Ending(snapshot')}
    BY <1>1 DEF SettleEnds, ExecuteDisconnect
  <2>5. snapshot'.made # "none"
    BY <2>3 DEF ListOf, Unpackable
  <2> QED BY <2>1, <2>2, <2>3, <2>4, <2>5
<1>2. CASE ConnectFails(t) \/ Notifies(t) \/ NotifyFails(t) \/ WriteFails(t)
           \/ InfoAnswered(t) \/ HandshakeRefused(t) \/ TimesOut(t)
  BY <1>2 DEF ConnectFails, Notifies, NotifyFails, WriteFails, InfoAnswered,
     HandshakeRefused, TimesOut, LoopAgain
<1>3. CASE StatusAnswered(t) \/ StopFails(t)
  BY <1>3 DEF StatusAnswered, StopFails
<1>4. CASE StopLocked(t) \/ Disconnects(t)
  <2>1. /\ pc[t] \in Stopping /\ UNCHANGED <<dps, answered, reused, snapshot>>
        /\ outcome' \in {outcome, Ending(snapshot)}
    BY <1>4 DEF StopLocked, ExecuteDisconnect, Disconnects, Stopping
  <2>2. t = Reader
    BY <2>1 DEF Roles, Role, Settling, Stopping
  <2>3. snapshot.made # "none"
    BY <2>1, <2>2 DEF SnapshotInv
  <2> QED BY <2>1, <2>3
<1>5. CASE \/ StartQueues(t) \/ StartGivesUp(t) \/ StartSends(t)
           \/ RecheckReady(t) \/ RecheckConnects(t) \/ Connects(t)
           \/ Written(t) \/ PairAnswered(t) \/ BacksOff(t) \/ StopsNotify(t)
  BY <1>5 DEF StartQueues, StartGivesUp, StartSends, RecheckReady,
     RecheckConnects, Connects, Written, PairAnswered, BacksOff, StopsNotify
<1> QED BY <1>1, <1>2, <1>3, <1>4, <1>5 DEF TaskStep

\* The board's part: it reports, accepts and refuses more and more.
LEMMA StepBoard ==
  ASSUME Inv, Inv', Next, UNCHANGED <<outcome, snapshot>>
  PROVE  Read!Board
<1>1. dps \subseteq dps' /\ answered \subseteq answered' /\ (reused => reused')
  BY StoreGrows, AnsweredStays, ReusedStays DEF Inv
<1>2. dps' \in SUBSET DPs /\ reused \in BOOLEAN /\ reused' \in BOOLEAN
  BY DEF Inv, TypeOK
<1> QED BY <1>1, <1>2 DEF Read!Board

\* A step of the read is a step of BoardRead, or none.
LEMMA StepReads ==
  ASSUME Inv, Inv', AnswersInv, SnapshotInv, Next
  PROVE  [Read!Next]_(Read!vars)
<1>1. TypeOK /\ Roles
  BY DEF Inv, AnswersInv
<1>2. CASE UNCHANGED <<outcome, snapshot>>
  BY <1>2, StepBoard DEF Read!Next
<1>3. CASE ~UNCHANGED <<outcome, snapshot>>
  <2>1. PICK t \in Tasks : TaskStep(t)
    <3>1. CASE Deliver \/ BoardReports \/ Drops
      BY <1>3, <3>1 DEF Deliver, BoardReports, Drops
    <3> QED BY <3>1 DEF Next
  <2>2. /\ UNCHANGED <<dps, answered, reused>>
        /\ outcome' # outcome =>
             \/ outcome' \in {"BleakError", "TuyaBLEError"}
             \/ outcome' = Ending(snapshot') /\ snapshot'.made # "none"
        /\ snapshot' # snapshot =>
             /\ pc[Reader] = "settle"
             /\ snapshot' = ListOf(dps) \/ (snapshot' = Unpackable /\ dps # {})
             /\ outcome' \in {outcome, Ending(snapshot')}
    BY <1>1, <1>3, <2>1, ResultSet
  <2>3. /\ outcome' # outcome => outcome = "running"
        /\ outcome' # outcome /\ outcome' \in {"returned", "struct.error"}
             => pc[Reader] \in Settling
        /\ outcome' # outcome /\ outcome' = "TuyaBLEError" =>
             call[Reader].req = "status" /\ call[Reader].reply = "error"
    BY <1>1, <2>1, OutcomeSet
  <2>4. outcome = "running"
    BY <1>1, <1>3, <2>2, <2>3 DEF Roles
  <2>5. reused \/ Earned
    BY <1>1, <2>4 DEF AnswersInv, Fresh
  <2>6. /\ pc[Reader] \in Settling => reused \/ Granted
        /\ call[Reader].req = "status" /\ call[Reader].reply = "error"
             => reused \/ Refused
    BY <2>5, ReaderTask DEF Earned
  <2>7. /\ snapshot' # snapshot => snapshot = NoSnapshot /\ (reused \/ Granted)
        /\ snapshot \in Snapshots /\ snapshot' \in Snapshots
    <3>1. "settle" \in Settling /\ "settle" \notin Stopping
      BY DEF Settling, Stopping
    <3>2. snapshot \in Snapshots /\ snapshot' \in Snapshots
      BY DEF Inv, TypeOK
    <3> QED BY <2>2, <2>4, <2>6, <3>1, <3>2 DEF SnapshotInv
  <2>8. CASE outcome' = outcome
    BY <1>3, <2>2, <2>4, <2>7, <2>8
       DEF Read!Collect, Read!Next, Read!vars, Granted, NoSnapshot, ListOf,
           Unpackable
  <2>9. CASE outcome' # outcome /\ outcome' = "returned"
    <3>1. snapshot'.made = "list"
      BY <2>2, <2>7, <2>9 DEF Ending, Snapshots, ListOf, NoSnapshot, Unpackable
    <3>2. CASE snapshot' = snapshot
      BY <2>2, <2>3, <2>4, <2>6, <2>9, <3>1, <3>2
         DEF Read!Return, Read!End, Read!Next, Granted
    <3>3. CASE snapshot' # snapshot
      BY <2>2, <2>3, <2>4, <2>6, <2>7, <2>9, <3>1, <3>3
         DEF Read!Return, Read!End, Read!Next, Granted, NoSnapshot, ListOf,
             Unpackable
    <3> QED BY <3>2, <3>3
  <2>10. CASE outcome' # outcome /\ outcome' = "struct.error"
    <3>1. snapshot'.made = "error"
      BY <2>2, <2>10 DEF Ending
    <3>2. dps # {} /\ snapshot.made # "list" /\ snapshot'.ids = snapshot.ids
      BY <2>2, <2>7, <3>1 DEF SnapshotInv, NoSnapshot, ListOf, Unpackable
    <3> QED BY <2>2, <2>3, <2>4, <2>6, <2>10, <3>1, <3>2
            DEF Read!RaiseUnpackable, Read!End, Read!Next, Granted
  <2>11. CASE outcome' # outcome /\ outcome' = "TuyaBLEError"
    <3>1. snapshot' = snapshot
      BY <2>2, <2>11 DEF Ending
    <3> QED BY <2>2, <2>3, <2>4, <2>6, <2>11, <3>1
            DEF Read!RaiseRefusal, Read!End, Read!Next, Refused
  <2>12. CASE outcome' # outcome /\ outcome' = "BleakError"
    <3>1. snapshot' = snapshot
      BY <2>2, <2>12 DEF Ending
    <3> QED BY <2>2, <2>4, <2>12, <3>1 DEF Read!RaiseTransport, Read!End, Read!Next
  <2> QED BY <2>2, <2>8, <2>9, <2>10, <2>11, <2>12, EndingType
<1> QED BY <1>2, <1>3

\* A read keeps the safety part of BoardRead, for any number of tasks, attempts
\* and faults: it ends once, with the datapoints reported after the board granted
\* the pairing, with struct.error if one of them cannot be packed, with the
\* refusal of the status request, or with a transport error; what the board
\* granted and refused is unknown once a number was reused.
THEOREM ReadKept == Spec => Read!Init /\ [][Read!Next]_(Read!vars)
<1>1. Init => Read!Init
  BY DEF Init, Read!Init, NoSnapshot
<1>2. Inv /\ Inv' /\ AnswersInv /\ SnapshotInv /\ [Next]_vars
        => [Read!Next]_(Read!vars)
  <2>1. CASE UNCHANGED vars
    BY <2>1 DEF vars, Read!vars
  <2> QED BY <2>1, StepReads
<1> QED BY <1>1, <1>2, InitInv, NextInv, AnswersAlways, SnapshotAlways, PTL
        DEF Spec

=============================================================================
