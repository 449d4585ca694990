---------------------------- MODULE TuyaBLEDevice ----------------------------
(***************************************************************************)
(* One read of the board over BLE: TuyaEboardDevice.read_all_dps and the   *)
(* vendored TuyaBLEDevice session it drives.  Everything runs on one       *)
(* asyncio loop, so an action is the code a task runs from one await to    *)
(* the next; the tasks are the reader and whatever the session spawned     *)
(* with asyncio.create_task (_reconnect, _resend_packets, _send_response). *)
(*                                                                         *)
(* The board and the radio are external: `link' is how far the physical    *)
(* connection and the board's session have come, `air' holds the           *)
(* notifications on their way to the host.                                 *)
(***************************************************************************)
EXTENDS Integers, Sequences, FiniteSets

CONSTANTS
  Reader,      \* the task that runs read_all_dps
  Background,  \* slots for the tasks the session spawns (bounds how many live)
  DPs,         \* datapoint ids the board may report
  Attempts,    \* attempts_count of _ensure_connected
  KeyValid,    \* whether the local key is the one the board was paired with
  MaxFaults,   \* how often the radio or the board misbehaves
  MaxAir,      \* how many reports may be in flight
  MaxAcked     \* how many messages that call for a response the board sends

Tasks == {Reader} \cup Background

ASSUME TasksAssumption == Reader \notin Background
ASSUME AttemptsAssumption == Attempts \in Nat /\ Attempts >= 2
ASSUME BoundsAssumption ==
  /\ KeyValid \in BOOLEAN
  /\ MaxFaults \in Nat /\ MaxAir \in Nat /\ MaxAcked \in Nat

VARIABLES
  pc,         \* where each task is suspended
  job,        \* which coroutine each task runs
  call,       \* the request each task is sending, with the state of its future
  outcome,    \* how read_all_dps ended, "running" until then
  snapshot,   \* what _snapshot() made: the datapoint ids, or an error
  expected,   \* _expected_disconnect
  client,     \* _client is not None
  paired,     \* _is_paired
  attempts,   \* attempts_count of the task in the connect loop, else 0
  seqNum,     \* _current_seq_num
  expecting,  \* _input_expected_responses, as [seq, task] entries
  connectQ,   \* _connect_lock: holder first, then the waiters in order
  opQ,        \* _operation_lock, likewise
  dps,        \* ids in the datapoint store
  link,       \* the physical link and the board's session on it
  air,        \* notifications in flight, oldest first
  answered,   \* every [req, result] the board ever answered (history)
  faults, acked, \* budgets spent
  reused         \* numbers restarted while one was in use (history)

vars == <<pc, job, call, outcome, snapshot, expected, client, paired, attempts,
          seqNum, expecting, connectQ, opQ, dps, link, air, answered, faults,
          acked, reused>>

Jobs      == {"read", "reconnect", "resend", "response", "none"}
Handshake == {"device_info", "pair"}
Requests  == Handshake \cup {"status", "resend", "response", "none"}
Locations == {"idle", "start", "queued", "connect", "notify", "write", "await",
              "backoff", "settle", "stopping", "stop_notify", "disconnecting",
              "done"}
Outcomes  == {"running", "returned", "BleakError", "TuyaBLEError",
              "struct.error"}
Links     == {"down", "up", "keyed", "paired"}

\* _snapshot() was not called yet, gave the list of the ids in D, or raised.
NoSnapshot  == [made |-> "none", ids |-> {}]
ListOf(D)   == [made |-> "list", ids |-> D]
Unpackable  == [made |-> "error", ids |-> {}]
Snapshots   == {ListOf(D) : D \in SUBSET DPs} \cup {NoSnapshot, Unpackable}

NoCall  == [req |-> "none", seq |-> 0, reply |-> "none"]
ResendCall == [req |-> "resend", seq |-> 0, reply |-> "none"]
Calls   == [req : Requests, seq : Nat, reply : {"none", "ok", "error"}]
Message == [code : {"device_info", "pair", "status", "report"}, to : Nat,
            result : {0, 1}, dps : SUBSET DPs, ack : BOOLEAN]

TypeOK ==
  /\ pc \in [Tasks -> Locations] /\ job \in [Tasks -> Jobs]
  /\ call \in [Tasks -> Calls]
  /\ outcome \in Outcomes /\ snapshot \in Snapshots
  /\ expected \in BOOLEAN /\ client \in BOOLEAN /\ paired \in BOOLEAN
  /\ attempts \in Int /\ seqNum \in Nat \ {0}
  /\ expecting \subseteq [seq : Nat, task : Tasks]
  /\ connectQ \in Seq(Tasks) /\ opQ \in Seq(Tasks)
  /\ dps \in SUBSET DPs /\ link \in Links
  /\ air \in Seq(Message)
  /\ answered \subseteq [req : Requests, result : {0, 1}]
  /\ faults \in Nat /\ acked \in Nat /\ reused \in BOOLEAN

Init ==
  /\ pc = [t \in Tasks |-> IF t = Reader THEN "start" ELSE "idle"]
  /\ job = [t \in Tasks |-> IF t = Reader THEN "read" ELSE "none"]
  /\ call = [t \in Tasks |-> NoCall]
  /\ outcome = "running" /\ snapshot = NoSnapshot
  /\ expected = FALSE /\ client = FALSE /\ paired = FALSE
  /\ attempts = 0 /\ seqNum = 1 /\ expecting = {}
  /\ connectQ = <<>> /\ opQ = <<>>
  /\ dps = {} /\ link = "down" /\ air = <<>> /\ answered = {}
  /\ faults = 0 /\ acked = 0 /\ reused = FALSE

-----------------------------------------------------------------------------
(* What several handlers share. *)

Connected == client /\ link # "down"     \* _client and _client.is_connected
Ready     == Connected /\ paired

Holds(q, t) == q # <<>> /\ Head(q) = t
Spend == faults < MaxFaults /\ faults' = faults + 1

\* asyncio.create_task for n tasks running j, the others being at `locations'.
\* The slots of Background bound how many may be alive.
Spawn(n, j, locations) ==
  \E S \in SUBSET {b \in Background : locations[b] = "idle"} :
    /\ Cardinality(S) = n
    /\ pc' = [u \in Tasks |-> IF u \in S THEN "start" ELSE locations[u]]
    /\ job' = [u \in Tasks |-> IF u \in S THEN j
                               ELSE IF locations[u] = "idle" THEN "none"
                               ELSE job[u]]

Goto(t, p) ==
  /\ pc' = [pc EXCEPT ![t] = p]
  /\ job' = IF p = "idle" THEN [job EXCEPT ![t] = "none"] ELSE job

\* The state change of _disconnected; mutant: the expected disconnect returns
\* before it clears the pairing.
DisconnectedStaysPaired ==
  /\ paired' = (expected /\ paired)
  /\ client' = (expected /\ client)
Disconnected ==
  /\ paired' = FALSE
  /\ client' = (expected /\ client)

Pop(s) == {e \in expecting : e.seq # s}

\* _send_packet_while_connected up to the operation lock: a sequence number, a
\* future unless it is a response, and a place in the queue.  `futures' is what
\* is left of _input_expected_responses; mutant: the number is not advanced.
SendSameNumber(t, r, futures) ==
  /\ call' = [call EXCEPT ![t] = [req |-> r, seq |-> seqNum, reply |-> "none"]]
  /\ seqNum' = seqNum
  /\ expecting' = IF r = "response" THEN futures
                  ELSE {e \in futures : e.seq # seqNum}
                         \cup {[seq |-> seqNum, task |-> t]}
  /\ opQ' = Append(opQ, t)
Send(t, r, futures) ==
  /\ call' = [call EXCEPT ![t] = [req |-> r, seq |-> seqNum, reply |-> "none"]]
  /\ seqNum' = seqNum + 1
  /\ expecting' = IF r = "response" THEN futures
                  ELSE {e \in futures : e.seq # seqNum}
                         \cup {[seq |-> seqNum, task |-> t]}
  /\ opQ' = Append(opQ, t)

\* _resend_packets sends packets built before: no number, no future.
SendAgain(t, futures) ==
  /\ call' = [call EXCEPT ![t] = ResendCall]
  /\ expecting' = futures
  /\ opQ' = Append(opQ, t)
  /\ UNCHANGED seqNum

\* `continue' in the connect loop: another attempt, or BleakNotFoundError out of
\* _ensure_connected, which frees the connect lock and is the reader's outcome,
\* _reconnect's backoff, or the end of a _resend_packets task.
Exhausted == attempts = 1

LoopTo(t) == CASE ~Exhausted -> "connect"
               [] Exhausted /\ job[t] = "read" -> "done"
               [] Exhausted /\ job[t] = "reconnect" -> "backoff"
               [] OTHER -> "idle"

\* Mutants: the lock is not freed by the raise; it is held per attempt only.
LoopAgainKeepsLock(t) ==
  /\ attempts' = attempts - 1 /\ UNCHANGED connectQ
  /\ outcome' = IF Exhausted /\ job[t] = "read" THEN "BleakError" ELSE outcome
LoopAgainUnlocks(t) ==
  /\ attempts' = attempts - 1 /\ connectQ' = Tail(connectQ)
  /\ outcome' = IF Exhausted /\ job[t] = "read" THEN "BleakError" ELSE outcome

LoopAgain(t) ==
  /\ attempts' = attempts - 1
  /\ connectQ' = IF Exhausted THEN Tail(connectQ) ELSE connectQ
  /\ outcome' = IF Exhausted /\ job[t] = "read" THEN "BleakError" ELSE outcome

\* What a task does once _ensure_connected returned: update() asks for the
\* status, _resend_packets sends, _reconnect is done.
Proceed(t, futures) ==
  \/ /\ job[t] = "read" /\ ~expected
     /\ Send(t, "status", futures) /\ Goto(t, "write")
  \/ /\ job[t] = "resend" /\ ~expected
     /\ SendAgain(t, futures) /\ Goto(t, "write")
  \/ /\ job[t] = "reconnect" \/ (job[t] = "resend" /\ expected)
     /\ Goto(t, "idle")
     /\ call' = [call EXCEPT ![t] = NoCall]
     /\ expecting' = futures
     /\ UNCHANGED <<seqNum, opQ>>

-----------------------------------------------------------------------------
(* A task begins: read_all_dps, _reconnect, _resend_packets, _send_response. *)

\* `if self._expected_disconnect: return' before the lock; mutant: not checked.
NeverStopped == FALSE
Stopped == expected

\* The number of a request under way, or of an answer in flight.
Asks(t) == call[t].req \in Handshake \cup {"status"}
InUse == \/ \E t \in Tasks : Asks(t)
         \/ \E i \in 1..Len(air) : air[i].to # 0

\* _reconnect restarts the numbers; mutant: at 0, which means "unsolicited".
RenumberFromZero(t) ==
  /\ seqNum' = IF job[t] = "reconnect" THEN 0 ELSE seqNum
  /\ reused' = (reused \/ (job[t] = "reconnect" /\ InUse))
Renumber(t) ==
  /\ seqNum' = IF job[t] = "reconnect" THEN 1 ELSE seqNum
  /\ reused' = (reused \/ (job[t] = "reconnect" /\ InUse))

StartQueues(t) ==
  /\ pc[t] = "start" /\ job[t] # "response" /\ ~Stopped /\ ~Ready
  /\ Renumber(t)
  /\ connectQ' = Append(connectQ, t)
  /\ Goto(t, "queued")
  /\ UNCHANGED <<call, outcome, snapshot, expected, client, paired, attempts,
                 expecting, opQ, dps, link, air, answered, faults, acked>>

StartGivesUp(t) ==
  /\ pc[t] = "start"
  /\ \/ job[t] = "reconnect" /\ (Stopped \/ Ready)
     \/ job[t] = "resend" /\ Stopped
     \/ job[t] = "response" /\ ~Connected
  /\ Renumber(t)
  /\ Goto(t, "idle")
  /\ UNCHANGED <<call, outcome, snapshot, expected, client, paired, attempts,
                 expecting, connectQ, opQ, dps, link, air, answered, faults,
                 acked>>

StartSends(t) ==
  /\ pc[t] = "start"
  /\ \/ job[t] = "resend" /\ ~Stopped /\ Ready /\ SendAgain(t, expecting)
     \/ job[t] = "response" /\ Connected /\ Send(t, "response", expecting)
  /\ Goto(t, "write")
  /\ UNCHANGED <<outcome, snapshot, expected, client, paired, attempts,
                 connectQ, dps, link, air, answered, faults, acked, reused>>

-----------------------------------------------------------------------------
(* _ensure_connected, holding the connect lock. *)

RecheckReady(t) ==
  /\ pc[t] = "queued" /\ Holds(connectQ, t) /\ Ready
  /\ connectQ' = Tail(connectQ)
  /\ Proceed(t, expecting)
  /\ UNCHANGED <<outcome, snapshot, expected, client, paired, attempts, dps,
                 link, air, answered, faults, acked, reused>>

RecheckConnects(t) ==
  /\ pc[t] = "queued" /\ Holds(connectQ, t) /\ ~Ready
  /\ attempts' = Attempts - 1
  /\ Goto(t, "connect")
  /\ UNCHANGED <<call, outcome, snapshot, expected, client, paired, seqNum,
                 expecting, connectQ, opQ, dps, link, air, answered, faults,
                 acked, reused>>

\* A link that an earlier attempt left up is the one the new client uses.
Connects(t) ==
  /\ pc[t] = "connect"
  /\ client' = TRUE
  /\ link' = IF link = "down" THEN "up" ELSE link
  /\ Goto(t, "notify")
  /\ UNCHANGED <<call, outcome, snapshot, expected, paired, attempts, seqNum,
                 expecting, connectQ, opQ, dps, air, answered, faults, acked,
                 reused>>

\* As often as it likes: the board is asleep or out of range.
ConnectFails(t) ==
  /\ pc[t] = "connect"
  /\ LoopAgain(t) /\ Goto(t, LoopTo(t))
  /\ UNCHANGED <<call, snapshot, expected, client, paired, seqNum, expecting,
                 opQ, dps, link, air, answered, faults, acked, reused>>

Notifies(t) ==
  /\ pc[t] = "notify" /\ link # "down"
  /\ \/ /\ Connected
        /\ Send(t, "device_info", expecting) /\ Goto(t, "write")
        /\ UNCHANGED <<attempts, connectQ, outcome>>
     \/ /\ ~Connected
        /\ LoopAgain(t) /\ Goto(t, LoopTo(t))
        /\ UNCHANGED <<call, seqNum, expecting, opQ>>
  /\ UNCHANGED <<snapshot, expected, client, paired, dps, link, air, answered,
                 faults, acked, reused>>

NotifyFails(t) ==
  /\ pc[t] = "notify"
  /\ IF link = "down" THEN UNCHANGED faults ELSE Spend
  /\ client' = FALSE
  /\ LoopAgain(t) /\ Goto(t, LoopTo(t))
  /\ UNCHANGED <<call, snapshot, expected, paired, seqNum, expecting, opQ, dps,
                 link, air, answered, acked, reused>>

-----------------------------------------------------------------------------
(* The write under the operation lock, and the board's reaction to it. *)

CanServe(r) ==
  \/ r = "device_info" /\ KeyValid
  \/ r = "pair" /\ link \in {"keyed", "paired"}
  \/ r = "status" /\ link = "paired"

\* What the board may make of request r: nothing it is able to answer, silence,
\* or an answer, 0 for success (a pair answer's 2, "already paired", is made 0
\* before anything looks at it); silence and refusal are faults.
Reacts(t, r) ==
  \/ /\ ~CanServe(r)
     /\ UNCHANGED <<link, air, answered, faults>>
  \/ /\ CanServe(r) /\ Spend
     /\ UNCHANGED <<link, air, answered>>
  \/ \E result \in {0, 1} :
       /\ CanServe(r)
       /\ r = "device_info" => result = 0
       /\ IF result = 1 THEN Spend ELSE UNCHANGED faults
       /\ air' = Append(air, [code |-> r, to |-> call[t].seq, result |-> result,
                              dps |-> {}, ack |-> FALSE])
       /\ answered' = answered \cup {[req |-> r, result |-> result]}
       /\ link' = CASE r = "device_info" -> "keyed"
                    [] r = "pair" /\ result = 0 -> "paired"
                    [] OTHER -> link

\* stop() may take the client away under a write on its way.
Written(t) ==
  /\ pc[t] = "write" /\ Holds(opQ, t) /\ link # "down" /\ (client \/ expected)
  /\ opQ' = Tail(opQ)
  /\ Reacts(t, call[t].req)
  /\ IF call[t].req \in {"resend", "response"}
     THEN Goto(t, "idle") /\ call' = [call EXCEPT ![t] = NoCall]
     ELSE Goto(t, "await") /\ UNCHANGED call
  /\ UNCHANGED <<outcome, snapshot, expected, client, paired, attempts, seqNum,
                 expecting, connectQ, dps, acked, reused>>

\* Where the BleakError of a failed write takes the task, past the connect loop.
AfterError(t) == IF job[t] = "read" THEN "done" ELSE "idle"

\* The code leaves the future of a failed request in the dictionary; an entry
\* nobody waits for is as good as none.
WriteFails(t) ==
  /\ pc[t] = "write" /\ Holds(opQ, t)
  /\ IF Connected THEN Spend ELSE UNCHANGED faults
  /\ opQ' = Tail(opQ)
  /\ call' = [call EXCEPT ![t] = NoCall]
  /\ paired' = (paired /\ ~Connected)
  /\ LET inLoop == call[t].req \in Handshake
         spawned == IF Connected /\ paired /\ ~expected THEN 2 ELSE 1
     IN /\ client' = (client /\ ~inLoop /\ ~(Connected /\ ~expected))
        /\ Spawn(spawned, IF paired' THEN "resend" ELSE "reconnect",
                 [pc EXCEPT ![t] = IF inLoop THEN LoopTo(t) ELSE AfterError(t)])
        /\ IF inLoop THEN LoopAgain(t)
           ELSE /\ outcome' = IF job[t] = "read" THEN "BleakError" ELSE outcome
                /\ UNCHANGED <<attempts, connectQ>>
  /\ expecting' = {e \in expecting : e.task # t}
  /\ UNCHANGED <<snapshot, expected, seqNum, dps, link, air, answered, acked,
                 reused>>

-----------------------------------------------------------------------------
(* The wait for the answer. *)

\* The answer to request r came and is a success; mutant: whatever it says.
AnsweredAnyhow(t, r) ==
  pc[t] = "await" /\ call[t].req = r /\ call[t].reply # "none"
Accepted(t, r) ==
  pc[t] = "await" /\ call[t].req = r /\ call[t].reply = "ok"

\* DEVICE_INFO answered: pair next, if still connected.
InfoAnswered(t) ==
  /\ Accepted(t, "device_info")
  /\ \/ /\ Connected
        /\ Send(t, "pair", Pop(call[t].seq)) /\ Goto(t, "write")
        /\ UNCHANGED <<attempts, connectQ, outcome>>
     \/ /\ ~Connected
        /\ LoopAgain(t) /\ Goto(t, LoopTo(t))
        /\ expecting' = Pop(call[t].seq)
        /\ call' = [call EXCEPT ![t] = NoCall]
        /\ UNCHANGED <<seqNum, opQ>>
  /\ UNCHANGED <<snapshot, expected, client, paired, dps, link, air, answered,
                 faults, acked, reused>>

PairAnswered(t) ==
  /\ Accepted(t, "pair")
  /\ connectQ' = Tail(connectQ) /\ attempts' = 0
  /\ Proceed(t, Pop(call[t].seq))
  /\ UNCHANGED <<outcome, snapshot, expected, client, paired, dps, link, air,
                 answered, faults, acked, reused>>

\* Mutant: the loop catches bleak's errors only.
HandshakeRefusedRaises(t) ==
  /\ pc[t] = "await" /\ call[t].reply = "error" /\ call[t].req \in Handshake
  /\ client' = FALSE /\ attempts' = 0 /\ connectQ' = Tail(connectQ)
  /\ call' = [call EXCEPT ![t] = NoCall]
  /\ outcome' = IF job[t] = "read" THEN "TuyaBLEError" ELSE outcome
  /\ Goto(t, IF job[t] = "read" THEN "done" ELSE "idle")
  /\ UNCHANGED <<snapshot, expected, paired, seqNum, expecting, opQ, dps, link,
                 air, answered, faults, acked, reused>>

\* The bare excepts of the loop swallow the board's refusal.
HandshakeRefused(t) ==
  /\ pc[t] = "await" /\ call[t].reply = "error" /\ call[t].req \in Handshake
  /\ client' = FALSE
  /\ call' = [call EXCEPT ![t] = NoCall]
  /\ LoopAgain(t) /\ Goto(t, LoopTo(t))
  /\ UNCHANGED <<snapshot, expected, paired, seqNum, expecting, opQ, dps, link,
                 air, answered, faults, acked, reused>>

StatusAnswered(t) ==
  /\ pc[t] = "await" /\ call[t].req = "status" /\ call[t].reply # "none"
  /\ call' = [call EXCEPT ![t] = NoCall]
  /\ IF call[t].reply = "ok"
     THEN /\ expecting' = Pop(call[t].seq)
          /\ Goto(t, "settle") /\ UNCHANGED outcome
     ELSE /\ outcome' = "TuyaBLEError"
          /\ Goto(t, "done") /\ UNCHANGED expecting
  /\ UNCHANGED <<snapshot, expected, client, paired, attempts, seqNum, connectQ,
                 opQ, dps, link, air, answered, faults, acked, reused>>

\* Mutant: wait_for only in the connect loop.
UnansweredInLoop(t) ==
  pc[t] = "await" /\ call[t].reply = "none" /\ call[t].req \in Handshake
Unanswered(t) == pc[t] = "await" /\ call[t].reply = "none"

\* RESPONSE_WAIT_TIMEOUT passes; it takes a fault to outlast an answer on its way.
TimesOut(t) ==
  /\ Unanswered(t)
  /\ IF /\ [seq |-> call[t].seq, task |-> t] \in expecting
        /\ \E i \in 1..Len(air) : air[i].to = call[t].seq
     THEN Spend ELSE UNCHANGED faults
  /\ expecting' = Pop(call[t].seq)
  /\ call' = [call EXCEPT ![t] = NoCall]
  /\ IF call[t].req \in Handshake
     THEN client' = FALSE /\ LoopAgain(t) /\ Goto(t, LoopTo(t))
     ELSE Goto(t, "settle") /\ UNCHANGED <<client, attempts, connectQ, outcome>>
  /\ UNCHANGED <<snapshot, expected, paired, seqNum, opQ, dps, link, air,
                 answered, acked, reused>>

\* _reconnect after BleakNotFoundError: sleeps and spawns itself anew.
BacksOff(t) ==
  /\ pc[t] = "backoff"
  /\ Goto(t, "start")
  /\ UNCHANGED <<call, outcome, snapshot, expected, client, paired, attempts,
                 seqNum, expecting, connectQ, opQ, dps, link, air, answered,
                 faults, acked, reused>>

-----------------------------------------------------------------------------
(* The end of read_all_dps: snapshot, then stop() -> _execute_disconnect. *)

\* `return self._snapshot()' goes on, with its list or its error, once stop() is
\* through; mutant: an error that the finally swallows.
EndingSwallowed(shot) == "returned"
Ending(shot) == IF shot.made = "error" THEN "struct.error" ELSE "returned"

\* _execute_disconnect has the connect lock, `queue' being the lock's.
ExecuteDisconnect(t, queue, shot) ==
  /\ expected' = TRUE /\ client' = FALSE
  /\ IF Connected
     THEN /\ connectQ' = queue /\ Goto(t, "stop_notify")
          /\ UNCHANGED <<seqNum, outcome>>
     ELSE /\ connectQ' = Tail(queue) /\ seqNum' = 1
          /\ outcome' = Ending(shot) /\ Goto(t, "done")

\* _get_value may be unable to pack one of the stored values; stop() runs all the
\* same, and a free lock is taken without a pause.
SettleEnds(t) ==
  /\ pc[t] = "settle"
  /\ \/ snapshot' = ListOf(dps)
     \/ dps # {} /\ snapshot' = Unpackable
  /\ IF connectQ = <<>>
     THEN ExecuteDisconnect(t, <<t>>, snapshot')
     ELSE /\ connectQ' = Append(connectQ, t) /\ Goto(t, "stopping")
          /\ UNCHANGED <<outcome, expected, client, seqNum>>
  /\ UNCHANGED <<call, paired, attempts, expecting, opQ, dps, link, air,
                 answered, faults, acked, reused>>

StopLocked(t) ==
  /\ pc[t] = "stopping" /\ Holds(connectQ, t)
  /\ ExecuteDisconnect(t, connectQ, snapshot)
  /\ UNCHANGED <<call, snapshot, paired, attempts, expecting, opQ, dps, link,
                 air, answered, faults, acked, reused>>

\* Unsubscribed, the board's notifications no longer reach the host.
StopsNotify(t) ==
  /\ pc[t] = "stop_notify"
  /\ link' = IF link = "down" THEN "down" ELSE "up"
  /\ air' = <<>>
  /\ Goto(t, "disconnecting")
  /\ UNCHANGED <<call, outcome, snapshot, expected, client, paired, attempts,
                 seqNum, expecting, connectQ, opQ, dps, answered, faults, acked,
                 reused>>

\* client.disconnect(), with the _disconnected callback it causes.
Disconnects(t) ==
  /\ pc[t] = "disconnecting"
  /\ link' = "down"
  /\ Disconnected
  /\ connectQ' = Tail(connectQ) /\ seqNum' = 1
  /\ outcome' = Ending(snapshot) /\ Goto(t, "done")
  /\ UNCHANGED <<call, snapshot, expected, attempts, expecting, opQ, dps, air,
                 answered, faults, acked, reused>>

\* stop_notify or disconnect raises: the lock is freed, the error is the read's,
\* also in place of the snapshot's, and nothing else closes the link.
StopFails(t) ==
  /\ pc[t] \in {"stop_notify", "disconnecting"} /\ Spend
  /\ connectQ' = Tail(connectQ)
  /\ outcome' = "BleakError" /\ Goto(t, "done")
  /\ UNCHANGED <<call, snapshot, expected, client, paired, attempts, seqNum,
                 expecting, opQ, dps, link, air, answered, acked, reused>>

-----------------------------------------------------------------------------
(* The radio and the board. *)

\* _notification_handler with a whole message: the handler's effect, the pending
\* future, and the response task the message calls for.
Deliver ==
  /\ air # <<>>
  /\ LET m == Head(air)
         waits(u) == /\ [seq |-> m.to, task |-> u] \in expecting
                     /\ call[u].seq = m.to
     IN /\ paired' = IF m.code = "pair" THEN m.result = 0 ELSE paired
        /\ dps' = dps \cup m.dps
        /\ expecting' = Pop(m.to)
        /\ call' = [u \in Tasks |->
                      IF waits(u)
                      THEN [call[u] EXCEPT !.reply =
                              IF m.result = 1 THEN "error" ELSE "ok"]
                      ELSE call[u]]
        /\ Spawn(IF m.ack THEN 1 ELSE 0, "response", pc)
  /\ air' = Tail(air)
  /\ UNCHANGED <<outcome, snapshot, expected, client, attempts, seqNum,
                 connectQ, opQ, link, answered, faults, acked, reused>>

\* The board reports datapoints unasked, or (no datapoints) asks for the time;
\* all but a v4 report call for a response.
BoardReports ==
  /\ link \in {"keyed", "paired"} /\ Len(air) < MaxAir
  /\ \E D \in SUBSET DPs, ack \in BOOLEAN :
       /\ D = {} => ack
       /\ IF ack THEN acked < MaxAcked /\ acked' = acked + 1 ELSE UNCHANGED acked
       /\ air' = Append(air, [code |-> "report", to |-> 0, result |-> 0,
                              dps |-> D, ack |-> ack])
  /\ UNCHANGED <<pc, job, call, outcome, snapshot, expected, client, paired,
                 attempts, seqNum, expecting, connectQ, opQ, dps, link,
                 answered, faults, reused>>

\* The link is lost: bleak calls _disconnected.
Drops ==
  /\ link # "down" /\ Spend
  /\ link' = "down" /\ air' = <<>>
  /\ Disconnected
  /\ Spawn(IF paired /\ ~expected THEN 1 ELSE 0, "reconnect", pc)
  /\ UNCHANGED <<call, outcome, snapshot, expected, attempts, seqNum, expecting,
                 connectQ, opQ, dps, answered, acked, reused>>

-----------------------------------------------------------------------------

TaskStep(t) ==
  \/ StartQueues(t) \/ StartGivesUp(t) \/ StartSends(t)
  \/ RecheckReady(t) \/ RecheckConnects(t)
  \/ Connects(t) \/ ConnectFails(t) \/ Notifies(t) \/ NotifyFails(t)
  \/ Written(t) \/ WriteFails(t)
  \/ InfoAnswered(t) \/ PairAnswered(t) \/ HandshakeRefused(t)
  \/ StatusAnswered(t) \/ TimesOut(t) \/ BacksOff(t)
  \/ SettleEnds(t) \/ StopLocked(t) \/ StopsNotify(t) \/ Disconnects(t)
  \/ StopFails(t)

Next == (\E t \in Tasks : TaskStep(t)) \/ Deliver \/ BoardReports \/ Drops

\* The loop runs every ready task, every bleak call returns or raises, and a
\* notification in flight is delivered or lost with the link.
Fairness == (\A t \in Tasks : WF_vars(TaskStep(t))) /\ WF_vars(Deliver)

Spec == Init /\ [][Next]_vars /\ Fairness

-----------------------------------------------------------------------------
(* Properties. *)

\* A task is inside the connect loop or inside _execute_disconnect.
InLock(t) ==
  \/ pc[t] \in {"connect", "notify", "stop_notify", "disconnecting"}
  \/ pc[t] \in {"write", "await"} /\ call[t].req \in Handshake

\* Of all the tasks that connect and disconnect (reader, reconnects, resends)
\* one at a time is inside the connect loop or the disconnect, and it is the
\* one that holds _connect_lock: no task runs a handshake on a client that
\* another is replacing.
HandshakeExclusive == \A t \in Tasks : InLock(t) => Holds(connectQ, t)

\* No path through the errors, timeouts and stop() leaks a lock or a place in its
\* queue: queued for _connect_lock, its holder included, is who awaits it,
\* connects or disconnects, for _operation_lock who writes, each task once, and
\* nobody else; and who connects has an attempt left to fail.
Connecting == {t \in Tasks : InLock(t) \/ pc[t] \in {"queued", "stopping"}}
Writing    == {t \in Tasks : pc[t] = "write"}

In(q, t) == \E i \in 1..Len(q) : q[i] = t
Lined(q, S) == /\ \A i, j \in 1..Len(q) : q[i] = q[j] => i = j
               /\ \A t \in Tasks : In(q, t) <=> t \in S

LocksAccounted ==
  /\ Lined(connectQ, Connecting) /\ Lined(opQ, Writing)
  /\ \A t \in Tasks : InLock(t) /\ pc[t] \notin {"stop_notify", "disconnecting"}
                        => attempts \in 1..(Attempts - 1)

\* Both locks are kept as the code means them: one at a time, and none leaked.
LockDiscipline == HandshakeExclusive /\ LocksAccounted

\* The session is only taken for paired while there is a link: every path that
\* loses the link clears _is_paired, also the expected disconnect, and no late
\* PAIR answer of a lost link sets it again.
PairedImpliesLink == paired => link # "down"

\* An answer that a request waits for, by its number, is the answer to it
\* (tuya_ble.py:1210), as long as the read lasts and no _reconnect restarted the
\* numbers while one was in use (:690).
AnswersMatch ==
  outcome = "running" /\ ~reused =>
    \A t \in Tasks : \A i \in 1..Len(air) :
      Asks(t) /\ air[i].to = call[t].seq => air[i].code = call[t].req

\* read_all_dps raises TuyaBLEError, which callers take for bad credentials,
\* only when the board refused its status request, as long as no _reconnect
\* restarted the numbers while one was in use (tuya_ble.py:690): then the refusal
\* of another task's request may be taken for it.
TuyaErrorOnlyFromStatus ==
  outcome = "TuyaBLEError" /\ ~reused => [req |-> "status", result |-> 1] \in answered

\* A snapshot is returned only if the board accepted the pairing, under the same
\* condition: no path through failed attempts, timeouts, late answers and
\* reconnects reads an unpaired board.
ReturnsOnlyPaired ==
  outcome = "returned" /\ ~reused => [req |-> "pair", result |-> 0] \in answered

\* Whoever waits for the connect lock gets it: every holder lets go, also when
\* its attempts run out or the disconnect raises.
LockIsGranted ==
  \A t \in Tasks : pc[t] \in {"queued", "stopping"}
                    ~> pc[t] \notin {"queued", "stopping"}

\* After stop() the tasks the session spawned die out, even if the board is gone
\* and every connection fails: none backs off and reconnects for ever.
StopQuiesces == expected ~> [](\A b \in Background : pc[b] = "idle")

\* read_all_dps keeps the promise of BoardRead.  Where numbers were reused an
\* answer may be taken for another, so that nothing can be said of what the board
\* accepted and refused.
Read == INSTANCE BoardRead WITH
          snapshot <- snapshot.ids, collected <- snapshot.made = "list",
          reported <- dps,
          granted  <- reused \/ [req |-> "pair", result |-> 0] \in answered,
          refused  <- reused \/ [req |-> "status", result |-> 1] \in answered

ReadContract == Read!Spec

Quiet == pc[Reader] = "done" /\ \A b \in Background : pc[b] = "idle"

\* device.py: "Connect, request status, collect the proactive DP dump,
\* disconnect": when a read the board refused is over and nothing of it runs any
\* more, the link is down.
RefusedReadDisconnects == Quiet /\ outcome = "TuyaBLEError" => link = "down"

\* device.py: "connect, let the board dump its cached DPs, snapshot, disconnect":
\* the disconnect is the last thing that happens to the link.
DisconnectIsLast == [][expected /\ link = "down" => link' = "down"]_vars

\* coordinator.py and the README: a rotated key makes a read that reaches the
\* board raise TuyaBLEError, so that reauth starts.
RotatedKeySurfaces ==
  (~KeyValid /\ faults = 0 /\ link # "down" /\ outcome # "running")
    => outcome = "TuyaBLEError"

=============================================================================
