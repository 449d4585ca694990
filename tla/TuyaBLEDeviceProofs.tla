------------------------- MODULE TuyaBLEDeviceProofs -------------------------
(***************************************************************************)
(* Proofs about TuyaBLEDevice, for any number of spawned tasks, attempts,  *)
(* faults and reports.  Types and the exclusion of handshakes go together: *)
(* Tail(connectQ) is a queue again only because a task that leaves the     *)
(* connect loop is at its head.                                            *)
(***************************************************************************)
EXTENDS TuyaBLEDevice, TLAPS

Inv == TypeOK /\ HandshakeExclusive

\* A handler that moves one task leaves every task somewhere known.
LEMMA GotoTypes ==
  ASSUME TypeOK, NEW t \in Tasks, NEW p \in Locations, Goto(t, p)
  PROVE  pc' \in [Tasks -> Locations] /\ job' \in [Tasks -> Jobs]
BY DEF TypeOK, Goto, Jobs

\* So does one that spawns tasks.
LEMMA SpawnTypes ==
  ASSUME TypeOK, NEW n, NEW j \in Jobs,
         NEW locations \in [Tasks -> Locations], Spawn(n, j, locations)
  PROVE  pc' \in [Tasks -> Locations] /\ job' \in [Tasks -> Jobs]
BY DEF TypeOK, Spawn, Jobs, Locations

\* Sending numbers the request and registers its future.
LEMMA SendTypes ==
  ASSUME TypeOK, NEW t \in Tasks, NEW r \in Requests,
         NEW futures \in SUBSET [seq : Nat, task : Tasks], Send(t, r, futures)
  PROVE  /\ call' \in [Tasks -> Calls] /\ seqNum' \in Nat \ {0}
         /\ expecting' \subseteq [seq : Nat, task : Tasks]
         /\ opQ' \in Seq(Tasks)
<1>1. call' \in [Tasks -> Calls]
  BY DEF TypeOK, Send, Calls
<1>2. seqNum' \in Nat \ {0}
  BY DEF TypeOK, Send
<1>3. expecting' \subseteq [seq : Nat, task : Tasks]
  BY DEF TypeOK, Send
<1>4. opQ' \in Seq(Tasks)
  BY DEF TypeOK, Send
<1> QED BY <1>1, <1>2, <1>3, <1>4

LEMMA NoCallType == NoCall \in Calls /\ ResendCall \in Calls
BY DEF NoCall, ResendCall, Calls, Requests, Handshake

\* The end of _ensure_connected keeps the types of what it touches.
LEMMA ProceedTypes ==
  ASSUME TypeOK, NEW t \in Tasks,
         NEW futures \in SUBSET [seq : Nat, task : Tasks], Proceed(t, futures)
  PROVE  /\ pc' \in [Tasks -> Locations] /\ job' \in [Tasks -> Jobs]
         /\ call' \in [Tasks -> Calls] /\ seqNum' \in Nat \ {0}
         /\ expecting' \subseteq [seq : Nat, task : Tasks]
         /\ opQ' \in Seq(Tasks)
<1>1. CASE Send(t, "status", futures) /\ Goto(t, "write")
  BY <1>1, SendTypes, GotoTypes DEF Requests, Locations
<1>2. CASE SendAgain(t, futures) /\ Goto(t, "write")
  <2>1. pc' \in [Tasks -> Locations] /\ job' \in [Tasks -> Jobs]
    BY <1>2, GotoTypes DEF Locations
  <2>2. call' \in [Tasks -> Calls]
    BY <1>2, NoCallType DEF SendAgain, TypeOK
  <2> QED BY <1>2, <2>1, <2>2 DEF SendAgain, TypeOK
<1>3. CASE /\ Goto(t, "idle") /\ call' = [call EXCEPT ![t] = NoCall]
           /\ expecting' = futures /\ UNCHANGED <<seqNum, opQ>>
  BY <1>3, GotoTypes, NoCallType DEF Locations, TypeOK
<1> QED BY <1>1, <1>2, <1>3 DEF Proceed

\* Going round the connect loop, and out of it, keeps the types.
LEMMA LoopTypes ==
  ASSUME TypeOK, NEW t \in Tasks, connectQ # <<>>, LoopAgain(t)
  PROVE  /\ attempts' \in Int /\ connectQ' \in Seq(Tasks)
         /\ outcome' \in Outcomes /\ LoopTo(t) \in Locations
BY DEF TypeOK, LoopAgain, LoopTo, Locations, Outcomes

LEMMA DisconnectedTypes ==
  ASSUME Disconnected
  PROVE  paired' \in BOOLEAN /\ client' \in BOOLEAN
BY DEF Disconnected

LEMMA PopType ==
  ASSUME TypeOK, NEW s
  PROVE  Pop(s) \in SUBSET [seq : Nat, task : Tasks]
BY DEF TypeOK, Pop

-----------------------------------------------------------------------------
(* Exclusion.  A step of t keeps it if no other task enters the connect loop *)
(* or the disconnect, t is in there only as the holder of the lock, and the  *)
(* queue changes at its end or by its holder leaving.                        *)

LEMMA ExclusionStep ==
  ASSUME Inv, NEW t \in Tasks,
         \A u \in Tasks : u # t /\ InLock(u)' => InLock(u),
         InLock(t)' => Holds(connectQ, t)' ,
         \/ connectQ' = connectQ
         \/ connectQ' = Append(connectQ, t)
         \/ Holds(connectQ, t) /\ connectQ' = Tail(connectQ)
  PROVE  HandshakeExclusive'
<1> SUFFICES ASSUME NEW u \in Tasks, InLock(u)', u # t
             PROVE  Holds(connectQ, u)'
  BY DEF HandshakeExclusive
<1>1. Holds(connectQ, u)
  BY DEF Inv, HandshakeExclusive
<1>2. CASE connectQ' = connectQ
  BY <1>1, <1>2 DEF Holds
<1>3. CASE connectQ' = Append(connectQ, t)
  BY <1>1, <1>3 DEF Holds, Inv, TypeOK
<1>4. CASE Holds(connectQ, t) /\ connectQ' = Tail(connectQ)
  BY <1>1, <1>4 DEF Holds
<1> QED BY <1>2, <1>3, <1>4

\* Moving t alone, or changing t's call alone, takes no other task inside.
LEMMA OthersStay ==
  ASSUME TypeOK, NEW t \in Tasks, NEW p, Goto(t, p),
         \/ UNCHANGED call
         \/ \E c : call' = [call EXCEPT ![t] = c]
  PROVE  /\ \A u \in Tasks : u # t /\ InLock(u)' => InLock(u)
         /\ pc'[t] = p
BY DEF TypeOK, Goto, InLock

-----------------------------------------------------------------------------
(* Tasks begin and take the lock. *)

LEMMA StartSteps ==
  ASSUME Inv, NEW t \in Tasks,
         StartQueues(t) \/ StartGivesUp(t) \/ StartSends(t)
  PROVE  Inv'
<1>1. CASE StartQueues(t)
  <2>1. TypeOK'
    <3>1. pc' \in [Tasks -> Locations] /\ job' \in [Tasks -> Jobs]
      BY <1>1, GotoTypes DEF StartQueues, Locations, Inv
    <3> QED BY <1>1, <3>1 DEF StartQueues, Renumber, TypeOK, Inv
  <2>2. HandshakeExclusive'
    BY <1>1, OthersStay, ExclusionStep DEF StartQueues, InLock, Inv
  <2> QED BY <2>1, <2>2 DEF Inv
<1>2. CASE StartGivesUp(t)
  <2>1. TypeOK'
    <3>1. pc' \in [Tasks -> Locations] /\ job' \in [Tasks -> Jobs]
      BY <1>2, GotoTypes DEF StartGivesUp, Locations, Inv
    <3> QED BY <1>2, <3>1 DEF StartGivesUp, Renumber, TypeOK, Inv
  <2>2. HandshakeExclusive'
    BY <1>2, OthersStay, ExclusionStep DEF StartGivesUp, InLock, Inv
  <2> QED BY <2>1, <2>2 DEF Inv
<1>3. CASE StartSends(t)
  <2>1. /\ call' \in [Tasks -> Calls] /\ seqNum' \in Nat \ {0}
        /\ expecting' \subseteq [seq : Nat, task : Tasks]
        /\ opQ' \in Seq(Tasks)
        /\ call'[t].req \notin Handshake
        /\ \E c : call' = [call EXCEPT ![t] = c]
    <3>1. CASE SendAgain(t, expecting)
      <4>1. call' = [call EXCEPT ![t] = ResendCall] /\ call'[t] = ResendCall
        BY <3>1 DEF SendAgain, TypeOK, Inv
      <4>2. ResendCall.req \notin Handshake
        BY DEF ResendCall, Handshake
      <4>3. call' \in [Tasks -> Calls] /\ \E c : call' = [call EXCEPT ![t] = c]
        BY <4>1, NoCallType DEF TypeOK, Inv
      <4>4. seqNum' \in Nat \ {0} /\ opQ' \in Seq(Tasks)
            /\ expecting' \subseteq [seq : Nat, task : Tasks]
        BY <3>1 DEF SendAgain, TypeOK, Inv
      <4> QED BY <4>1, <4>2, <4>3, <4>4
    <3>2. CASE Send(t, "response", expecting)
      <4>1. call'[t].req = "response" /\ \E c : call' = [call EXCEPT ![t] = c]
        BY <3>2 DEF Send, TypeOK, Inv
      <4> QED BY <3>2, <4>1, SendTypes DEF TypeOK, Inv, Requests, Handshake
    <3> QED BY <1>3, <3>1, <3>2 DEF StartSends
  <2>2. TypeOK'
    <3>1. pc' \in [Tasks -> Locations] /\ job' \in [Tasks -> Jobs]
      BY <1>3, GotoTypes DEF StartSends, Locations, Inv
    <3> QED BY <1>3, <2>1, <3>1 DEF StartSends, TypeOK, Inv
  <2>3. HandshakeExclusive'
    <3>1. /\ \A u \in Tasks : u # t /\ InLock(u)' => InLock(u)
          /\ pc'[t] = "write"
      BY <1>3, <2>1, OthersStay DEF StartSends, Inv
    <3>2. ~InLock(t)'
      BY <2>1, <3>1 DEF InLock
    <3> QED BY <1>3, <3>1, <3>2, ExclusionStep DEF StartSends
  <2> QED BY <2>2, <2>3 DEF Inv
<1> QED BY <1>1, <1>2, <1>3

\* What Proceed leaves inside the loop: nothing.
LEMMA ProceedLeaves ==
  ASSUME TypeOK, NEW t \in Tasks, NEW futures, Proceed(t, futures)
  PROVE  /\ \A u \in Tasks : u # t /\ InLock(u)' => InLock(u)
         /\ ~InLock(t)'
<1>1. CASE Send(t, "status", futures) /\ Goto(t, "write")
  <2>1. call'[t].req = "status" /\ \E c : call' = [call EXCEPT ![t] = c]
    BY <1>1 DEF Send, TypeOK
  <2>2. /\ \A u \in Tasks : u # t /\ InLock(u)' => InLock(u)
        /\ pc'[t] = "write"
    BY <1>1, <2>1, OthersStay
  <2> QED BY <2>1, <2>2 DEF InLock, Handshake
<1>2. CASE SendAgain(t, futures) /\ Goto(t, "write")
  <2>1. call'[t] = ResendCall /\ \E c : call' = [call EXCEPT ![t] = c]
    BY <1>2 DEF SendAgain, TypeOK
  <2>2. /\ \A u \in Tasks : u # t /\ InLock(u)' => InLock(u)
        /\ pc'[t] = "write"
    BY <1>2, <2>1, OthersStay
  <2> QED BY <2>1, <2>2 DEF InLock, Handshake, ResendCall
<1>3. CASE Goto(t, "idle") /\ call' = [call EXCEPT ![t] = NoCall]
  <2>1. /\ \A u \in Tasks : u # t /\ InLock(u)' => InLock(u)
        /\ pc'[t] = "idle"
    BY <1>3, OthersStay
  <2> QED BY <2>1 DEF InLock
<1> QED BY <1>1, <1>2, <1>3 DEF Proceed

LEMMA RecheckSteps ==
  ASSUME Inv, NEW t \in Tasks, RecheckReady(t) \/ RecheckConnects(t)
  PROVE  Inv'
<1>1. CASE RecheckReady(t)
  <2> USE <1>1 DEF RecheckReady
  <2>1. expecting \in SUBSET [seq : Nat, task : Tasks]
    BY DEF TypeOK, Inv
  <2>2. TypeOK'
    <3>1. connectQ' \in Seq(Tasks)
      BY DEF TypeOK, Inv, Holds
    <3> QED BY <2>1, <3>1, ProceedTypes DEF TypeOK, Inv
  <2>3. HandshakeExclusive'
    <3>1. Holds(connectQ, t) /\ connectQ' = Tail(connectQ)
      OBVIOUS
    <3> QED BY <3>1, ProceedLeaves, ExclusionStep DEF Inv
  <2> QED BY <2>2, <2>3 DEF Inv
<1>2. CASE RecheckConnects(t)
  <2>1. TypeOK'
    <3>1. pc' \in [Tasks -> Locations] /\ job' \in [Tasks -> Jobs]
      BY <1>2, GotoTypes DEF RecheckConnects, Locations, Inv
    <3>2. attempts' \in Int
      BY <1>2, AttemptsAssumption DEF RecheckConnects
    <3> QED BY <1>2, <3>1, <3>2 DEF RecheckConnects, TypeOK, Inv
  <2>2. HandshakeExclusive'
    BY <1>2, OthersStay, ExclusionStep DEF RecheckConnects, Holds, Inv
  <2> QED BY <2>1, <2>2 DEF Inv
<1> QED BY <1>1, <1>2

-----------------------------------------------------------------------------
(* In the connect loop: another attempt, or out with the lock freed. *)

LEMMA LoopLeaves ==
  ASSUME Inv, NEW t \in Tasks, InLock(t), LoopAgain(t), pc'[t] = LoopTo(t),
         \A u \in Tasks : u # t /\ InLock(u)' => InLock(u)
  PROVE  HandshakeExclusive'
<1>1. Holds(connectQ, t)
  BY DEF Inv, HandshakeExclusive
<1>2. CASE Exhausted
  <2>1. connectQ' = Tail(connectQ) /\ ~InLock(t)'
    BY <1>2 DEF LoopAgain, LoopTo, InLock
  <2> QED BY <1>1, <2>1, ExclusionStep
<1>3. CASE ~Exhausted
  <2>1. connectQ' = connectQ /\ Holds(connectQ, t)'
    BY <1>1, <1>3 DEF LoopAgain, Holds
  <2> QED BY <2>1, ExclusionStep
<1> QED BY <1>2, <1>3

LEMMA InLockQueue ==
  ASSUME Inv, NEW t \in Tasks, InLock(t)
  PROVE  Holds(connectQ, t) /\ connectQ # <<>> /\ Tail(connectQ) \in Seq(Tasks)
BY DEF Inv, HandshakeExclusive, TypeOK, Holds

\* An attempt that fails while only t moves.
LEMMA AttemptFails ==
  ASSUME Inv, NEW t \in Tasks, InLock(t), LoopAgain(t), Goto(t, LoopTo(t)),
         UNCHANGED call \/ call' = [call EXCEPT ![t] = NoCall]
  PROVE  /\ pc' \in [Tasks -> Locations] /\ job' \in [Tasks -> Jobs]
         /\ call' \in [Tasks -> Calls]
         /\ attempts' \in Int /\ connectQ' \in Seq(Tasks) /\ outcome' \in Outcomes
         /\ HandshakeExclusive'
<1>1. attempts' \in Int /\ connectQ' \in Seq(Tasks) /\ outcome' \in Outcomes
      /\ LoopTo(t) \in Locations
  BY InLockQueue, LoopTypes DEF Inv
<1>2. pc' \in [Tasks -> Locations] /\ job' \in [Tasks -> Jobs]
  BY <1>1, GotoTypes DEF Inv
<1>3. call' \in [Tasks -> Calls]
  BY NoCallType DEF Inv, TypeOK
<1>4. HandshakeExclusive'
  <2>1. UNCHANGED call \/ \E c : call' = [call EXCEPT ![t] = c]
    OBVIOUS
  <2>2. /\ \A u \in Tasks : u # t /\ InLock(u)' => InLock(u)
        /\ pc'[t] = LoopTo(t)
    BY <2>1, OthersStay DEF Inv
  <2> QED BY <2>2, LoopLeaves
<1> QED BY <1>1, <1>2, <1>3, <1>4

\* Sending a handshake request, the lock held, keeps the exclusion.
LEMMA HandshakeSends ==
  ASSUME Inv, NEW t \in Tasks, InLock(t), NEW r \in Handshake, NEW futures,
         Send(t, r, futures), Goto(t, "write"), UNCHANGED connectQ
  PROVE  HandshakeExclusive'
<1>1. \E c : call' = [call EXCEPT ![t] = c]
  BY DEF Send
<1>2. \A u \in Tasks : u # t /\ InLock(u)' => InLock(u)
  BY <1>1, OthersStay DEF Inv
<1>3. Holds(connectQ, t)'
  BY InLockQueue DEF Holds
<1> QED BY <1>2, <1>3, ExclusionStep

LEMMA ConnectSteps ==
  ASSUME Inv, NEW t \in Tasks, Connects(t) \/ ConnectFails(t)
  PROVE  Inv'
<1>1. CASE Connects(t)
  <2>1. TypeOK'
    <3>1. pc' \in [Tasks -> Locations] /\ job' \in [Tasks -> Jobs]
      BY <1>1, GotoTypes DEF Connects, Locations, Inv
    <3> QED BY <1>1, <3>1 DEF Connects, TypeOK, Inv, Links
  <2>2. HandshakeExclusive'
    <3>1. InLock(t)
      BY <1>1 DEF Connects, InLock
    <3>2. \A u \in Tasks : u # t /\ InLock(u)' => InLock(u)
      BY <1>1, OthersStay DEF Connects, Inv
    <3>3. Holds(connectQ, t)'
      BY <1>1, <3>1, InLockQueue DEF Connects, Holds
    <3> QED BY <1>1, <3>2, <3>3, ExclusionStep DEF Connects
  <2> QED BY <2>1, <2>2 DEF Inv
<1>2. CASE ConnectFails(t)
  <2>1. InLock(t)
    BY <1>2 DEF ConnectFails, InLock
  <2> QED BY <1>2, <2>1, AttemptFails DEF ConnectFails, TypeOK, Inv
<1> QED BY <1>1, <1>2

LEMMA NotifySteps ==
  ASSUME Inv, NEW t \in Tasks, Notifies(t) \/ NotifyFails(t)
  PROVE  Inv'
<1>1. InLock(t)
  BY DEF Notifies, NotifyFails, InLock
<1>2. CASE Notifies(t) /\ Connected
  <2>1. /\ Send(t, "device_info", expecting) /\ Goto(t, "write")
        /\ UNCHANGED <<attempts, connectQ, outcome>>
    BY <1>2 DEF Notifies
  <2>2. HandshakeExclusive'
    BY <1>1, <2>1, HandshakeSends DEF Handshake
  <2>3. pc' \in [Tasks -> Locations] /\ job' \in [Tasks -> Jobs]
    BY <2>1, GotoTypes DEF Inv, Locations
  <2>4. /\ call' \in [Tasks -> Calls] /\ seqNum' \in Nat \ {0}
        /\ expecting' \subseteq [seq : Nat, task : Tasks] /\ opQ' \in Seq(Tasks)
    BY <2>1, SendTypes DEF Inv, TypeOK, Requests, Handshake
  <2> QED BY <1>2, <2>1, <2>2, <2>3, <2>4 DEF Notifies, TypeOK, Inv
<1>3. CASE Notifies(t) /\ ~Connected
  <2>1. /\ LoopAgain(t) /\ Goto(t, LoopTo(t))
        /\ UNCHANGED <<call, seqNum, expecting, opQ>>
    BY <1>3 DEF Notifies
  <2> QED BY <1>1, <1>3, <2>1, AttemptFails DEF Notifies, TypeOK, Inv
<1>4. CASE NotifyFails(t)
  <2>1. faults' \in Nat
    BY <1>4 DEF NotifyFails, Spend, Inv, TypeOK
  <2> QED BY <1>1, <1>4, <2>1, AttemptFails DEF NotifyFails, TypeOK, Inv
<1> QED BY <1>2, <1>3, <1>4

-----------------------------------------------------------------------------
(* Writes. *)

LEMMA ReactsTypes ==
  ASSUME TypeOK, NEW t \in Tasks, NEW r \in Requests, Reacts(t, r)
  PROVE  /\ link' \in Links /\ air' \in Seq(Message) /\ faults' \in Nat
         /\ answered' \subseteq [req : Requests, result : {0, 1}]
<1>1. CASE UNCHANGED <<link, air, answered>>
  BY <1>1 DEF TypeOK, Reacts, Spend
<1>2. ASSUME NEW result \in {0, 1}, CanServe(r),
             IF result = 1 THEN Spend ELSE UNCHANGED faults,
             air' = Append(air, [code |-> r, to |-> call[t].seq,
                                 result |-> result, dps |-> {}, ack |-> FALSE]),
             answered' = answered \cup {[req |-> r, result |-> result]},
             link' = CASE r = "device_info" -> "keyed"
                       [] r = "pair" /\ result = 0 -> "paired"
                       [] OTHER -> link
      PROVE  /\ link' \in Links /\ air' \in Seq(Message) /\ faults' \in Nat
             /\ answered' \subseteq [req : Requests, result : {0, 1}]
  <2>1. link' \in Links
    BY <1>2 DEF TypeOK, Links
  <2>2. call[t].seq \in Nat
    BY DEF TypeOK, Calls
  <2>3. [code |-> r, to |-> call[t].seq, result |-> result, dps |-> {},
         ack |-> FALSE] \in Message
    BY <1>2, <2>2 DEF CanServe, Message
  <2>4. air' \in Seq(Message)
    BY <1>2, <2>3 DEF TypeOK
  <2>5. faults' \in Nat
    BY <1>2 DEF TypeOK, Spend
  <2> QED BY <1>2, <2>1, <2>4, <2>5 DEF TypeOK
<1> QED BY <1>1, <1>2 DEF Reacts

LEMMA WrittenStep ==
  ASSUME Inv, NEW t \in Tasks, Written(t)
  PROVE  Inv'
<1> USE DEF Written
<1>1. call[t].req \in Requests /\ opQ' \in Seq(Tasks)
  BY DEF Inv, TypeOK, Calls, Holds
<1>2. \/ Goto(t, "idle") /\ call' = [call EXCEPT ![t] = NoCall]
      \/ Goto(t, "await") /\ UNCHANGED call
  OBVIOUS
<1>3. pc' \in [Tasks -> Locations] /\ job' \in [Tasks -> Jobs]
  BY <1>2, GotoTypes DEF Inv, Locations
<1>4. TypeOK'
  BY <1>1, <1>2, <1>3, ReactsTypes, NoCallType DEF Inv, TypeOK
<1>5. HandshakeExclusive'
  <2>1. UNCHANGED call \/ \E c : call' = [call EXCEPT ![t] = c]
    BY <1>2
  <2>2. /\ \A u \in Tasks : u # t /\ InLock(u)' => InLock(u)
        /\ pc'[t] \in {"idle", "await"}
    BY <1>2, <2>1, OthersStay DEF Inv
  <2>3. InLock(t)' => InLock(t)
    <3>1. pc[t] = "write"
      OBVIOUS
    <3>2. CASE pc'[t] = "idle"
      BY <3>2 DEF InLock
    <3>3. CASE UNCHANGED call
      BY <2>2, <3>1, <3>3 DEF InLock
    <3>4. Goto(t, "idle") => pc'[t] = "idle"
      BY DEF Goto, Inv, TypeOK
    <3> QED BY <1>2, <3>2, <3>3, <3>4
  <2>4. InLock(t)' => Holds(connectQ, t)'
    BY <2>3, InLockQueue DEF Holds
  <2> QED BY <2>2, <2>4, ExclusionStep
<1> QED BY <1>4, <1>5 DEF Inv

\* Spawning tasks takes none of them inside.
LEMMA SpawnStays ==
  ASSUME TypeOK, NEW t \in Tasks, NEW p, NEW n, NEW j,
         Spawn(n, j, [pc EXCEPT ![t] = p]),
         UNCHANGED call \/ call' = [call EXCEPT ![t] = NoCall]
  PROVE  /\ \A u \in Tasks : u # t /\ InLock(u)' => InLock(u)
         /\ pc'[t] \in {p, "start"} /\ (p # "idle" => pc'[t] = p)
<1>1. PICK S \in SUBSET Background :
        /\ \A b \in S : [pc EXCEPT ![t] = p][b] = "idle"
        /\ pc' = [u \in Tasks |-> IF u \in S THEN "start"
                                  ELSE [pc EXCEPT ![t] = p][u]]
  BY DEF Spawn
<1>2. \A u \in Tasks : u # t => pc'[u] \in {"start", pc[u]}
  BY <1>1 DEF TypeOK
<1>3. \A u \in Tasks : u # t => call'[u] = call[u]
  BY DEF TypeOK
<1>4. pc'[t] \in {p, "start"} /\ (p # "idle" => pc'[t] = p)
  BY <1>1 DEF TypeOK
<1> QED BY <1>2, <1>3, <1>4 DEF InLock

LEMMA WriteFailsStep ==
  ASSUME Inv, NEW t \in Tasks, WriteFails(t)
  PROVE  Inv'
<1> DEFINE p == IF call[t].req \in Handshake THEN LoopTo(t) ELSE AfterError(t)
           n == IF Connected /\ paired /\ ~expected THEN 2 ELSE 1
           j == IF paired' THEN "resend" ELSE "reconnect"
<1>1. Spawn(n, j, [pc EXCEPT ![t] = p])
  BY DEF WriteFails
<1>2. p \in Locations /\ j \in Jobs
  BY DEF LoopTo, AfterError, Locations, Jobs
<1>3. pc' \in [Tasks -> Locations] /\ job' \in [Tasks -> Jobs]
  <2>1. [pc EXCEPT ![t] = p] \in [Tasks -> Locations]
    BY <1>2 DEF Inv, TypeOK
  <2> HIDE DEF n, j, p
  <2> QED BY <1>1, <1>2, <2>1, SpawnTypes DEF Inv
<1>4. /\ call' = [call EXCEPT ![t] = NoCall] /\ call' \in [Tasks -> Calls]
      /\ opQ' \in Seq(Tasks) /\ faults' \in Nat
      /\ paired' \in BOOLEAN /\ client' \in BOOLEAN
      /\ expecting' \subseteq [seq : Nat, task : Tasks]
  <2>1. call' = [call EXCEPT ![t] = NoCall] /\ call' \in [Tasks -> Calls]
    BY NoCallType DEF WriteFails, Inv, TypeOK
  <2>2. opQ' \in Seq(Tasks) /\ faults' \in Nat
    BY DEF WriteFails, Inv, TypeOK, Holds, Spend
  <2>3. paired' \in BOOLEAN /\ client' \in BOOLEAN
    BY DEF WriteFails, Inv, TypeOK
  <2>4. expecting' \subseteq [seq : Nat, task : Tasks]
    BY DEF WriteFails, Inv, TypeOK
  <2> QED BY <2>1, <2>2, <2>3, <2>4
<1>5. /\ \A u \in Tasks : u # t /\ InLock(u)' => InLock(u)
      /\ pc'[t] \in {p, "start"} /\ (p # "idle" => pc'[t] = p)
  <2> HIDE DEF n, j, p
  <2> QED BY <1>1, <1>4, SpawnStays DEF Inv
<1>6. CASE call[t].req \in Handshake
  <2>1. InLock(t) /\ LoopAgain(t)
    BY <1>6 DEF WriteFails, InLock
  <2>2. attempts' \in Int /\ connectQ' \in Seq(Tasks) /\ outcome' \in Outcomes
    BY <2>1, InLockQueue, LoopTypes DEF Inv
  <2>3. HandshakeExclusive'
    <3>1. Holds(connectQ, t)
      BY <2>1, InLockQueue
    <3>2. CASE Exhausted
      <4>1. connectQ' = Tail(connectQ) /\ ~InLock(t)'
        BY <1>5, <1>6, <2>1, <3>2 DEF LoopAgain, LoopTo, InLock
      <4> QED BY <1>5, <3>1, <4>1, ExclusionStep
    <3>3. CASE ~Exhausted
      <4>1. connectQ' = connectQ /\ Holds(connectQ, t)'
        BY <2>1, <3>1, <3>3 DEF LoopAgain, Holds
      <4> QED BY <1>5, <4>1, ExclusionStep
    <3> QED BY <3>2, <3>3
  <2> QED BY <1>3, <1>4, <2>2, <2>3 DEF WriteFails, TypeOK, Inv
<1>7. CASE call[t].req \notin Handshake
  <2>1. UNCHANGED <<attempts, connectQ>> /\ outcome' \in Outcomes
    BY <1>7 DEF WriteFails, Inv, TypeOK, Outcomes
  <2>2. HandshakeExclusive'
    <3>1. ~InLock(t)'
      BY <1>5, <1>7 DEF AfterError, InLock
    <3> QED BY <1>5, <2>1, <3>1, ExclusionStep
  <2> QED BY <1>3, <1>4, <2>1, <2>2 DEF WriteFails, TypeOK, Inv
<1> QED BY <1>6, <1>7

-----------------------------------------------------------------------------
(* Answers and timeouts. *)

LEMMA InfoAnsweredStep ==
  ASSUME Inv, NEW t \in Tasks, InfoAnswered(t)
  PROVE  Inv'
<1>1. InLock(t)
  BY DEF InfoAnswered, Accepted, InLock, Handshake
<1>2. CASE Connected
  <2>1. /\ Send(t, "pair", Pop(call[t].seq)) /\ Goto(t, "write")
        /\ UNCHANGED <<attempts, connectQ, outcome>>
    BY <1>2 DEF InfoAnswered
  <2>2. HandshakeExclusive'
    BY <1>1, <2>1, HandshakeSends DEF Handshake
  <2>3. pc' \in [Tasks -> Locations] /\ job' \in [Tasks -> Jobs]
    BY <2>1, GotoTypes DEF Inv, Locations
  <2>4. /\ call' \in [Tasks -> Calls] /\ seqNum' \in Nat \ {0}
        /\ expecting' \subseteq [seq : Nat, task : Tasks] /\ opQ' \in Seq(Tasks)
    BY <2>1, PopType, SendTypes DEF Inv, Requests, Handshake
  <2> QED BY <2>1, <2>2, <2>3, <2>4 DEF InfoAnswered, TypeOK, Inv
<1>3. CASE ~Connected
  <2>1. /\ LoopAgain(t) /\ Goto(t, LoopTo(t))
        /\ expecting' = Pop(call[t].seq)
        /\ call' = [call EXCEPT ![t] = NoCall]
        /\ UNCHANGED <<seqNum, opQ>>
    BY <1>3 DEF InfoAnswered
  <2>2. expecting' \subseteq [seq : Nat, task : Tasks]
    BY <2>1, PopType DEF Inv
  <2> QED BY <1>1, <2>1, <2>2, AttemptFails DEF InfoAnswered, TypeOK, Inv
<1> QED BY <1>2, <1>3

LEMMA PairAnsweredStep ==
  ASSUME Inv, NEW t \in Tasks, PairAnswered(t)
  PROVE  Inv'
<1>1. InLock(t)
  BY DEF PairAnswered, Accepted, InLock, Handshake
<1>2. Proceed(t, Pop(call[t].seq)) /\ connectQ' = Tail(connectQ) /\ attempts' = 0
  BY DEF PairAnswered
<1>3. Pop(call[t].seq) \in SUBSET [seq : Nat, task : Tasks]
  BY PopType DEF Inv
<1>4. TypeOK'
  BY <1>1, <1>2, <1>3, InLockQueue, ProceedTypes DEF PairAnswered, TypeOK, Inv
<1>5. HandshakeExclusive'
  <2>1. /\ \A u \in Tasks : u # t /\ InLock(u)' => InLock(u)
        /\ ~InLock(t)'
    BY <1>2, ProceedLeaves DEF Inv
  <2> QED BY <1>1, <1>2, <2>1, InLockQueue, ExclusionStep
<1> QED BY <1>4, <1>5 DEF Inv

LEMMA RefusedSteps ==
  ASSUME Inv, NEW t \in Tasks, HandshakeRefused(t) \/ StatusAnswered(t)
  PROVE  Inv'
<1>1. CASE HandshakeRefused(t)
  <2>1. InLock(t)
    BY <1>1 DEF HandshakeRefused, InLock
  <2> QED BY <1>1, <2>1, AttemptFails DEF HandshakeRefused, TypeOK, Inv
<1>2. CASE StatusAnswered(t)
  <2>1. /\ call' = [call EXCEPT ![t] = NoCall]
        /\ Goto(t, "settle") \/ Goto(t, "done")
    BY <1>2 DEF StatusAnswered
  <2>2. expecting' \subseteq [seq : Nat, task : Tasks] /\ outcome' \in Outcomes
    BY <1>2, PopType DEF StatusAnswered, Inv, TypeOK, Outcomes
  <2>3. pc' \in [Tasks -> Locations] /\ job' \in [Tasks -> Jobs]
    BY <2>1, GotoTypes DEF Inv, Locations
  <2>4. call' \in [Tasks -> Calls]
    BY <2>1, NoCallType DEF Inv, TypeOK
  <2>5. TypeOK'
    BY <1>2, <2>2, <2>3, <2>4 DEF StatusAnswered, Inv, TypeOK
  <2>6. HandshakeExclusive'
    <3>1. /\ \A u \in Tasks : u # t /\ InLock(u)' => InLock(u)
          /\ pc'[t] \in {"settle", "done"}
      BY <2>1, OthersStay DEF Inv
    <3>2. ~InLock(t)'
      BY <3>1 DEF InLock
    <3> QED BY <1>2, <3>1, <3>2, ExclusionStep DEF StatusAnswered
  <2> QED BY <2>5, <2>6 DEF Inv
<1> QED BY <1>1, <1>2

LEMMA TimeoutSteps ==
  ASSUME Inv, NEW t \in Tasks, TimesOut(t) \/ BacksOff(t)
  PROVE  Inv'
<1>1. CASE TimesOut(t)
  <2>1. /\ expecting' \subseteq [seq : Nat, task : Tasks] /\ faults' \in Nat
        /\ call' = [call EXCEPT ![t] = NoCall] /\ client' \in BOOLEAN
    <3>1. expecting' \subseteq [seq : Nat, task : Tasks]
      BY <1>1, PopType DEF TimesOut, Inv
    <3>2. faults' \in Nat
      BY <1>1 DEF TimesOut, Spend, Inv, TypeOK
    <3>3. client' \in BOOLEAN
      BY <1>1 DEF TimesOut, Inv, TypeOK
    <3> QED BY <1>1, <3>1, <3>2, <3>3 DEF TimesOut
  <2>2. CASE call[t].req \in Handshake
    <3>1. InLock(t) /\ LoopAgain(t) /\ Goto(t, LoopTo(t))
      BY <1>1, <2>2 DEF TimesOut, Unanswered, InLock
    <3> QED BY <1>1, <2>1, <3>1, AttemptFails DEF TimesOut, TypeOK, Inv
  <2>3. CASE call[t].req \notin Handshake
    <3>1. Goto(t, "settle") /\ UNCHANGED <<client, attempts, connectQ, outcome>>
      BY <1>1, <2>3 DEF TimesOut
    <3>2. pc' \in [Tasks -> Locations] /\ job' \in [Tasks -> Jobs]
      BY <3>1, GotoTypes DEF Inv, Locations
    <3>3. call' \in [Tasks -> Calls]
      BY <2>1, NoCallType DEF Inv, TypeOK
    <3>4. HandshakeExclusive'
      <4>1. /\ \A u \in Tasks : u # t /\ InLock(u)' => InLock(u)
            /\ pc'[t] = "settle"
        BY <2>1, <3>1, OthersStay DEF Inv
      <4>2. ~InLock(t)'
        BY <4>1 DEF InLock
      <4> QED BY <3>1, <4>1, <4>2, ExclusionStep
    <3> QED BY <1>1, <2>1, <3>1, <3>2, <3>3, <3>4 DEF TimesOut, TypeOK, Inv
  <2> QED BY <2>2, <2>3
<1>2. CASE BacksOff(t)
  <2>1. pc' \in [Tasks -> Locations] /\ job' \in [Tasks -> Jobs]
    BY <1>2, GotoTypes DEF BacksOff, Inv, Locations
  <2>2. HandshakeExclusive'
    <3>1. /\ \A u \in Tasks : u # t /\ InLock(u)' => InLock(u)
          /\ pc'[t] = "start"
      BY <1>2, OthersStay DEF BacksOff, Inv
    <3>2. ~InLock(t)'
      BY <3>1 DEF InLock
    <3> QED BY <1>2, <3>1, <3>2, ExclusionStep DEF BacksOff
  <2> QED BY <1>2, <2>1, <2>2 DEF BacksOff, TypeOK, Inv
<1> QED BY <1>1, <1>2

-----------------------------------------------------------------------------
(* The disconnect. *)

LEMMA EndingType == \A shot : Ending(shot) \in {"returned", "struct.error"}
BY DEF Ending

LEMMA SnapshotType ==
  ASSUME Inv, NEW t \in Tasks, SettleEnds(t)
  PROVE  snapshot' \in Snapshots
BY DEF SettleEnds, Snapshots, Inv, TypeOK

LEMMA ExecuteDisconnectTypes ==
  ASSUME Inv, NEW t \in Tasks, NEW queue \in Seq(Tasks), queue # <<>>, NEW shot,
         ExecuteDisconnect(t, queue, shot)
  PROVE  /\ pc' \in [Tasks -> Locations] /\ job' \in [Tasks -> Jobs]
         /\ connectQ' \in Seq(Tasks) /\ outcome' \in Outcomes
         /\ seqNum' \in Nat \ {0} /\ expected' \in BOOLEAN /\ client' \in BOOLEAN
<1>1. Goto(t, "stop_notify") \/ Goto(t, "done")
  BY DEF ExecuteDisconnect
<1>2. pc' \in [Tasks -> Locations] /\ job' \in [Tasks -> Jobs]
  BY <1>1, GotoTypes DEF Inv, Locations
<1>3. CASE Connected
  BY <1>2, <1>3 DEF ExecuteDisconnect, Inv, TypeOK
<1>4. CASE ~Connected
  <2>1. /\ connectQ' = Tail(queue) /\ seqNum' = 1
        /\ outcome' \in {"returned", "struct.error"}
        /\ expected' = TRUE /\ client' = FALSE
    BY <1>4, EndingType DEF ExecuteDisconnect
  <2>2. connectQ' \in Seq(Tasks)
    BY <2>1
  <2>3. outcome' \in Outcomes /\ seqNum' \in Nat \ {0}
    BY <2>1 DEF Outcomes
  <2> QED BY <1>2, <2>1, <2>2, <2>3
<1> QED BY <1>3, <1>4

LEMMA SettleEndsStep ==
  ASSUME Inv, NEW t \in Tasks, SettleEnds(t)
  PROVE  Inv'
<1>1. UNCHANGED call /\ \E p : Goto(t, p)
  BY DEF SettleEnds, ExecuteDisconnect
<1>2. \A u \in Tasks : u # t /\ InLock(u)' => InLock(u)
  BY <1>1, OthersStay DEF Inv
<1>3. CASE connectQ = <<>>
  <2>1. ExecuteDisconnect(t, <<t>>, snapshot')
    BY <1>3 DEF SettleEnds
  <2>2. TypeOK'
    <3>1. <<t>> \in Seq(Tasks) /\ <<t>> # <<>>
      OBVIOUS
    <3> QED BY <2>1, <3>1, ExecuteDisconnectTypes, SnapshotType
            DEF SettleEnds, Inv, TypeOK
  <2>3. HandshakeExclusive'
    <3>1. \A u \in Tasks : ~InLock(u)
      BY <1>3 DEF Inv, HandshakeExclusive, Holds
    <3>2. InLock(t)' => connectQ' = <<t>>
      BY <2>1 DEF ExecuteDisconnect, Goto, InLock, Inv, TypeOK
    <3> QED BY <1>2, <3>1, <3>2 DEF HandshakeExclusive, Holds
  <2> QED BY <2>2, <2>3 DEF Inv
<1>4. CASE connectQ # <<>>
  <2>1. /\ connectQ' = Append(connectQ, t) /\ Goto(t, "stopping")
        /\ UNCHANGED <<outcome, expected, client, seqNum>>
    BY <1>4 DEF SettleEnds
  <2>2. TypeOK'
    <3>1. pc' \in [Tasks -> Locations] /\ job' \in [Tasks -> Jobs]
      BY <2>1, GotoTypes DEF Inv, Locations
    <3> QED BY <2>1, <3>1, SnapshotType DEF SettleEnds, Inv, TypeOK
  <2>3. HandshakeExclusive'
    <3>1. ~InLock(t)'
      BY <2>1 DEF Goto, InLock, Inv, TypeOK
    <3> QED BY <1>2, <2>1, <3>1, ExclusionStep
  <2> QED BY <2>2, <2>3 DEF Inv
<1> QED BY <1>3, <1>4

LEMMA StopLockedStep ==
  ASSUME Inv, NEW t \in Tasks, StopLocked(t)
  PROVE  Inv'
<1>1. Holds(connectQ, t) /\ ExecuteDisconnect(t, connectQ, snapshot) /\ UNCHANGED call
  BY DEF StopLocked
<1>2. connectQ \in Seq(Tasks) /\ connectQ # <<>>
  BY <1>1 DEF Inv, TypeOK, Holds
<1>3. TypeOK'
  BY <1>1, <1>2, ExecuteDisconnectTypes DEF StopLocked, Inv, TypeOK
<1>4. \A u \in Tasks : u # t /\ InLock(u)' => InLock(u)
  <2>1. \E p : Goto(t, p)
    BY <1>1 DEF ExecuteDisconnect
  <2> QED BY <1>1, <2>1, OthersStay DEF Inv
<1>5. CASE connectQ' = connectQ
  <2>1. Holds(connectQ, t)'
    BY <1>1, <1>5 DEF Holds
  <2>2. HandshakeExclusive'
    BY <1>4, <1>5, <2>1, ExclusionStep
  <2> QED BY <1>3, <2>2 DEF Inv
<1>6. CASE connectQ' = Tail(connectQ) /\ Goto(t, "done")
  <2>1. ~InLock(t)'
    BY <1>6 DEF Goto, InLock, Inv, TypeOK
  <2>2. HandshakeExclusive'
    BY <1>1, <1>4, <1>6, <2>1, ExclusionStep
  <2> QED BY <1>3, <2>2 DEF Inv
<1>7. connectQ' = connectQ \/ (connectQ' = Tail(connectQ) /\ Goto(t, "done"))
  BY <1>1 DEF ExecuteDisconnect
<1> QED BY <1>5, <1>6, <1>7

LEMMA StopSteps ==
  ASSUME Inv, NEW t \in Tasks, StopsNotify(t) \/ Disconnects(t) \/ StopFails(t)
  PROVE  Inv'
<1>1. InLock(t)
  BY DEF StopsNotify, Disconnects, StopFails, InLock
<1>2. Holds(connectQ, t) /\ connectQ # <<>> /\ Tail(connectQ) \in Seq(Tasks)
  BY <1>1, InLockQueue
<1>3. UNCHANGED call
  BY DEF StopsNotify, Disconnects, StopFails
<1>4. CASE StopsNotify(t)
  <2>1. Goto(t, "disconnecting") /\ UNCHANGED connectQ
    BY <1>4 DEF StopsNotify
  <2>2. pc' \in [Tasks -> Locations] /\ job' \in [Tasks -> Jobs]
    BY <2>1, GotoTypes DEF Inv, Locations
  <2>3. link' \in Links /\ air' \in Seq(Message)
    BY <1>4 DEF StopsNotify, Links
  <2>4. HandshakeExclusive'
    <3>1. \A u \in Tasks : u # t /\ InLock(u)' => InLock(u)
      BY <1>3, <2>1, OthersStay DEF Inv
    <3> QED BY <1>2, <2>1, <3>1, ExclusionStep DEF Holds
  <2> QED BY <1>4, <2>2, <2>3, <2>4 DEF StopsNotify, Inv, TypeOK
<1>5. CASE Disconnects(t) \/ StopFails(t)
  <2>1. Goto(t, "done") /\ connectQ' = Tail(connectQ)
    BY <1>5 DEF Disconnects, StopFails
  <2>2. pc' \in [Tasks -> Locations] /\ job' \in [Tasks -> Jobs]
    BY <2>1, GotoTypes DEF Inv, Locations
  <2>3. /\ outcome' \in Outcomes /\ seqNum' \in Nat \ {0} /\ link' \in Links
        /\ paired' \in BOOLEAN /\ client' \in BOOLEAN /\ faults' \in Nat
    <3>1. CASE Disconnects(t)
      <4>1. paired' \in BOOLEAN /\ client' \in BOOLEAN
        BY <3>1, DisconnectedTypes DEF Disconnects
      <4>2. outcome' \in Outcomes /\ link' \in Links
        BY <3>1, EndingType DEF Disconnects, Outcomes, Links
      <4>3. seqNum' \in Nat \ {0} /\ faults' \in Nat
        BY <3>1 DEF Disconnects, Inv, TypeOK
      <4> QED BY <4>1, <4>2, <4>3
    <3>2. CASE StopFails(t)
      BY <3>2 DEF StopFails, Spend, Outcomes, Inv, TypeOK
    <3> QED BY <1>5, <3>1, <3>2
  <2>4. HandshakeExclusive'
    <3>1. \A u \in Tasks : u # t /\ InLock(u)' => InLock(u)
      BY <1>3, <2>1, OthersStay DEF Inv
    <3>2. ~InLock(t)'
      BY <2>1 DEF Goto, InLock, Inv, TypeOK
    <3> QED BY <1>2, <2>1, <3>1, <3>2, ExclusionStep
  <2> QED BY <1>2, <1>5, <2>1, <2>2, <2>3, <2>4
          DEF Disconnects, StopFails, Inv, TypeOK
<1> QED BY <1>4, <1>5

-----------------------------------------------------------------------------
(* The radio and the board. *)

\* A step of the radio or the board moves nobody but the tasks it spawns.
LEMMA EnvironmentStays ==
  ASSUME Inv, NEW n, NEW j, Spawn(n, j, pc), UNCHANGED connectQ,
         \A u \in Tasks : call'[u].req = call[u].req
  PROVE  HandshakeExclusive'
<1>1. \A u \in Tasks : pc'[u] \in {"start", pc[u]}
  BY DEF Spawn
<1>2. \A u \in Tasks : InLock(u)' => InLock(u)
  BY <1>1 DEF InLock
<1> QED BY <1>2 DEF Inv, HandshakeExclusive, Holds

LEMMA DeliverStep ==
  ASSUME Inv, Deliver
  PROVE  Inv'
<1> DEFINE m == Head(air)
           waits(u) == /\ [seq |-> m.to, task |-> u] \in expecting
                       /\ call[u].seq = m.to
           n == IF m.ack THEN 1 ELSE 0
<1>1. m \in Message /\ air' \in Seq(Message)
  BY DEF Deliver, Inv, TypeOK
<1>2. Spawn(n, "response", pc) /\ UNCHANGED connectQ
  BY DEF Deliver
<1>3. pc' \in [Tasks -> Locations] /\ job' \in [Tasks -> Jobs]
  <2> HIDE DEF n
  <2> QED BY <1>2, SpawnTypes DEF Inv, TypeOK, Jobs
<1>4. call' = [u \in Tasks |-> IF waits(u)
                               THEN [call[u] EXCEPT !.reply =
                                       IF m.result = 1 THEN "error" ELSE "ok"]
                               ELSE call[u]]
  BY DEF Deliver
<1>5. \A u \in Tasks : call'[u] \in Calls /\ call'[u].req = call[u].req
  <2> SUFFICES ASSUME NEW u \in Tasks
               PROVE  call'[u] \in Calls /\ call'[u].req = call[u].req
    OBVIOUS
  <2>1. call[u] \in Calls
    BY DEF Inv, TypeOK
  <2>2. CASE waits(u)
    <3>1. call'[u] = [call[u] EXCEPT !.reply =
                        IF m.result = 1 THEN "error" ELSE "ok"]
      BY <1>4, <2>2
    <3> HIDE DEF m
    <3> QED BY <2>1, <3>1 DEF Calls
  <2>3. CASE ~waits(u)
    BY <1>4, <2>1, <2>3
  <2> QED BY <2>2, <2>3
<1>6. call' \in [Tasks -> Calls]
  <2>1. \A u \in Tasks : call'[u] \in Calls
    BY <1>5
  <2> HIDE DEF m
  <2> QED BY <1>4, <2>1
<1>7. /\ paired' \in BOOLEAN /\ dps' \in SUBSET DPs
      /\ expecting' \subseteq [seq : Nat, task : Tasks]
  <2>1. paired' = IF m.code = "pair" THEN m.result = 0 ELSE paired
    BY DEF Deliver
  <2>2. dps' = dps \cup m.dps /\ expecting' = Pop(m.to)
    BY DEF Deliver
  <2> HIDE DEF m
  <2> QED BY <1>1, <2>1, <2>2 DEF Inv, TypeOK, Message, Pop
<1>8. TypeOK'
  BY <1>1, <1>3, <1>6, <1>7 DEF Deliver, Inv, TypeOK
<1>9. HandshakeExclusive'
  <2> HIDE DEF n
  <2> QED BY <1>2, <1>5, EnvironmentStays
<1> QED BY <1>8, <1>9 DEF Inv

LEMMA EnvironmentSteps ==
  ASSUME Inv, BoardReports \/ Drops
  PROVE  Inv'
<1>1. CASE BoardReports
  <2>1. PICK D \in SUBSET DPs, ack \in BOOLEAN :
          /\ acked' = acked + 1 \/ UNCHANGED acked
          /\ air' = Append(air, [code |-> "report", to |-> 0, result |-> 0,
                                 dps |-> D, ack |-> ack])
    BY <1>1 DEF BoardReports
  <2>2. air' \in Seq(Message) /\ acked' \in Nat
    BY <2>1 DEF Inv, TypeOK, Message
  <2>3. HandshakeExclusive'
    BY <1>1 DEF BoardReports, Inv, HandshakeExclusive, InLock, Holds
  <2> QED BY <1>1, <2>2, <2>3 DEF BoardReports, Inv, TypeOK
<1>2. CASE Drops
  <2> DEFINE n == IF paired /\ ~expected THEN 1 ELSE 0
  <2>1. Spawn(n, "reconnect", pc) /\ UNCHANGED <<call, connectQ>>
    BY <1>2 DEF Drops
  <2>2. pc' \in [Tasks -> Locations] /\ job' \in [Tasks -> Jobs]
    <3> HIDE DEF n
    <3> QED BY <2>1, SpawnTypes DEF Inv, TypeOK, Jobs
  <2>3. HandshakeExclusive'
    <3> HIDE DEF n
    <3> QED BY <2>1, EnvironmentStays
  <2>4. /\ link' \in Links /\ air' \in Seq(Message) /\ faults' \in Nat
        /\ paired' \in BOOLEAN /\ client' \in BOOLEAN
    <3>1. paired' \in BOOLEAN /\ client' \in BOOLEAN
      BY <1>2, DisconnectedTypes DEF Drops
    <3>2. link' \in Links /\ air' \in Seq(Message)
      BY <1>2 DEF Drops, Links
    <3>3. faults' \in Nat
      BY <1>2 DEF Drops, Spend, Inv, TypeOK
    <3> QED BY <3>1, <3>2, <3>3
  <2> QED BY <1>2, <2>2, <2>3, <2>4 DEF Drops, Inv, TypeOK
<1> QED BY <1>1, <1>2

-----------------------------------------------------------------------------

LEMMA InitInv == Init => Inv
<1> SUFFICES ASSUME Init PROVE Inv
  OBVIOUS
<1>1. TypeOK
  <2>1. /\ pc \in [Tasks -> Locations] /\ job \in [Tasks -> Jobs]
        /\ call \in [Tasks -> Calls]
    BY NoCallType DEF Init, Locations, Jobs
  <2>2. /\ outcome \in Outcomes /\ link \in Links
        /\ snapshot \in Snapshots /\ dps \in SUBSET DPs
    BY DEF Init, Outcomes, Links, Snapshots
  <2>3. /\ connectQ \in Seq(Tasks) /\ opQ \in Seq(Tasks)
        /\ air \in Seq(Message)
    BY DEF Init
  <2>4. /\ expected \in BOOLEAN /\ client \in BOOLEAN /\ paired \in BOOLEAN
    BY DEF Init
  <2>5. expecting \subseteq [seq : Nat, task : Tasks]
    BY DEF Init
  <2>6. answered \subseteq [req : Requests, result : {0, 1}]
    BY DEF Init
  <2>7. attempts \in Int /\ seqNum \in Nat \ {0} /\ faults \in Nat /\ acked \in Nat
    BY DEF Init
  <2>8. reused \in BOOLEAN
    BY DEF Init
  <2> QED BY <2>1, <2>2, <2>3, <2>4, <2>5, <2>6, <2>7, <2>8 DEF TypeOK
<1>2. HandshakeExclusive
  BY DEF Init, HandshakeExclusive, InLock
<1> QED BY <1>1, <1>2 DEF Inv

LEMMA NextInv == Inv /\ [Next]_vars => Inv'
<1> SUFFICES ASSUME Inv, [Next]_vars PROVE Inv'
  OBVIOUS
<1>1. ASSUME NEW t \in Tasks, TaskStep(t) PROVE Inv'
  BY <1>1, StartSteps, RecheckSteps, ConnectSteps, NotifySteps, WrittenStep,
     WriteFailsStep, InfoAnsweredStep, PairAnsweredStep, RefusedSteps,
     TimeoutSteps, SettleEndsStep, StopLockedStep, StopSteps DEF TaskStep
<1>2. CASE Deliver
  BY <1>2, DeliverStep
<1>3. CASE BoardReports \/ Drops
  BY <1>3, EnvironmentSteps
<1>4. CASE UNCHANGED vars
  BY <1>4 DEF vars, Inv, TypeOK, HandshakeExclusive, InLock, Holds
<1> QED BY <1>1, <1>2, <1>3, <1>4 DEF Next

\* Every variable keeps its type; in particular no sequence number is 0, which
\* on the wire says "not an answer".
THEOREM TypeCorrect == Spec => []TypeOK
<1>1. Inv => TypeOK
  BY DEF Inv
<1> QED BY <1>1, InitInv, NextInv, PTL DEF Spec

\* However many tasks the session spawns, one at a time is in the connect loop or
\* the disconnect, and it holds _connect_lock.
THEOREM Exclusion == Spec => []HandshakeExclusive
<1>1. Inv => HandshakeExclusive
  BY DEF Inv
<1> QED BY <1>1, InitInv, NextInv, PTL DEF Spec

-----------------------------------------------------------------------------
(* Who goes where: only StopsNotify takes a task to the disconnect proper. *)

\* u disconnects only if it did before.
Keeps(u) == pc'[u] = "disconnecting" => pc[u] = "disconnecting"

LEMMA GotoKeeps ==
  ASSUME TypeOK, NEW t \in Tasks, NEW p, p # "disconnecting", Goto(t, p)
  PROVE  \A u \in Tasks : Keeps(u)
BY DEF TypeOK, Goto, Keeps

LEMMA SpawnKeeps ==
  ASSUME TypeOK, NEW n, NEW j, NEW locations, Spawn(n, j, locations),
         \A u \in Tasks : locations[u] = pc[u] \/ locations[u] # "disconnecting"
  PROVE  \A u \in Tasks : Keeps(u)
BY DEF Spawn, Keeps

LEMMA LoopToPlain == \A t : LoopTo(t) # "disconnecting"
BY DEF LoopTo

LEMMA TaskKeeps ==
  ASSUME TypeOK, NEW t \in Tasks, TaskStep(t), ~StopsNotify(t)
  PROVE  \A u \in Tasks : Keeps(u)
<1>1. CASE WriteFails(t)
  <2> DEFINE p == IF call[t].req \in Handshake THEN LoopTo(t) ELSE AfterError(t)
             n == IF Connected /\ paired /\ ~expected THEN 2 ELSE 1
             j == IF paired' THEN "resend" ELSE "reconnect"
  <2>1. Spawn(n, j, [pc EXCEPT ![t] = p])
    BY <1>1 DEF WriteFails
  <2>2. p # "disconnecting"
    BY LoopToPlain DEF AfterError
  <2>3. \A u \in Tasks : [pc EXCEPT ![t] = p][u] = pc[u]
                         \/ [pc EXCEPT ![t] = p][u] # "disconnecting"
    <3> HIDE DEF p
    <3> QED BY <2>2 DEF TypeOK
  <2> HIDE DEF n, j, p
  <2> QED BY <2>1, <2>3, SpawnKeeps
<1>2. CASE ~WriteFails(t)
  <2>1. \E p : p # "disconnecting" /\ Goto(t, p)
    <3>1. CASE SettleEnds(t) \/ StopLocked(t)
      BY <3>1 DEF SettleEnds, StopLocked, ExecuteDisconnect
    <3>2. CASE \/ StartQueues(t) \/ StartGivesUp(t) \/ StartSends(t)
               \/ RecheckConnects(t) \/ Connects(t) \/ BacksOff(t)
               \/ Disconnects(t) \/ StopFails(t) \/ Written(t)
               \/ StatusAnswered(t)
      BY <3>2 DEF StartQueues, StartGivesUp, StartSends, RecheckConnects,
                  Connects, BacksOff,
                  Disconnects, StopFails, Written, StatusAnswered
    <3>3. CASE RecheckReady(t) \/ PairAnswered(t)
      BY <3>3 DEF RecheckReady, PairAnswered, Proceed
    <3>4. CASE ConnectFails(t) \/ NotifyFails(t) \/ HandshakeRefused(t)
      BY <3>4, LoopToPlain DEF ConnectFails, NotifyFails, HandshakeRefused
    <3>5. CASE Notifies(t) \/ InfoAnswered(t)
      BY <3>5, LoopToPlain DEF Notifies, InfoAnswered
    <3>6. CASE TimesOut(t)
      BY <3>6, LoopToPlain DEF TimesOut
    <3> QED BY <1>2, <3>1, <3>2, <3>3, <3>4, <3>5, <3>6 DEF TaskStep
  <2> QED BY <2>1, GotoKeeps
<1> QED BY <1>1, <1>2

LEMMA EnvironmentKeeps ==
  ASSUME TypeOK, Deliver \/ BoardReports \/ Drops
  PROVE  \A u \in Tasks : Keeps(u)
<1>1. CASE BoardReports
  BY <1>1 DEF BoardReports, Keeps
<1>2. CASE Deliver \/ Drops
  <2>1. \E n, j : Spawn(n, j, pc)
    BY <1>2 DEF Deliver, Drops
  <2> QED BY <2>1, SpawnKeeps
<1> QED BY <1>1, <1>2

-----------------------------------------------------------------------------
(* The pairing and the link.  What arrives late can only set _is_paired while *)
(* there is a link, because losing the link loses what was in flight, and     *)
(* because nothing is in flight when the client disconnects.                  *)

LinkInv ==
  /\ PairedImpliesLink
  /\ air # <<>> => link # "down"
  /\ \A t \in Tasks : pc[t] = "disconnecting"
                        => air = <<>> /\ link \in {"down", "up"}

LEMMA LinkUntouched ==
  ASSUME LinkInv, paired' => paired, UNCHANGED <<link, air>>,
         \A u \in Tasks : Keeps(u)
  PROVE  LinkInv'
BY DEF LinkInv, PairedImpliesLink, Keeps

LEMMA LinkWritten ==
  ASSUME Inv, LinkInv, NEW t \in Tasks, Written(t)
  PROVE  LinkInv'
<1>1. \A u \in Tasks : Keeps(u)
  <2>1. ~StopsNotify(t) /\ TaskStep(t)
    BY DEF StopsNotify, Written, TaskStep
  <2> QED BY <2>1, TaskKeeps DEF Inv
<1>2. CASE UNCHANGED <<link, air>>
  BY <1>1, <1>2, LinkUntouched DEF Written
<1>3. CASE CanServe(call[t].req)
  <2>1. link # "down" /\ pc[t] = "write" /\ Reacts(t, call[t].req)
        /\ UNCHANGED paired
    BY DEF Written
  <2>2. link' # "down"
    BY <2>1 DEF Reacts
  <2>3. \A u \in Tasks : pc[u] # "disconnecting"
    <3> SUFFICES ASSUME NEW u \in Tasks, pc[u] = "disconnecting" PROVE FALSE
      OBVIOUS
    <3>1. CASE call[t].req \in Handshake
      <4>1. InLock(t) /\ InLock(u) /\ t # u
        BY <2>1, <3>1 DEF InLock
      <4> QED BY <4>1 DEF Inv, HandshakeExclusive, Holds
    <3>2. CASE call[t].req = "status"
      BY <1>3, <3>2 DEF CanServe, LinkInv
    <3> QED BY <1>3, <3>1, <3>2 DEF CanServe, Handshake
  <2> QED BY <1>1, <2>1, <2>2, <2>3
          DEF LinkInv, PairedImpliesLink, Keeps
<1>4. CanServe(call[t].req) \/ UNCHANGED <<link, air>>
  BY DEF Written, Reacts
<1> QED BY <1>2, <1>3, <1>4

LEMMA LinkTask ==
  ASSUME Inv, LinkInv, NEW t \in Tasks, TaskStep(t)
  PROVE  LinkInv'
<1>1. CASE StopsNotify(t)
  BY <1>1 DEF StopsNotify, LinkInv, PairedImpliesLink, Inv, TypeOK, Links
<1>2. CASE Written(t)
  BY <1>2, LinkWritten
<1>3. CASE ~StopsNotify(t) /\ ~Written(t)
  <2>1. \A u \in Tasks : Keeps(u)
    BY <1>3, TaskKeeps DEF Inv
  <2>2. CASE Connects(t)
    <3>1. /\ UNCHANGED <<paired, air>> /\ link' # "down"
          /\ link' \in {"up", link}
      BY <2>2 DEF Connects
    <3> QED BY <2>1, <3>1 DEF LinkInv, PairedImpliesLink, Keeps
  <2>3. CASE Disconnects(t)
    <3>1. /\ link' = "down" /\ paired' = FALSE /\ UNCHANGED air
          /\ pc[t] = "disconnecting"
      BY <2>3 DEF Disconnects, Disconnected
    <3> QED BY <2>1, <3>1 DEF LinkInv, PairedImpliesLink, Keeps
  <2>4. CASE ~Connects(t) /\ ~Disconnects(t)
    <3>1. (paired' => paired) /\ UNCHANGED <<link, air>>
      <4>1. CASE StartQueues(t) \/ StartGivesUp(t) \/ StartSends(t)
                 \/ RecheckReady(t) \/ RecheckConnects(t) \/ ConnectFails(t)
                 \/ Notifies(t) \/ NotifyFails(t) \/ BacksOff(t)
        BY <4>1 DEF StartQueues, StartGivesUp, StartSends, RecheckReady,
                    RecheckConnects, ConnectFails, Notifies, NotifyFails, BacksOff
      <4>2. CASE InfoAnswered(t) \/ PairAnswered(t) \/ HandshakeRefused(t)
                 \/ StatusAnswered(t) \/ TimesOut(t)
        BY <4>2 DEF InfoAnswered, PairAnswered, HandshakeRefused,
                    StatusAnswered, TimesOut
      <4>3. CASE SettleEnds(t) \/ StopLocked(t) \/ StopFails(t)
        BY <4>3 DEF SettleEnds, StopLocked, StopFails
      <4>4. CASE WriteFails(t)
        BY <4>4 DEF WriteFails
      <4> QED BY <1>3, <2>4, <4>1, <4>2, <4>3, <4>4 DEF TaskStep
    <3> QED BY <2>1, <3>1, LinkUntouched
  <2> QED BY <2>2, <2>3, <2>4
<1> QED BY <1>1, <1>2, <1>3

LEMMA LinkEnvironment ==
  ASSUME Inv, LinkInv, Deliver \/ BoardReports \/ Drops
  PROVE  LinkInv'
<1>1. \A u \in Tasks : Keeps(u)
  BY EnvironmentKeeps DEF Inv
<1>2. CASE Deliver
  <2>1. air # <<>> /\ UNCHANGED link
    BY <1>2 DEF Deliver
  <2> QED BY <1>1, <2>1 DEF LinkInv, PairedImpliesLink, Keeps
<1>3. CASE BoardReports
  <2>1. link \in {"keyed", "paired"} /\ UNCHANGED <<link, paired>>
    BY <1>3 DEF BoardReports
  <2> QED BY <1>1, <2>1 DEF LinkInv, PairedImpliesLink, Keeps
<1>4. CASE Drops
  <2>1. link' = "down" /\ air' = <<>> /\ paired' = FALSE
    BY <1>4 DEF Drops, Disconnected
  <2> QED BY <2>1 DEF LinkInv, PairedImpliesLink
<1> QED BY <1>2, <1>3, <1>4

\* The session is never taken for paired without a link, however answers, losses
\* and disconnects interleave.
THEOREM PairedLinked == Spec => []PairedImpliesLink
<1>1. Init => LinkInv
  BY DEF Init, LinkInv, PairedImpliesLink
<1>2. Inv /\ LinkInv /\ [Next]_vars => LinkInv'
  <2>1. CASE UNCHANGED vars
    BY <2>1 DEF vars, LinkInv, PairedImpliesLink
  <2> QED BY <2>1, LinkTask, LinkEnvironment DEF Next
<1>3. LinkInv => PairedImpliesLink
  BY DEF LinkInv
<1> QED BY <1>1, <1>2, <1>3, InitInv, NextInv, PTL DEF Spec

-----------------------------------------------------------------------------
(* The queues of the two locks.  A step adds at most the task it moves, at    *)
(* the end, and takes away at most that task, from the head.                  *)

LEMMA Appended ==
  ASSUME NEW q \in Seq(Tasks), NEW t \in Tasks, NEW S, NEW S2, Lined(q, S),
         t \notin S, t \in S2, \A u \in Tasks : u # t => (u \in S2 <=> u \in S)
  PROVE  Lined(Append(q, t), S2)
<1> DEFINE r == Append(q, t)
<1>1. /\ Len(q) \in Nat /\ Len(r) = Len(q) + 1 /\ r[Len(q) + 1] = t
      /\ \A i \in 1..Len(q) : r[i] = q[i]
  OBVIOUS
<1>2. ~In(q, t)
  BY DEF Lined
<1> HIDE DEF r
<1>3. ASSUME NEW i \in 1..Len(r), NEW j \in 1..Len(r), r[i] = r[j]
      PROVE  i = j
  <2>1. CASE i \in 1..Len(q) /\ j \in 1..Len(q)
    BY <1>1, <1>3, <2>1 DEF Lined
  <2>2. CASE i \in 1..Len(q) /\ j = Len(q) + 1
    BY <1>1, <1>2, <1>3, <2>2 DEF In
  <2>3. CASE i = Len(q) + 1 /\ j \in 1..Len(q)
    BY <1>1, <1>2, <1>3, <2>3 DEF In
  <2>4. CASE i = Len(q) + 1 /\ j = Len(q) + 1
    BY <2>4
  <2> QED BY <1>1, <2>1, <2>2, <2>3, <2>4
<1>4. ASSUME NEW u \in Tasks PROVE In(r, u) <=> u \in S2
  <2>1. In(r, u) <=> In(q, u) \/ u = t
    BY <1>1 DEF In
  <2>2. In(q, u) <=> u \in S
    BY DEF Lined
  <2> QED BY <2>1, <2>2
<1> QED BY <1>3, <1>4 DEF Lined, r

LEMMA Removed ==
  ASSUME NEW q \in Seq(Tasks), NEW t \in Tasks, NEW S, NEW S2, Lined(q, S),
         Holds(q, t), t \notin S2,
         \A u \in Tasks : u # t => (u \in S2 <=> u \in S)
  PROVE  Lined(Tail(q), S2)
<1> DEFINE r == Tail(q)
<1>1. /\ Len(q) \in Nat /\ Len(q) >= 1 /\ Len(r) = Len(q) - 1 /\ q[1] = t
      /\ \A i \in 1..Len(r) : r[i] = q[i + 1]
  BY DEF Holds
<1> HIDE DEF r
<1>2. ASSUME NEW i \in 1..Len(r), NEW j \in 1..Len(r), r[i] = r[j]
      PROVE  i = j
  <2>1. i + 1 \in 1..Len(q) /\ j + 1 \in 1..Len(q) /\ q[i + 1] = q[j + 1]
    BY <1>1, <1>2
  <2>2. i + 1 = j + 1
    BY <2>1 DEF Lined
  <2> QED BY <2>2
<1>3. ASSUME NEW u \in Tasks PROVE In(r, u) <=> u \in S2
  <2>1. CASE u = t
    <3>1. ASSUME In(r, u) PROVE FALSE
      <4>1. PICK i \in 1..Len(r) : q[i + 1] = q[1]
        BY <1>1, <2>1, <3>1 DEF In
      <4>2. i + 1 \in 1..Len(q) /\ 1 \in 1..Len(q)
        BY <1>1
      <4>3. i + 1 = 1
        BY <4>1, <4>2 DEF Lined
      <4> QED BY <4>3
    <3> QED BY <2>1, <3>1
  <2>2. CASE u # t
    <3>1. ASSUME In(q, u) PROVE In(r, u)
      <4>1. PICK i \in 1..Len(q) : q[i] = u
        BY <3>1 DEF In
      <4>2. i - 1 \in 1..Len(r) /\ r[i - 1] = q[i]
        <5>1. i # 1
          BY <1>1, <2>2, <4>1
        <5>2. i - 1 \in 1..Len(r)
          BY <1>1, <5>1
        <5>3. r[i - 1] = q[(i - 1) + 1]
          BY <1>1, <5>2
        <5> QED BY <5>2, <5>3
      <4> QED BY <4>1, <4>2 DEF In
    <3>2. ASSUME In(r, u) PROVE In(q, u)
      BY <1>1, <3>2 DEF In
    <3>3. In(q, u) <=> u \in S
      BY DEF Lined
    <3> QED BY <2>2, <3>1, <3>2, <3>3
  <2> QED BY <2>1, <2>2
<1> QED BY <1>2, <1>3 DEF Lined, r

\* What a step of t does to a queue q of the tasks S: nothing, join or leave.
Moves(t, q, r, S, S2) ==
  \/ r = q /\ (t \in S2 <=> t \in S)
  \/ r = Append(q, t) /\ t \notin S /\ t \in S2
  \/ Holds(q, t) /\ r = Tail(q) /\ t \notin S2

LEMMA Moved ==
  ASSUME NEW q \in Seq(Tasks), NEW r, NEW t \in Tasks, NEW S, NEW S2,
         Lined(q, S), Moves(t, q, r, S, S2),
         \A u \in Tasks : u # t => (u \in S2 <=> u \in S)
  PROVE  Lined(r, S2)
<1>1. CASE r = q /\ (t \in S2 <=> t \in S)
  BY <1>1 DEF Lined
<1>2. CASE r = Append(q, t) /\ t \notin S /\ t \in S2
  BY <1>2, Appended
<1>3. CASE Holds(q, t) /\ r = Tail(q) /\ t \notin S2
  BY <1>3, Removed
<1> QED BY <1>1, <1>2, <1>3 DEF Moves

\* In the connect loop, not in the disconnect.
Looping(t) == InLock(t) /\ pc[t] \notin {"stop_notify", "disconnecting"}

\* No task but t goes anywhere, except that idle ones may be spawned.
Aside(t) ==
  \A u \in Tasks : u # t =>
    /\ call'[u].req = call[u].req
    /\ pc'[u] = pc[u] \/ (pc[u] = "idle" /\ pc'[u] = "start")

\* What a step of t does to the locks and to the attempts.
Accounts(t) ==
  /\ Aside(t)
  /\ Moves(t, connectQ, connectQ', Connecting, Connecting')
  /\ Moves(t, opQ, opQ', Writing, Writing')
  /\ Looping(t)' => attempts' \in 1..(Attempts - 1)
  /\ attempts' = attempts \/ Holds(connectQ, t)

LEMMA AccountsKeep ==
  ASSUME Inv, LocksAccounted, NEW t \in Tasks, Accounts(t)
  PROVE  LocksAccounted'
<1>1. \A u \in Tasks : u # t => /\ u \in Connecting' <=> u \in Connecting
                                /\ u \in Writing' <=> u \in Writing
                                /\ Looping(u)' <=> Looping(u)
  BY DEF Accounts, Aside, Connecting, Writing, InLock, Looping
<1>2. connectQ \in Seq(Tasks) /\ opQ \in Seq(Tasks)
  BY DEF Inv, TypeOK
<1>3. Lined(connectQ', Connecting')
  BY <1>1, <1>2, Moved DEF Accounts, LocksAccounted
<1>4. Lined(opQ', Writing')
  BY <1>1, <1>2, Moved DEF Accounts, LocksAccounted
<1>5. ASSUME NEW u \in Tasks, Looping(u)'
      PROVE  attempts' \in 1..(Attempts - 1)
  <2>1. CASE u = t
    BY <1>5, <2>1 DEF Accounts
  <2>2. CASE u # t
    <3>1. Looping(u)
      BY <1>1, <1>5, <2>2
    <3>2. Holds(connectQ, u)
      BY <3>1 DEF Inv, HandshakeExclusive, Looping
    <3>3. attempts' = attempts
      BY <2>2, <3>2 DEF Accounts, Holds
    <3> QED BY <3>1, <3>3 DEF LocksAccounted, Looping
  <2> QED BY <2>1, <2>2
<1>6. (\A u \in Tasks : InLock(u) /\ pc[u] \notin {"stop_notify", "disconnecting"}
                        => attempts \in 1..(Attempts - 1))'
  BY <1>5 DEF Looping
<1> QED BY <1>3, <1>4, <1>6 DEF LocksAccounted

\* A handler that moves t alone leaves the others where they are.
LEMMA GotoAside ==
  ASSUME TypeOK, NEW t \in Tasks, NEW p, Goto(t, p),
         UNCHANGED call \/ \E c : call' = [call EXCEPT ![t] = c]
  PROVE  Aside(t) /\ pc'[t] = p
BY DEF TypeOK, Goto, Aside

LEMMA NotLined ==
  ASSUME NEW t \in Tasks,
         pc[t] \in {"idle", "start", "backoff", "settle", "done"}
  PROVE  t \notin Connecting /\ t \notin Writing /\ ~Looping(t)
BY DEF Connecting, Writing, InLock, Looping

LEMMA StartAccounts ==
  ASSUME Inv, NEW t \in Tasks,
         StartQueues(t) \/ StartGivesUp(t) \/ StartSends(t) \/ BacksOff(t)
  PROVE  Accounts(t)
<1>1. CASE StartQueues(t)
  <2>1. Aside(t) /\ pc'[t] = "queued" /\ pc[t] = "start"
    BY <1>1, GotoAside DEF StartQueues, Inv
  <2>2. t \notin Connecting /\ t \notin Writing
    BY <2>1, NotLined
  <2>3. t \in Connecting' /\ t \notin Writing' /\ ~Looping(t)'
    BY <2>1 DEF Connecting, Writing, Looping, InLock
  <2>4. /\ connectQ' = Append(connectQ, t) /\ opQ' = opQ
        /\ attempts' = attempts
    BY <1>1 DEF StartQueues
  <2> QED BY <2>1, <2>2, <2>3, <2>4 DEF Accounts, Moves
<1>2. CASE StartGivesUp(t) \/ BacksOff(t)
  <2>1. /\ Aside(t) /\ pc'[t] \in {"idle", "start"}
        /\ pc[t] \in {"start", "backoff"}
    BY <1>2, GotoAside DEF StartGivesUp, BacksOff, Inv
  <2>2. t \notin Connecting /\ t \notin Writing
    BY <2>1, NotLined
  <2>3. t \notin Connecting' /\ t \notin Writing' /\ ~Looping(t)'
    BY <2>1 DEF Connecting, Writing, Looping, InLock
  <2>4. UNCHANGED <<connectQ, opQ, attempts>>
    BY <1>2 DEF StartGivesUp, BacksOff
  <2> QED BY <2>1, <2>2, <2>3, <2>4 DEF Accounts, Moves
<1>3. CASE StartSends(t)
  <2>1. /\ \E c : call' = [call EXCEPT ![t] = c]
        /\ call'[t].req \notin Handshake /\ opQ' = Append(opQ, t)
    BY <1>3 DEF StartSends, Send, SendAgain, ResendCall, Handshake, Inv, TypeOK
  <2>2. Aside(t) /\ pc'[t] = "write" /\ pc[t] = "start"
    BY <1>3, <2>1, GotoAside DEF StartSends, Inv
  <2>3. t \notin Connecting /\ t \notin Writing
    BY <2>2, NotLined
  <2>4. t \notin Connecting' /\ t \in Writing' /\ ~Looping(t)'
    BY <2>1, <2>2 DEF Connecting, Writing, Looping, InLock
  <2>5. UNCHANGED <<connectQ, attempts>>
    BY <1>3 DEF StartSends
  <2> QED BY <2>1, <2>2, <2>3, <2>4, <2>5 DEF Accounts, Moves
<1> QED BY <1>1, <1>2, <1>3

\* Once _ensure_connected returned a task writes or is gone, the lock is free.
LEMMA ProceedAccounts ==
  ASSUME Inv, NEW t \in Tasks, NEW futures, Proceed(t, futures),
         Holds(connectQ, t), connectQ' = Tail(connectQ), pc[t] # "write"
  PROVE  Accounts(t)
<1>1. CASE /\ Send(t, "status", futures) \/ SendAgain(t, futures)
           /\ Goto(t, "write")
  <2>1. /\ \E c : call' = [call EXCEPT ![t] = c]
        /\ call'[t].req \notin Handshake /\ opQ' = Append(opQ, t)
    BY <1>1 DEF Send, SendAgain, ResendCall, Handshake, Inv, TypeOK
  <2>2. Aside(t) /\ pc'[t] = "write"
    BY <1>1, <2>1, GotoAside DEF Inv
  <2>3. t \notin Writing /\ t \notin Connecting' /\ t \in Writing' /\ ~Looping(t)'
    BY <2>1, <2>2 DEF Connecting, Writing, InLock, Looping
  <2> QED BY <2>1, <2>2, <2>3 DEF Accounts, Moves
<1>2. CASE /\ Goto(t, "idle") /\ call' = [call EXCEPT ![t] = NoCall]
           /\ UNCHANGED opQ
  <2>1. Aside(t) /\ pc'[t] = "idle"
    BY <1>2, GotoAside DEF Inv
  <2>2. t \notin Writing /\ t \notin Connecting' /\ t \notin Writing' /\ ~Looping(t)'
    BY <2>1 DEF Connecting, Writing, InLock, Looping
  <2> QED BY <1>2, <2>1, <2>2 DEF Accounts, Moves
<1> QED BY <1>1, <1>2 DEF Proceed

\* A failed attempt goes round the loop with one attempt less, or out of it with
\* the lock freed.
LEMMA LoopAccounts ==
  ASSUME Inv, LocksAccounted, NEW t \in Tasks, Looping(t), LoopAgain(t), Aside(t),
         pc'[t] = LoopTo(t) \/ (LoopTo(t) = "idle" /\ pc'[t] = "start"),
         Moves(t, opQ, opQ', Writing, {})
  PROVE  Accounts(t)
<1>1. Holds(connectQ, t) /\ t \in Connecting
  BY DEF Inv, HandshakeExclusive, Looping, Connecting
<1>2. t \notin Writing'
  BY DEF Writing, LoopTo
<1>3. Moves(t, opQ, opQ', Writing, Writing')
  BY <1>2 DEF Moves
<1>4. CASE Exhausted
  <2>1. t \notin Connecting' /\ ~Looping(t)' /\ connectQ' = Tail(connectQ)
    BY <1>4 DEF Connecting, InLock, Looping, LoopTo, LoopAgain
  <2> QED BY <1>1, <1>3, <2>1 DEF Accounts, Moves
<1>5. CASE ~Exhausted
  <2>1. pc'[t] = "connect" /\ connectQ' = connectQ /\ attempts' = attempts - 1
    BY <1>5 DEF LoopTo, LoopAgain
  <2>2. t \in Connecting'
    BY <2>1 DEF Connecting, InLock
  <2>3. attempts \in 1..(Attempts - 1) /\ attempts # 1
    BY <1>5 DEF LocksAccounted, Looping, Exhausted
  <2>4. attempts' \in 1..(Attempts - 1)
    BY <2>1, <2>3, AttemptsAssumption
  <2> QED BY <1>1, <1>3, <2>1, <2>2, <2>4 DEF Accounts, Moves
<1> QED BY <1>4, <1>5

\* The next request of the handshake is queued for the write.
LEMMA HandshakeAccounts ==
  ASSUME Inv, LocksAccounted, NEW t \in Tasks, Looping(t), pc[t] # "write",
         NEW r \in Handshake, NEW futures, Send(t, r, futures), Goto(t, "write"),
         UNCHANGED <<connectQ, attempts>>
  PROVE  Accounts(t)
<1>1. /\ \E c : call' = [call EXCEPT ![t] = c]
      /\ call'[t].req = r /\ opQ' = Append(opQ, t)
  BY DEF Send, Inv, TypeOK
<1>2. Aside(t) /\ pc'[t] = "write"
  BY <1>1, GotoAside DEF Inv
<1>3. t \in Connecting /\ t \in Connecting' /\ t \notin Writing /\ t \in Writing'
  BY <1>1, <1>2 DEF Connecting, Writing, InLock, Looping
<1>4. attempts' \in 1..(Attempts - 1)
  BY DEF LocksAccounted, Looping
<1> QED BY <1>1, <1>2, <1>3, <1>4 DEF Accounts, Moves

\* The task is not at a write, before nor after.
LEMMA OpQueueStays ==
  ASSUME NEW t \in Tasks, pc[t] # "write", UNCHANGED opQ
  PROVE  Moves(t, opQ, opQ', Writing, {})
BY DEF Moves, Writing

LEMMA ConnectAccounts ==
  ASSUME Inv, LocksAccounted, NEW t \in Tasks,
         \/ RecheckReady(t) \/ RecheckConnects(t) \/ Connects(t)
         \/ ConnectFails(t) \/ Notifies(t) \/ NotifyFails(t)
  PROVE  Accounts(t)
<1>1. CASE RecheckReady(t)
  BY <1>1, ProceedAccounts DEF RecheckReady
<1>2. CASE RecheckConnects(t)
  <2>1. Aside(t) /\ pc'[t] = "connect" /\ pc[t] = "queued"
    BY <1>2, GotoAside DEF RecheckConnects, Inv
  <2>2. /\ t \in Connecting /\ t \in Connecting'
        /\ t \notin Writing /\ t \notin Writing'
    BY <2>1 DEF Connecting, Writing, InLock
  <2>3. attempts' \in 1..(Attempts - 1)
    BY <1>2, AttemptsAssumption DEF RecheckConnects
  <2>4. UNCHANGED <<connectQ, opQ>> /\ Holds(connectQ, t)
    BY <1>2 DEF RecheckConnects
  <2> QED BY <2>1, <2>2, <2>3, <2>4 DEF Accounts, Moves
<1>3. CASE Connects(t)
  <2>1. Aside(t) /\ pc'[t] = "notify" /\ pc[t] = "connect"
    BY <1>3, GotoAside DEF Connects, Inv
  <2>2. /\ t \in Connecting /\ t \in Connecting' /\ Looping(t)
        /\ t \notin Writing /\ t \notin Writing'
    BY <2>1 DEF Connecting, Writing, InLock, Looping
  <2>3. UNCHANGED <<connectQ, opQ, attempts>>
    BY <1>3 DEF Connects
  <2> QED BY <2>1, <2>2, <2>3 DEF Accounts, Moves, LocksAccounted, Looping
<1>4. CASE \/ ConnectFails(t) \/ NotifyFails(t) \/ (Notifies(t) /\ ~Connected)
  <2>1. /\ LoopAgain(t) /\ Goto(t, LoopTo(t)) /\ UNCHANGED <<call, opQ>>
        /\ pc[t] \in {"connect", "notify"}
    BY <1>4 DEF ConnectFails, NotifyFails, Notifies
  <2>2. Looping(t) /\ Moves(t, opQ, opQ', Writing, {})
    BY <2>1, OpQueueStays DEF Looping, InLock
  <2>3. Aside(t) /\ pc'[t] = LoopTo(t)
    BY <2>1, GotoAside DEF Inv
  <2> QED BY <2>1, <2>2, <2>3, LoopAccounts
<1>5. CASE Notifies(t) /\ Connected
  <2>1. /\ Send(t, "device_info", expecting) /\ Goto(t, "write")
        /\ UNCHANGED <<connectQ, attempts>> /\ pc[t] = "notify"
    BY <1>5 DEF Notifies
  <2>2. Looping(t)
    BY <2>1 DEF Looping, InLock
  <2> QED BY <2>1, <2>2, HandshakeAccounts DEF Handshake
<1> QED BY <1>1, <1>2, <1>3, <1>4, <1>5

LEMMA WriteAccounts ==
  ASSUME Inv, LocksAccounted, NEW t \in Tasks, Written(t) \/ WriteFails(t)
  PROVE  Accounts(t)
<1>1. /\ pc[t] = "write" /\ Holds(opQ, t) /\ opQ' = Tail(opQ)
  BY DEF Written, WriteFails
<1>2. CASE Written(t)
  <2>1. \/ Goto(t, "idle") /\ call' = [call EXCEPT ![t] = NoCall]
           /\ call[t].req \notin Handshake
        \/ Goto(t, "await") /\ UNCHANGED call
    BY <1>2 DEF Written, Handshake
  <2>2. /\ Aside(t)
        /\ \/ pc'[t] = "idle" /\ call[t].req \notin Handshake
           \/ pc'[t] = "await" /\ call' = call
    <3>1. CASE Goto(t, "idle") /\ call' = [call EXCEPT ![t] = NoCall]
               /\ call[t].req \notin Handshake
      BY <3>1, GotoAside DEF Inv
    <3>2. CASE Goto(t, "await") /\ UNCHANGED call
      BY <3>2, GotoAside DEF Inv
    <3> QED BY <2>1, <3>1, <3>2
  <2>3. t \in Connecting' <=> t \in Connecting
    BY <1>1, <2>2 DEF Connecting, InLock
  <2>4. t \notin Writing' /\ (Looping(t)' => Looping(t))
    BY <1>1, <2>2 DEF Writing, Looping, InLock
  <2>5. UNCHANGED <<connectQ, attempts>>
    BY <1>2 DEF Written
  <2> QED BY <1>1, <2>2, <2>3, <2>4, <2>5
          DEF Accounts, Moves, LocksAccounted, Looping
<1>3. CASE WriteFails(t)
  <2> DEFINE p == IF call[t].req \in Handshake THEN LoopTo(t) ELSE AfterError(t)
             n == IF Connected /\ paired /\ ~expected THEN 2 ELSE 1
             j == IF paired' THEN "resend" ELSE "reconnect"
  <2>1. Spawn(n, j, [pc EXCEPT ![t] = p]) /\ call' = [call EXCEPT ![t] = NoCall]
    BY <1>3 DEF WriteFails
  <2>2. Aside(t) /\ (pc'[t] = p \/ (p = "idle" /\ pc'[t] = "start"))
    <3> HIDE DEF n, j, p
    <3>1. PICK S \in SUBSET Background :
            /\ \A b \in S : [pc EXCEPT ![t] = p][b] = "idle"
            /\ pc' = [u \in Tasks |-> IF u \in S THEN "start"
                                      ELSE [pc EXCEPT ![t] = p][u]]
      BY <2>1 DEF Spawn
    <3>2. \A u \in Tasks : u # t => call'[u] = call[u]
      BY <2>1 DEF Inv, TypeOK
    <3>3. ASSUME NEW u \in Tasks, u # t
          PROVE  pc'[u] = pc[u] \/ (pc[u] = "idle" /\ pc'[u] = "start")
      BY <3>1, <3>3 DEF Inv, TypeOK
    <3>4. pc'[t] = p \/ (p = "idle" /\ pc'[t] = "start")
      BY <3>1 DEF Inv, TypeOK
    <3> QED BY <3>2, <3>3, <3>4 DEF Aside
  <2>3. CASE call[t].req \in Handshake
    <3>1. Looping(t) /\ LoopAgain(t)
      BY <1>1, <1>3, <2>3 DEF WriteFails, Looping, InLock
    <3>2. Moves(t, opQ, opQ', Writing, {})
      BY <1>1 DEF Moves
    <3> QED BY <2>2, <2>3, <3>1, <3>2, LoopAccounts
  <2>4. CASE call[t].req \notin Handshake
    <3>1. pc'[t] \in {"done", "idle", "start"} /\ UNCHANGED <<connectQ, attempts>>
      BY <1>3, <2>2, <2>4 DEF AfterError, WriteFails
    <3>2. t \notin Connecting /\ t \notin Connecting' /\ t \notin Writing'
          /\ ~Looping(t)'
      BY <1>1, <2>4, <3>1 DEF Connecting, Writing, InLock, Looping
    <3> QED BY <1>1, <2>2, <3>1, <3>2 DEF Accounts, Moves
  <2> QED BY <2>3, <2>4
<1> QED BY <1>2, <1>3

LEMMA AnswerAccounts ==
  ASSUME Inv, LocksAccounted, NEW t \in Tasks,
         \/ InfoAnswered(t) \/ PairAnswered(t) \/ HandshakeRefused(t)
         \/ StatusAnswered(t) \/ TimesOut(t)
  PROVE  Accounts(t)
<1>1. pc[t] = "await"
  BY DEF InfoAnswered, PairAnswered, Accepted, HandshakeRefused, StatusAnswered,
         TimesOut, Unanswered
<1>2. call[t].req \in Handshake => Looping(t)
  BY <1>1 DEF Looping, InLock
<1>3. CASE InfoAnswered(t) /\ Connected
  <2>1. /\ Send(t, "pair", Pop(call[t].seq)) /\ Goto(t, "write")
        /\ UNCHANGED <<connectQ, attempts>> /\ Looping(t)
    BY <1>2, <1>3 DEF InfoAnswered, Accepted, Handshake
  <2> QED BY <1>1, <2>1, HandshakeAccounts DEF Handshake
<1>4. CASE \/ (InfoAnswered(t) /\ ~Connected) \/ HandshakeRefused(t)
           \/ (TimesOut(t) /\ call[t].req \in Handshake)
  <2>1. /\ LoopAgain(t) /\ Goto(t, LoopTo(t)) /\ UNCHANGED opQ /\ Looping(t)
        /\ call' = [call EXCEPT ![t] = NoCall]
    BY <1>2, <1>4 DEF InfoAnswered, Accepted, HandshakeRefused, TimesOut, Handshake
  <2>2. Moves(t, opQ, opQ', Writing, {})
    BY <1>1, <2>1, OpQueueStays
  <2>3. Aside(t) /\ pc'[t] = LoopTo(t)
    BY <2>1, GotoAside DEF Inv
  <2> QED BY <2>1, <2>2, <2>3, LoopAccounts
<1>5. CASE PairAnswered(t)
  <2>1. /\ Proceed(t, Pop(call[t].seq)) /\ connectQ' = Tail(connectQ)
        /\ Holds(connectQ, t)
    BY <1>2, <1>5 DEF PairAnswered, Accepted, Handshake, Looping, Inv,
                      HandshakeExclusive
  <2> QED BY <1>1, <2>1, ProceedAccounts
<1>6. CASE StatusAnswered(t) \/ (TimesOut(t) /\ call[t].req \notin Handshake)
  <2>1. /\ Goto(t, "settle") \/ Goto(t, "done")
        /\ call' = [call EXCEPT ![t] = NoCall]
        /\ UNCHANGED <<connectQ, opQ, attempts>> /\ call[t].req \notin Handshake
    BY <1>6 DEF StatusAnswered, TimesOut, Handshake
  <2>2. Aside(t) /\ pc'[t] \in {"settle", "done"}
    BY <2>1, GotoAside DEF Inv
  <2>3. t \notin Connecting /\ t \notin Connecting' /\ ~Looping(t)'
        /\ t \notin Writing /\ t \notin Writing'
    BY <1>1, <2>1, <2>2 DEF Connecting, Writing, InLock, Looping
  <2> QED BY <2>1, <2>2, <2>3 DEF Accounts, Moves
<1> QED BY <1>3, <1>4, <1>5, <1>6

\* stop() takes the lock, waits for it, or is through with it.
LEMMA StopAccounts ==
  ASSUME Inv, LocksAccounted, NEW t \in Tasks,
         \/ SettleEnds(t) \/ StopLocked(t) \/ StopsNotify(t)
         \/ Disconnects(t) \/ StopFails(t)
  PROVE  Accounts(t)
<1>1. /\ pc[t] \in {"settle", "stopping", "stop_notify", "disconnecting"}
      /\ UNCHANGED <<call, opQ, attempts>>
  BY DEF SettleEnds, StopLocked, StopsNotify, Disconnects, StopFails
<1>2. \E p \in {"stopping", "stop_notify", "disconnecting", "done"} : Goto(t, p)
  BY DEF SettleEnds, StopLocked, StopsNotify, Disconnects, StopFails,
         ExecuteDisconnect
<1>3. /\ Aside(t)
      /\ pc'[t] \in {"stopping", "stop_notify", "disconnecting", "done"}
  BY <1>1, <1>2, GotoAside DEF Inv
<1>4. t \notin Writing /\ t \notin Writing' /\ ~Looping(t)'
  BY <1>1, <1>3 DEF Writing, InLock, Looping
<1>5. t \in Connecting <=> pc[t] # "settle"
  BY <1>1 DEF Connecting, InLock
<1>6. t \in Connecting' <=> pc'[t] # "done"
  BY <1>3 DEF Connecting, InLock
<1>7. Moves(t, connectQ, connectQ', Connecting, Connecting')
  <2>1. CASE SettleEnds(t)
    <3>1. pc[t] = "settle"
      BY <2>1 DEF SettleEnds
    <3>2. CASE connectQ # <<>>
      <4>1. connectQ' = Append(connectQ, t) /\ pc'[t] = "stopping"
        BY <2>1, <3>2 DEF SettleEnds, Goto, Inv, TypeOK
      <4> QED BY <1>5, <1>6, <3>1, <4>1 DEF Moves
    <3>3. CASE connectQ = <<>> /\ Connected
      <4>1. connectQ' = <<t>> /\ pc'[t] = "stop_notify"
        BY <2>1, <3>3 DEF SettleEnds, ExecuteDisconnect, Goto, Inv, TypeOK
      <4>2. <<t>> = Append(connectQ, t)
        BY <3>3
      <4> QED BY <1>5, <1>6, <3>1, <4>1, <4>2 DEF Moves
    <3>4. CASE connectQ = <<>> /\ ~Connected
      <4>1. connectQ' = Tail(<<t>>) /\ pc'[t] = "done"
        BY <2>1, <3>4 DEF SettleEnds, ExecuteDisconnect, Goto, Inv, TypeOK
      <4>2. Tail(<<t>>) = connectQ
        BY <3>4
      <4> QED BY <1>5, <1>6, <3>1, <4>1, <4>2 DEF Moves
    <3> QED BY <3>2, <3>3, <3>4
  <2>2. CASE StopLocked(t)
    <3>1. pc[t] = "stopping" /\ Holds(connectQ, t)
      BY <2>2 DEF StopLocked
    <3>2. CASE Connected
      <4>1. connectQ' = connectQ /\ pc'[t] = "stop_notify"
        BY <2>2, <3>2 DEF StopLocked, ExecuteDisconnect, Goto, Inv, TypeOK
      <4> QED BY <1>5, <1>6, <3>1, <4>1 DEF Moves
    <3>3. CASE ~Connected
      <4>1. connectQ' = Tail(connectQ) /\ pc'[t] = "done"
        BY <2>2, <3>3 DEF StopLocked, ExecuteDisconnect, Goto, Inv, TypeOK
      <4> QED BY <1>6, <3>1, <4>1 DEF Moves
    <3> QED BY <3>2, <3>3
  <2>3. CASE StopsNotify(t)
    <3>1. connectQ' = connectQ /\ pc[t] # "settle" /\ pc'[t] # "done"
      BY <2>3 DEF StopsNotify, Goto, Inv, TypeOK
    <3> QED BY <1>5, <1>6, <3>1 DEF Moves
  <2>4. CASE Disconnects(t) \/ StopFails(t)
    <3>1. /\ connectQ' = Tail(connectQ) /\ pc'[t] = "done"
          /\ pc[t] \in {"stop_notify", "disconnecting"}
      BY <2>4 DEF Disconnects, StopFails, Goto, Inv, TypeOK
    <3>2. Holds(connectQ, t)
      BY <3>1 DEF Inv, HandshakeExclusive, InLock
    <3> QED BY <1>6, <3>1, <3>2 DEF Moves
  <2> QED BY <2>1, <2>2, <2>3, <2>4
<1> QED BY <1>1, <1>3, <1>4, <1>7 DEF Accounts, Moves

\* The radio and the board touch no queue.
LEMMA EnvironmentAccounts ==
  ASSUME Inv, LocksAccounted, Deliver \/ BoardReports \/ Drops
  PROVE  LocksAccounted'
<1>1. UNCHANGED <<connectQ, opQ, attempts>>
  BY DEF Deliver, BoardReports, Drops
<1>2. \A u \in Tasks : call'[u].req = call[u].req
  <2>1. CASE Deliver
    <3> SUFFICES ASSUME NEW u \in Tasks PROVE call'[u].req = call[u].req
      OBVIOUS
    <3>1. \/ call'[u] = call[u]
          \/ \E r : call'[u] = [call[u] EXCEPT !.reply = r]
      BY <2>1 DEF Deliver
    <3>2. call[u] \in Calls
      BY DEF Inv, TypeOK
    <3> QED BY <3>1, <3>2 DEF Calls
  <2>2. CASE BoardReports \/ Drops
    BY <2>2 DEF BoardReports, Drops
  <2> QED BY <2>1, <2>2
<1>3. \A u \in Tasks : pc'[u] = pc[u] \/ (pc[u] = "idle" /\ pc'[u] = "start")
  <2>1. CASE BoardReports
    BY <2>1 DEF BoardReports
  <2>2. CASE Deliver \/ Drops
    <3>1. \E n, j : Spawn(n, j, pc)
      BY <2>2 DEF Deliver, Drops
    <3> QED BY <3>1 DEF Spawn
  <2> QED BY <2>1, <2>2
<1>4. \A u \in Tasks : /\ u \in Connecting' <=> u \in Connecting
                       /\ u \in Writing' <=> u \in Writing
                       /\ Looping(u)' <=> Looping(u)
  BY <1>2, <1>3 DEF Connecting, Writing, InLock, Looping
<1>5. Lined(connectQ', Connecting') /\ Lined(opQ', Writing')
  BY <1>1, <1>4 DEF LocksAccounted, Lined
<1>6. \A u \in Tasks : Looping(u)' => attempts' \in 1..(Attempts - 1)
  BY <1>1, <1>4 DEF LocksAccounted, Looping
<1> QED BY <1>5, <1>6 DEF LocksAccounted, Looping

LEMMA InitLocks == Init => LocksAccounted
<1> SUFFICES ASSUME Init PROVE LocksAccounted
  OBVIOUS
<1>1. \A t \in Tasks : pc[t] \in {"start", "idle"}
  BY DEF Init
<1>2. connectQ = <<>> /\ opQ = <<>>
  BY DEF Init
<1> QED BY <1>1, <1>2 DEF LocksAccounted, Lined, In, Connecting, Writing, InLock

LEMMA NextLocks == Inv /\ LocksAccounted /\ [Next]_vars => LocksAccounted'
<1> SUFFICES ASSUME Inv, LocksAccounted, [Next]_vars PROVE LocksAccounted'
  OBVIOUS
<1>1. ASSUME NEW t \in Tasks, TaskStep(t) PROVE LocksAccounted'
  <2>1. Accounts(t)
    BY <1>1, StartAccounts, ConnectAccounts, WriteAccounts, AnswerAccounts,
       StopAccounts DEF TaskStep
  <2> QED BY <2>1, AccountsKeep
<1>2. CASE Deliver \/ BoardReports \/ Drops
  BY <1>2, EnvironmentAccounts
<1>3. CASE UNCHANGED vars
  BY <1>3 DEF vars, LocksAccounted, Lined, In, Connecting, Writing, InLock
<1> QED BY <1>1, <1>2, <1>3 DEF Next

\* Whatever errors, timeouts and stop() do, for any number of tasks and attempts:
\* exactly the tasks that await or use _connect_lock and _operation_lock are in
\* their queues, each once, one at a time is in the connect loop or the disconnect,
\* and who connects has an attempt left.
THEOREM LocksKept == Spec => []LockDiscipline
<1>1. Inv /\ LocksAccounted => LockDiscipline
  BY DEF Inv, LockDiscipline
<1> QED BY <1>1, InitInv, NextInv, InitLocks, NextLocks, PTL DEF Spec

-----------------------------------------------------------------------------
(* A rotated key.  The board understands nothing, so it answers nothing and   *)
(* no handshake ends; what the read raises is what the link made of it.       *)

\* The most a task can be doing: connecting, or sending what nobody answers.
Unheard(t) ==
  /\ call[t].reply = "none"
  /\ pc[t] \notin {"settle", "stopping", "stop_notify", "disconnecting"}
  /\ pc[t] = "write" => call[t].req \in Handshake \cup {"resend", "response"}
  /\ pc[t] = "await" => call[t].req \in Handshake

KeyInv ==
  /\ link \in {"down", "up"} /\ air = <<>> /\ answered = {} /\ ~paired
  /\ outcome \in {"running", "BleakError"}
  /\ \A t \in Tasks : Unheard(t)

\* A step of t that is heard by nobody either.
LEMMA UnheardStep ==
  ASSUME Inv, KeyInv, NEW t \in Tasks, NEW p, Goto(t, p), Unheard(t)',
         UNCHANGED call \/ \E c : call' = [call EXCEPT ![t] = c],
         link' \in {"down", "up"}, UNCHANGED <<air, answered, paired>>,
         outcome' \in {"running", "BleakError"}
  PROVE  KeyInv'
<1>1. ASSUME NEW u \in Tasks, u # t PROVE Unheard(u)'
  <2>1. pc'[u] = pc[u] /\ call'[u] = call[u]
    BY <1>1 DEF Goto, Inv, TypeOK
  <2> QED BY <2>1 DEF KeyInv, Unheard
<1> QED BY <1>1 DEF KeyInv

\* The attempts of the connect loop end in BleakError.
LEMMA UnheardLoop ==
  ASSUME Inv, KeyInv, NEW t \in Tasks, LoopAgain(t), Goto(t, LoopTo(t)),
         UNCHANGED call \/ call' = [call EXCEPT ![t] = NoCall],
         UNCHANGED <<link, air, answered, paired>>
  PROVE  KeyInv'
<1>1. outcome' \in {"running", "BleakError"}
  BY DEF LoopAgain, KeyInv
<1>2. pc'[t] \in {"connect", "done", "backoff", "idle"}
  BY DEF Goto, LoopTo, Inv, TypeOK
<1>3. call'[t].reply = "none"
  BY DEF KeyInv, Unheard, NoCall, Inv, TypeOK
<1>4. Unheard(t)'
  BY <1>2, <1>3 DEF Unheard
<1>5. UNCHANGED call \/ \E c : call' = [call EXCEPT ![t] = c]
  OBVIOUS
<1>6. link' \in {"down", "up"}
  BY DEF KeyInv
<1> QED BY <1>1, <1>4, <1>5, <1>6, UnheardStep

\* So does sending a request that is no status request.
LEMMA UnheardSend ==
  ASSUME Inv, KeyInv, NEW t \in Tasks, NEW r \in Handshake \cup {"response"},
         NEW futures, Send(t, r, futures), Goto(t, "write"),
         UNCHANGED <<link, air, answered, paired, outcome>>
  PROVE  KeyInv'
<1>1. pc'[t] = "write" /\ call'[t].reply = "none" /\ call'[t].req = r
  BY DEF Send, Goto, Inv, TypeOK
<1>2. Unheard(t)'
  BY <1>1 DEF Unheard
<1>3. /\ \E c : call' = [call EXCEPT ![t] = c]
      /\ link' \in {"down", "up"} /\ outcome' \in {"running", "BleakError"}
  BY DEF Send, KeyInv
<1> QED BY <1>2, <1>3, UnheardStep

LEMMA UnheardTask ==
  ASSUME ~KeyValid, Inv, KeyInv, NEW t \in Tasks, TaskStep(t)
  PROVE  KeyInv'
<1>1. Unheard(t) /\ ~Ready
  BY DEF KeyInv, Ready
<1>2. CASE \/ StartQueues(t) \/ StartGivesUp(t) \/ RecheckConnects(t)
           \/ Connects(t) \/ BacksOff(t)
  <2>1. /\ \E p \in {"queued", "idle", "connect", "notify", "start"} : Goto(t, p)
        /\ UNCHANGED <<call, air, answered, paired, outcome>>
    BY <1>2 DEF StartQueues, StartGivesUp, RecheckConnects, Connects, BacksOff
  <2>2. link' \in {"down", "up"} /\ outcome' \in {"running", "BleakError"}
    BY <1>2 DEF KeyInv, StartQueues, StartGivesUp, RecheckConnects, Connects,
                BacksOff
  <2>3. pc'[t] \in {"queued", "idle", "connect", "notify", "start"}
    BY <2>1 DEF Goto, Inv, TypeOK
  <2>4. Unheard(t)'
    BY <1>1, <2>1, <2>3 DEF Unheard
  <2> QED BY <2>1, <2>2, <2>4, UnheardStep
<1>3. CASE StartSends(t)
  <2>1. /\ Send(t, "response", expecting) /\ Goto(t, "write")
        /\ UNCHANGED <<link, air, answered, paired, outcome>>
    BY <1>1, <1>3 DEF StartSends
  <2> QED BY <2>1, UnheardSend
<1>4. CASE RecheckReady(t)
  BY <1>1, <1>4 DEF RecheckReady
<1>5. CASE \/ ConnectFails(t) \/ NotifyFails(t) \/ (Notifies(t) /\ ~Connected)
           \/ HandshakeRefused(t) \/ (TimesOut(t) /\ call[t].req \in Handshake)
  <2>1. /\ LoopAgain(t) /\ Goto(t, LoopTo(t))
        /\ UNCHANGED call \/ call' = [call EXCEPT ![t] = NoCall]
        /\ UNCHANGED <<link, air, answered, paired>>
    BY <1>5 DEF ConnectFails, NotifyFails, Notifies, HandshakeRefused, TimesOut
  <2> QED BY <2>1, UnheardLoop
<1>6. CASE Notifies(t) /\ Connected
  <2>1. /\ Send(t, "device_info", expecting) /\ Goto(t, "write")
        /\ UNCHANGED <<link, air, answered, paired, outcome>>
    BY <1>6 DEF Notifies
  <2> QED BY <2>1, UnheardSend DEF Handshake
<1>7. CASE Written(t)
  <2>1. call[t].req \in Handshake \cup {"resend", "response"}
    BY <1>1, <1>7 DEF Unheard, Written
  <2>2. ~CanServe(call[t].req)
    BY <2>1 DEF CanServe, KeyInv, Handshake
  <2>3. UNCHANGED <<link, air, answered>>
    BY <1>7, <2>2 DEF Written, Reacts
  <2>4. UNCHANGED <<paired, outcome>>
    BY <1>7 DEF Written
  <2>5. CASE Goto(t, "idle") /\ call' = [call EXCEPT ![t] = NoCall]
    <3>1. pc'[t] = "idle" /\ call'[t].reply = "none"
      BY <2>5 DEF Goto, NoCall, Inv, TypeOK
    <3>2. Unheard(t)'
      BY <3>1 DEF Unheard
    <3> QED BY <2>3, <2>4, <2>5, <3>2, UnheardStep DEF KeyInv
  <2>6. CASE Goto(t, "await") /\ UNCHANGED call /\ call[t].req \in Handshake
    <3>1. pc'[t] = "await"
      BY <2>6 DEF Goto, Inv, TypeOK
    <3>2. Unheard(t)'
      BY <1>1, <2>6, <3>1 DEF Unheard
    <3> QED BY <2>3, <2>4, <2>6, <3>2, UnheardStep DEF KeyInv
  <2> QED BY <1>7, <2>1, <2>5, <2>6 DEF Written
<1>8. CASE WriteFails(t)
  <2> DEFINE p == IF call[t].req \in Handshake THEN LoopTo(t) ELSE AfterError(t)
             n == IF Connected /\ paired /\ ~expected THEN 2 ELSE 1
             j == IF paired' THEN "resend" ELSE "reconnect"
  <2>1. Spawn(n, j, [pc EXCEPT ![t] = p]) /\ call' = [call EXCEPT ![t] = NoCall]
    BY <1>8 DEF WriteFails
  <2>2. p \in {"connect", "done", "backoff", "idle"}
    BY DEF LoopTo, AfterError
  <2>3. \A u \in Tasks : \/ pc'[u] \in {"start", "connect", "done", "backoff", "idle"}
                         \/ u # t /\ pc'[u] = pc[u]
    <3> HIDE DEF n, j, p
    <3> QED BY <2>1, <2>2 DEF Spawn, Inv, TypeOK
  <2>4. \A u \in Tasks : call'[u] = NoCall \/ (u # t /\ call'[u] = call[u])
    BY <2>1 DEF Inv, TypeOK
  <2>5. ASSUME NEW u \in Tasks PROVE Unheard(u)'
    <3>1. call'[u].reply = "none"
      BY <2>4 DEF KeyInv, Unheard, NoCall
    <3>2. CASE pc'[u] \in {"start", "connect", "done", "backoff", "idle"}
      BY <3>1, <3>2 DEF Unheard
    <3>3. CASE u # t /\ pc'[u] = pc[u]
      <4>1. call'[u] = call[u]
        BY <2>1, <3>3 DEF Inv, TypeOK
      <4> QED BY <3>3, <4>1 DEF KeyInv, Unheard
    <3> QED BY <2>3, <3>2, <3>3
  <2>6. ~paired' /\ UNCHANGED <<link, air, answered>>
    BY <1>8 DEF WriteFails, KeyInv
  <2>7. outcome' \in {"running", "BleakError"}
    BY <1>8 DEF WriteFails, LoopAgain, KeyInv
  <2> QED BY <2>5, <2>6, <2>7 DEF KeyInv
<1>9. CASE \/ InfoAnswered(t) \/ PairAnswered(t) \/ StatusAnswered(t)
           \/ (TimesOut(t) /\ call[t].req \notin Handshake)
           \/ SettleEnds(t) \/ StopLocked(t) \/ StopsNotify(t)
           \/ Disconnects(t) \/ StopFails(t)
  BY <1>1, <1>9 DEF Unheard, InfoAnswered, PairAnswered, Accepted, StatusAnswered,
                    TimesOut, Unanswered, SettleEnds, StopLocked, StopsNotify,
                    Disconnects, StopFails
<1> QED BY <1>2, <1>3, <1>4, <1>5, <1>6, <1>7, <1>8, <1>9 DEF TaskStep

LEMMA UnheardEnvironment ==
  ASSUME Inv, KeyInv, Deliver \/ BoardReports \/ Drops
  PROVE  KeyInv'
<1>1. Drops
  BY DEF KeyInv, Deliver, BoardReports
<1>2. \A u \in Tasks : pc'[u] \in {"start", pc[u]}
  BY <1>1 DEF Drops, Spawn
<1>3. UNCHANGED <<call, outcome, answered>> /\ ~paired' /\ link' = "down"
      /\ air' = <<>>
  BY <1>1 DEF Drops, Disconnected
<1> QED BY <1>2, <1>3 DEF KeyInv, Unheard

\* With a key that is not the board's no read ever raises TuyaBLEError or returns,
\* whatever the attempts, the tasks and the radio do: the error that starts the
\* reauthentication cannot come from the board (coordinator.py, RotatedKeySurfaces).
THEOREM RotatedKeyHidden ==
  ASSUME ~KeyValid
  PROVE  Spec => [](outcome \in {"running", "BleakError"})
<1>1. Init => KeyInv
  BY DEF Init, KeyInv, Unheard, NoCall
<1>2. Inv /\ KeyInv /\ [Next]_vars => KeyInv'
  <2> SUFFICES ASSUME Inv, KeyInv, [Next]_vars PROVE KeyInv'
    OBVIOUS
  <2>1. CASE UNCHANGED vars
    BY <2>1 DEF vars, KeyInv, Unheard
  <2> QED BY <2>1, UnheardTask, UnheardEnvironment DEF Next
<1>3. KeyInv => outcome \in {"running", "BleakError"}
  BY DEF KeyInv
<1> QED BY <1>1, <1>2, <1>3, InitInv, NextInv, PTL DEF Spec

=============================================================================
