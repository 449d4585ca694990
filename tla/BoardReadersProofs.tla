-------------------------- MODULE BoardReadersProofs --------------------------
(***************************************************************************)
(* Proofs about BoardReaders, for any number of boards, coordinators and   *)
(* watches and whatever the boards advertise.  A reader overtakes a        *)
(* waiting one at most once because the lock's queue has each reader once  *)
(* and those before it have not begun an attempt since it joined.          *)
(***************************************************************************)
EXTENDS BoardReaders, TLAPS

InSession(r) == pc[r] \in {"queued", "connecting", "handshake", "settle"}

\* A session under way is for some board, and not stopped; it has attempts left
\* and no datapoint until paired, and then only its own board's.
Sessions ==
  \A r \in Readers :
    /\ InSession(r) => target[r] \in Boards /\ ~stopped[r]
    /\ InSession(r) /\ pc[r] # "settle" => attempts[r] > 0 /\ store[r] = None
    /\ pc[r] = "settle" => target[r] = Own[r] /\ store[r] \in {None, Own[r]}
    /\ pc[r] = "settle" /\ store[r] # None => reported[r]

\* A queue q of process p, its readers being at loc and overtaken as `over'
\* says: only the first may be past waiting, no reader is in it twice, and none
\* was overtaken by one that waits before it.
Fit(q, p, loc, over) ==
  /\ q \in Seq(Readers)
  /\ \A i \in 1..Len(q) : Process(q[i]) = p
  /\ \A i \in 1..Len(q) :
       loc[q[i]] = "queued" \/ (i = 1 /\ loc[q[i]] = "connecting")
  /\ \A i, j \in 1..Len(q) : q[i] = q[j] => i = j
  /\ \A i, j \in 1..Len(q) :
       i < j /\ loc[q[i]] = "queued" => over[q[j]][q[i]] = 0

In(q, r) == \E i \in 1..Len(q) : q[i] = r

Queues ==
  /\ \A p \in Processes : Fit(lockQ[p], p, pc, overtaken)
  /\ \A r \in Readers : pc[r] = "connecting" => Holds(r)
  /\ \A r \in Readers : Waiting(r) => In(lockQ[Process(r)], r)

\* Only who waits has been overtaken.
Reset == \A r, s \in Readers : ~Waiting(r) => overtaken[r][s] = 0

IInv == TypeOK /\ Sessions /\ Queues /\ Reset /\ OvertakenOnce

-----------------------------------------------------------------------------
(* Queues. *)

\* Each reader is in one process, and others of it name it alike.
LEMMA ProcessType ==
  ASSUME NEW r \in Readers
  PROVE  Process(r) \in Processes
BY DEF Process, Processes, Readers

\* The first leaves: the next may go on.
LEMMA Leaves ==
  ASSUME NEW q, NEW p, NEW loc, NEW loc2, NEW over,
         Fit(q, p, loc, over), q # <<>>,
         \A r \in Readers : r # Head(q) => loc2[r] = loc[r]
  PROVE  /\ Fit(Tail(q), p, loc2, over)
         /\ ~In(Tail(q), Head(q))
         /\ \A r : In(q, r) /\ r # Head(q) => In(Tail(q), r)
<1>1. q \in Seq(Readers) /\ Len(q) > 0 /\ Head(q) = q[1]
  BY DEF Fit
<1>2. /\ Tail(q) \in Seq(Readers) /\ Len(Tail(q)) = Len(q) - 1
      /\ \A i \in 1..Len(Tail(q)) : Tail(q)[i] = q[i + 1]
  BY <1>1
<1>3. \A i \in 1..Len(Tail(q)) : i + 1 \in 1..Len(q)
  BY <1>1, <1>2
<1>4. \A i \in 1..Len(Tail(q)) : Tail(q)[i] # Head(q)
  BY <1>1, <1>2, <1>3 DEF Fit
<1>5. \A i \in 1..Len(Tail(q)) :
        Tail(q)[i] \in Readers /\ loc2[Tail(q)[i]] = loc[q[i + 1]]
  BY <1>1, <1>2, <1>3, <1>4
<1>6. ASSUME NEW i \in 1..Len(Tail(q))
      PROVE  Process(Tail(q)[i]) = p /\ loc2[Tail(q)[i]] = "queued"
  BY <1>2, <1>3, <1>5 DEF Fit
<1>7. ASSUME NEW i \in 1..Len(Tail(q)), NEW j \in 1..Len(Tail(q))
      PROVE  /\ Tail(q)[i] = Tail(q)[j] => i = j
             /\ i < j => over[Tail(q)[j]][Tail(q)[i]] = 0
  <2>1. /\ i + 1 \in 1..Len(q) /\ j + 1 \in 1..Len(q)
        /\ Tail(q)[i] = q[i + 1] /\ Tail(q)[j] = q[j + 1]
        /\ loc[q[i + 1]] = "queued"
    BY <1>2, <1>3, <1>5, <1>6
  <2>2. q[i + 1] = q[j + 1] => i + 1 = j + 1
    BY <2>1 DEF Fit
  <2>3. i + 1 < j + 1 => over[q[j + 1]][q[i + 1]] = 0
    BY <2>1 DEF Fit
  <2> QED BY <2>1, <2>2, <2>3
<1>8. ASSUME NEW r, In(q, r), r # Head(q) PROVE In(Tail(q), r)
  <2>1. PICK i \in 1..Len(q) : q[i] = r
    BY <1>8 DEF In
  <2>2. i - 1 \in 1..Len(Tail(q)) /\ Tail(q)[i - 1] = q[i]
    BY <1>1, <1>2, <1>8, <2>1
  <2> QED BY <2>1, <2>2 DEF In
<1>9. Fit(Tail(q), p, loc2, over)
  BY <1>2, <1>6, <1>7 DEF Fit
<1> QED BY <1>4, <1>8, <1>9 DEF In

\* A reader nobody overtook yet joins at the end.
LEMMA Joins ==
  ASSUME NEW q, NEW p, NEW loc, NEW loc2, NEW over, NEW r \in Readers,
         Fit(q, p, loc, over), ~In(q, r), Process(r) = p,
         \A s \in Readers : over[r][s] = 0,
         loc2[r] = "queued",
         \A s \in Readers : s # r => loc2[s] = loc[s]
  PROVE  /\ Fit(Append(q, r), p, loc2, over)
         /\ \A s : In(q, s) \/ s = r => In(Append(q, r), s)
<1>1. q \in Seq(Readers) /\ Len(q) \in Nat
  BY DEF Fit
<1>2. /\ Append(q, r) \in Seq(Readers) /\ Len(Append(q, r)) = Len(q) + 1
      /\ Append(q, r)[Len(q) + 1] = r
      /\ \A i \in 1..Len(q) : Append(q, r)[i] = q[i]
  BY <1>1
<1>3. \A i \in 1..Len(q) : q[i] \in Readers /\ q[i] # r
  BY <1>1 DEF In
<1>4. \A i \in 1..(Len(q) + 1) : i \in 1..Len(q) \/ i = Len(q) + 1
  BY <1>1
<1>5. ASSUME NEW i \in 1..(Len(q) + 1)
      PROVE  /\ Process(Append(q, r)[i]) = p
             /\ \/ loc2[Append(q, r)[i]] = "queued"
                \/ i = 1 /\ loc2[Append(q, r)[i]] = "connecting"
  BY <1>2, <1>3, <1>4 DEF Fit
<1>6. ASSUME NEW i \in 1..(Len(q) + 1), NEW j \in 1..(Len(q) + 1)
      PROVE  /\ Append(q, r)[i] = Append(q, r)[j] => i = j
             /\ i < j /\ loc2[Append(q, r)[i]] = "queued"
                  => over[Append(q, r)[j]][Append(q, r)[i]] = 0
  <2>1. CASE i \in 1..Len(q) /\ j \in 1..Len(q)
    BY <1>2, <1>3, <2>1 DEF Fit
  <2>2. CASE i \in 1..Len(q) /\ j = Len(q) + 1
    BY <1>1, <1>2, <1>3, <2>2
  <2>3. CASE i = Len(q) + 1
    BY <1>1, <1>2, <1>3, <1>4, <2>3
  <2> QED BY <1>4, <2>1, <2>2, <2>3
<1>7. Fit(Append(q, r), p, loc2, over)
  BY <1>2, <1>5, <1>6 DEF Fit
<1>8. ASSUME NEW s, In(q, s) \/ s = r PROVE In(Append(q, r), s)
  <2>1. CASE s = r
    BY <1>1, <1>2, <2>1 DEF In
  <2>2. CASE In(q, s)
    <3>1. PICK i \in 1..Len(q) : q[i] = s
      BY <2>2 DEF In
    <3> QED BY <1>1, <1>2, <3>1 DEF In
  <2> QED BY <1>8, <2>1, <2>2
<1> QED BY <1>7, <1>8

\* A queue that r is not in does not mind where r goes.
LEMMA Elsewhere ==
  ASSUME NEW q, NEW p, NEW loc, NEW loc2, NEW over, NEW r,
         Fit(q, p, loc, over), ~In(q, r),
         \A s \in Readers : s # r => loc2[s] = loc[s]
  PROVE  Fit(q, p, loc2, over)
<1>1. \A i \in 1..Len(q) : q[i] \in Readers /\ q[i] # r
  BY DEF Fit, In
<1> QED BY <1>1 DEF Fit

\* Who is not at the lock is in no queue; who is connecting leads its own.
LEMMA Places ==
  ASSUME IInv, NEW r \in Readers
  PROVE  /\ Fit(lockQ[Process(r)], Process(r), pc, overtaken)
         /\ \A p \in Processes : p # Process(r) => ~In(lockQ[p], r)
         /\ pc[r] \notin {"queued", "connecting"} =>
              ~In(lockQ[Process(r)], r) /\ Release(r) = lockQ[Process(r)]
         /\ pc[r] = "connecting" =>
              /\ lockQ[Process(r)] # <<>> /\ Head(lockQ[Process(r)]) = r
              /\ Release(r) = Tail(lockQ[Process(r)])
<1>1. Queues /\ Process(r) \in Processes
  BY ProcessType DEF IInv
<1>2. \A p \in Processes : Fit(lockQ[p], p, pc, overtaken)
  BY <1>1 DEF Queues
<1>3. ASSUME NEW p \in Processes, p # Process(r) PROVE ~In(lockQ[p], r)
  BY <1>2, <1>3 DEF Fit, In
<1>4. ASSUME pc[r] \notin {"queued", "connecting"}
      PROVE  ~In(lockQ[Process(r)], r) /\ ~Holds(r)
  <2>1. ~In(lockQ[Process(r)], r)
    BY <1>1, <1>2, <1>4 DEF Fit, In
  <2>2. lockQ[Process(r)] \in Seq(Readers)
    BY <1>1, <1>2 DEF Fit
  <2>3. lockQ[Process(r)] # <<>> =>
          /\ 1 \in 1..Len(lockQ[Process(r)])
          /\ Head(lockQ[Process(r)]) = lockQ[Process(r)][1]
    BY <2>2
  <2> QED BY <2>1, <2>3 DEF In, Holds
<1>5. pc[r] = "connecting" => Holds(r)
  BY <1>1 DEF Queues
<1> QED BY <1>1, <1>2, <1>3, <1>4, <1>5 DEF Release, Holds

\* A reader leaves its lock, if it holds it, and may join again.
LEMMA QueueStep ==
  ASSUME IInv, NEW r \in Readers, NEW l, NEW q, Goto(r, l),
         lockQ' = [lockQ EXCEPT ![Process(r)] = q], UNCHANGED overtaken,
         pc[r] # "queued",
         \/ q = Release(r) /\ l \notin {"queued", "connecting"}
         \/ q = Append(Release(r), r) /\ l = "queued"
  PROVE  Queues'
<1> DEFINE p == Process(r)
           rest == Release(r)
<1>1. /\ p \in Processes /\ Fit(lockQ[p], p, pc, overtaken)
      /\ pc' = [pc EXCEPT ![r] = l] /\ pc \in [Readers -> Locations]
      /\ pc'[r] = l /\ \A s \in Readers : s # r => pc'[s] = pc[s]
      /\ DOMAIN lockQ = Processes
  BY Places, ProcessType DEF Goto, IInv, TypeOK
<1>2. /\ Fit(rest, p, pc', overtaken) /\ ~In(rest, r)
      /\ \A s \in Readers : s # r /\ In(lockQ[p], s) => In(rest, s)
  <2>1. CASE pc[r] = "connecting"
    <3>1. lockQ[p] # <<>> /\ Head(lockQ[p]) = r /\ rest = Tail(lockQ[p])
      BY <2>1, Places
    <3>2. \A s \in Readers : s # Head(lockQ[p]) => pc'[s] = pc[s]
      BY <1>1, <3>1
    <3>3. /\ Fit(Tail(lockQ[p]), p, pc', overtaken)
          /\ ~In(Tail(lockQ[p]), Head(lockQ[p]))
          /\ \A s : In(lockQ[p], s) /\ s # Head(lockQ[p]) => In(Tail(lockQ[p]), s)
      <4> HIDE DEF p
      <4> QED BY <1>1, <3>1, <3>2, Leaves
    <3> HIDE DEF p, rest
    <3> QED BY <3>1, <3>3
  <2>2. CASE pc[r] # "connecting"
    <3>1. ~In(lockQ[p], r) /\ rest = lockQ[p]
      BY <2>2, Places
    <3>2. Fit(rest, p, pc', overtaken)
      BY <1>1, <3>1, Elsewhere
    <3> QED BY <3>1, <3>2
  <2> QED BY <2>1, <2>2
<1>3. \A s \in Readers : overtaken[r][s] = 0
  BY DEF IInv, Reset, Waiting
<1>4. /\ Fit(q, p, pc', overtaken)
      /\ \A s \in Readers : In(rest, s) => In(q, s)
      /\ l = "queued" => In(q, r)
  <2>1. CASE q = rest /\ l # "queued"
    BY <1>2, <2>1
  <2>2. CASE q = Append(rest, r) /\ l = "queued"
    BY <1>1, <1>2, <1>3, <2>2, Joins, ZenonT(60)
  <2> QED BY <2>1, <2>2
<1>5. /\ lockQ'[p] = q /\ \A o \in Processes : o # p => lockQ'[o] = lockQ[o]
      /\ overtaken' = overtaken
  BY <1>1
<1>6. ASSUME NEW o \in Processes PROVE Fit(lockQ[o], o, pc, overtaken)'
  <2>1. CASE o = p
    <3>1. Fit(lockQ'[o], o, pc', overtaken')
      <4> HIDE DEF p
      <4> QED BY <1>4, <1>5, <2>1
    <3> QED BY <3>1
  <2>2. CASE o # p
    <3>1. Fit(lockQ[o], o, pc, overtaken) /\ ~In(lockQ[o], r)
      BY <2>2, Places DEF IInv, Queues
    <3>2. Fit(lockQ[o], o, pc', overtaken)
      BY <1>1, <3>1, Elsewhere
    <3>3. Fit(lockQ'[o], o, pc', overtaken')
      BY <1>5, <2>2, <3>2
    <3> QED BY <3>3
  <2> QED BY <2>1, <2>2
<1>7. ASSUME NEW s \in Readers, pc'[s] = "connecting" PROVE Holds(s)'
  <2>1. s # r /\ pc[s] = "connecting"
    BY <1>1, <1>7
  <2>2. /\ Process(s) \in Processes
        /\ lockQ[Process(s)] # <<>> /\ Head(lockQ[Process(s)]) = s
    BY <2>1, Places, ProcessType
  <2>3. CASE Process(s) # p
    BY <1>5, <2>2, <2>3 DEF Holds, Process
  <2>4. CASE Process(s) = p
    <3>1. pc[r] # "connecting"
      BY <2>1, <2>2, <2>4, Places
    <3>2. rest = lockQ[p]
      BY <3>1, Places
    <3>3. q \in {lockQ[p], Append(lockQ[p], r)} /\ lockQ[p] \in Seq(Readers)
      BY <1>1, <3>2 DEF Fit
    <3>4. q # <<>> /\ Head(q) = s
      BY <2>2, <2>4, <3>3
    <3> QED BY <1>5, <2>4, <3>4 DEF Holds, Process
  <2> QED BY <2>3, <2>4
<1>8. ASSUME NEW s \in Readers, pc'[s] = "queued"
      PROVE  In(lockQ[Process(s)], s)'
  <2>1. CASE s = r
    BY <1>1, <1>4, <1>5, <1>8, <2>1 DEF In, Process
  <2>2. CASE s # r
    <3>1. pc[s] = "queued" /\ Process(s) \in Processes
      BY <1>1, <1>8, <2>2, ProcessType
    <3>2. In(lockQ[Process(s)], s)
      BY <3>1 DEF IInv, Queues, Waiting
    <3>3. In(lockQ'[Process(s)], s)
      BY <1>2, <1>4, <1>5, <2>2, <3>1, <3>2
    <3> QED BY <3>3 DEF In, Process
  <2> QED BY <2>1, <2>2
<1> QED BY <1>6, <1>7, <1>8 DEF Queues, Waiting

-----------------------------------------------------------------------------
(* The readers' steps. *)

\* Who moves and did not wait has not been overtaken, and nobody else is.
LEMMA OverKept ==
  ASSUME IInv, NEW r \in Readers, NEW l, Goto(r, l), UNCHANGED overtaken,
         pc[r] # "queued"
  PROVE  Reset' /\ OvertakenOnce'
<1>1. /\ pc \in [Readers -> Locations] /\ pc' = [pc EXCEPT ![r] = l]
      /\ overtaken \in [Readers -> [Readers -> 0..Cap]]
  BY DEF IInv, TypeOK, Goto
<1>2. \A s \in Readers : s # r => (Waiting(s)' <=> Waiting(s))
  BY <1>1 DEF Waiting
<1>3. \A s \in Readers : overtaken[r][s] = 0
  BY DEF IInv, Reset, Waiting
<1> QED BY <1>1, <1>2, <1>3 DEF IInv, Reset, OvertakenOnce

\* The queue kept, and a reader moved that neither waits nor holds the lock.
LEMMA Aside ==
  ASSUME IInv, NEW r \in Readers, NEW l, Goto(r, l),
         UNCHANGED <<lockQ, overtaken>>,
         {pc[r], l} \cap {"queued", "connecting"} = {}
  PROVE  Queues' /\ Reset' /\ OvertakenOnce'
<1>1. lockQ' = [lockQ EXCEPT ![Process(r)] = Release(r)]
  <2>1. Release(r) = lockQ[Process(r)]
    BY Places
  <2> QED BY <2>1, ProcessType DEF IInv, TypeOK
<1>2. Queues'
  BY <1>1, QueueStep
<1> QED BY <1>2, OverKept

LEMMA SameQueues ==
  ASSUME Queues, UNCHANGED <<pc, lockQ, overtaken>>
  PROVE  Queues'
<1>1. \A p \in Processes : Fit(lockQ'[p], p, pc', overtaken')
  BY DEF Queues
<1>2. \A r \in Readers : Holds(r)' <=> Holds(r)
  BY DEF Holds, Process
<1>3. \A r \in Readers : In(lockQ'[Process(r)], r) <=> In(lockQ[Process(r)], r)
  OBVIOUS
<1> QED BY <1>1, <1>2, <1>3 DEF Queues, Waiting, Process

\* A new session is for the board given, and queues.
LEMMA ReadStep ==
  ASSUME IInv, NEW r \in Readers, NEW b \in Boards, Read(r, b),
         pc[r] \in {"asleep", "scanning"},
         found' \in [Readers -> Seq([board : Boards, rssi : Int])]
  PROVE  IInv'
<1>1. /\ store' = [store EXCEPT ![r] = None]
      /\ stopped' = [stopped EXCEPT ![r] = FALSE]
      /\ target' = [target EXCEPT ![r] = b]
      /\ reported' = [reported EXCEPT ![r] = FALSE]
      /\ UNCHANGED <<mac, link, overtaken>>
  BY DEF Read, NewSession
<1>2. /\ attempts' = [attempts EXCEPT ![r] = Attempts - 1]
      /\ lockQ' = [lockQ EXCEPT ![Process(r)] = Append(@, r)]
      /\ Goto(r, "queued")
  BY <1>1 DEF Read, Update, IInv, TypeOK
<1>3. TypeOK
  BY DEF IInv
<1>4. Attempts - 1 \in 1..(Attempts - 1)
  BY AttemptsAssumption
<1>5. TypeOK'
  <2>1. lockQ' \in [Processes -> Seq(Readers)]
    BY <1>2, <1>3, ProcessType DEF TypeOK
  <2>2. pc' \in [Readers -> Locations]
    BY <1>2, <1>3 DEF TypeOK, Goto, Locations
  <2>3. attempts' \in [Readers -> 0..(Attempts - 1)]
    BY <1>2, <1>3, <1>4 DEF TypeOK
  <2> QED BY <1>1, <1>3, <2>1, <2>2, <2>3 DEF TypeOK
<1>6. Sessions'
  BY <1>1, <1>2, <1>3, <1>4 DEF IInv, Sessions, InSession, Goto, TypeOK
<1>7. Queues'
  <2>1. Append(lockQ[Process(r)], r) = Append(Release(r), r)
    BY Places
  <2>2. lockQ' = [lockQ EXCEPT ![Process(r)] = Append(Release(r), r)]
    BY <1>2, <2>1
  <2> QED BY <1>1, <1>2, <2>2, QueueStep
<1>8. Reset' /\ OvertakenOnce'
  BY <1>1, <1>2, OverKept
<1> QED BY <1>5, <1>6, <1>7, <1>8 DEF IInv

\* What a scan hears are boards with their strength.
LEMMA HeardType ==
  ASSUME NEW f \in Seq([board : Boards, rssi : Int]), NEW r, NEW b \in Boards,
         NEW rssi \in Int
  PROVE  Heard(f, r, b, rssi) \in Seq([board : Boards, rssi : Int])
<1> DEFINE S == [board : Boards, rssi : Int]
           advert == [board |-> b, rssi |-> rssi]
           g == [i \in DOMAIN f |-> IF f[i].board = b THEN advert ELSE f[i]]
<1>1. advert \in S
  OBVIOUS
<1>2. DOMAIN f = 1..Len(f) /\ Len(f) \in Nat /\ \A i \in 1..Len(f) : f[i] \in S
  <2>1. f \in Seq(S)
    OBVIOUS
  <2> HIDE DEF S
  <2> QED BY <2>1
<1>3. g \in [1..Len(f) -> S]
  BY <1>1, <1>2
<1>4. g \in Seq(S)
  BY <1>2, <1>3
<1>5. Append(f, advert) \in Seq(S)
  BY <1>1
<1> QED BY <1>4, <1>5 DEF Heard

LEMMA NothingFound ==
  ASSUME TypeOK, NEW r \in Readers
  PROVE  [found EXCEPT ![r] = <<>>] \in [Readers -> Seq([board : Boards, rssi : Int])]
<1> DEFINE S == [board : Boards, rssi : Int]
<1>1. found \in [Readers -> Seq(S)]
  BY DEF TypeOK
<1> HIDE DEF S
<1>2. [found EXCEPT ![r] = <<>>] \in [Readers -> Seq(S)]
  BY <1>1
<1> QED BY <1>2 DEF S

\* A scan ends with a read or without, and changes nothing else.
LEMMA ScanSteps ==
  ASSUME IInv, NEW r \in Readers,
         \/ Poll(r) \/ Scan(r) \/ ScanEnds(r) \/ ScanTimesOut(r)
         \/ \E b \in Boards : \E rssi \in Rssi[b] : Hear(r, b, rssi)
  PROVE  IInv'
<1>1. TypeOK
  BY DEF IInv
<1>2. CASE Poll(r)
  BY <1>1, <1>2, ReadStep, ReadersAssumption DEF Poll, TypeOK
<1>3. CASE ScanEnds(r)
  <2>1. PICK b \in Boards : Read(r, b)
    BY <1>3 DEF ScanEnds
  <2>2. found' \in [Readers -> Seq([board : Boards, rssi : Int])]
    BY <1>1, <1>3, NothingFound DEF ScanEnds
  <2> QED BY <1>3, <2>1, <2>2, ReadStep DEF ScanEnds
<1>4. CASE Scan(r) \/ ScanTimesOut(r)
  <2> DEFINE l == IF Scan(r) THEN "scanning" ELSE "asleep"
  <2>1. /\ pc[r] \in {"asleep", "scanning"} /\ Goto(r, l)
        /\ UNCHANGED <<mac, target, attempts, lockQ, link, store, stopped,
                       reported, overtaken>>
        /\ found' \in {found, [found EXCEPT ![r] = <<>>]}
    BY <1>4 DEF Scan, ScanTimesOut, AfterError
  <2>2. l \in {"asleep", "scanning"}
    OBVIOUS
  <2>3. Queues' /\ Reset' /\ OvertakenOnce'
    BY <2>1, <2>2, Aside
  <2>4. TypeOK'
    <3>1. pc' \in [Readers -> Locations]
      BY <1>1, <2>1, <2>2 DEF TypeOK, Goto, Locations
    <3>2. found' \in [Readers -> Seq([board : Boards, rssi : Int])]
      BY <1>1, <2>1, NothingFound, ZenonT(60) DEF TypeOK
    <3> QED BY <1>1, <2>1, <3>1, <3>2 DEF TypeOK
  <2>5. Sessions'
    BY <1>1, <2>1, <2>2 DEF IInv, Sessions, InSession, Goto, TypeOK
  <2> QED BY <2>3, <2>4, <2>5 DEF IInv
<1>5. CASE \E b \in Boards : \E rssi \in Rssi[b] : Hear(r, b, rssi)
  <2>0. PICK b \in Boards : \E rssi \in Rssi[b] : Hear(r, b, rssi)
    BY <1>5
  <2>1. PICK rssi \in Rssi[b] : Hear(r, b, rssi)
    BY <2>0
  <2>2. rssi \in Int
    BY RssiAssumption
  <2>3. /\ found' = [found EXCEPT ![r] = Heard(found[r], r, b, rssi)]
        /\ UNCHANGED <<mac, pc, target, attempts, lockQ, link, store, stopped,
                       reported, overtaken>>
    BY <2>1 DEF Hear
  <2>4. found' \in [Readers -> Seq([board : Boards, rssi : Int])]
    BY <1>1, <2>2, <2>3, HeardType DEF TypeOK
  <2>5. TypeOK'
    BY <1>1, <2>3, <2>4 DEF TypeOK
  <2>6. Sessions'
    BY <2>3 DEF IInv, Sessions, InSession
  <2>7. Queues'
    BY <2>3, SameQueues DEF IInv
  <2>8. Reset' /\ OvertakenOnce'
    BY <2>3 DEF IInv, Reset, OvertakenOnce, Waiting
  <2> QED BY <2>5, <2>6, <2>7, <2>8 DEF IInv
<1> QED BY <1>2, <1>3, <1>4, <1>5

\* An attempt begins: those who wait behind were not overtaken by r before.
LEMMA BeginStep ==
  ASSUME IInv, NEW r \in Readers, Begin(r)
  PROVE  IInv'
<1>1. /\ TypeOK /\ pc[r] = "queued" /\ Holds(r) /\ Goto(r, "connecting")
      /\ UNCHANGED <<mac, found, target, attempts, lockQ, link, store, stopped,
                     reported>>
  BY DEF IInv, Begin, Waiting
<1>2. /\ pc' \in [Readers -> Locations] /\ pc'[r] = "connecting"
      /\ \A s \in Readers : s # r => pc'[s] = pc[s]
  BY <1>1 DEF TypeOK, Goto, Locations
<1>3. ASSUME NEW s \in Readers, NEW o \in Readers
      PROVE  overtaken'[s][o] =
               IF s = r THEN 0
               ELSE IF o = r /\ Waiting(s) /\ Process(s) = Process(r)
                       /\ overtaken[s][r] < Cap
               THEN overtaken[s][r] + 1 ELSE overtaken[s][o]
  BY DEF Begin
<1>4. overtaken' \in [Readers -> [Readers -> 0..Cap]]
  <2>1. \A s, o \in Readers : overtaken[s][o] \in 0..Cap
    BY <1>1 DEF TypeOK
  <2>2. ASSUME NEW s \in Readers, NEW o \in Readers
        PROVE  (IF s = r THEN 0
                ELSE IF o = r /\ Waiting(s) /\ Process(s) = Process(r)
                        /\ overtaken[s][r] < Cap
                THEN overtaken[s][r] + 1 ELSE overtaken[s][o]) \in 0..Cap
    BY <2>1 DEF Cap
  <2> QED BY <2>2 DEF Begin
<1>5. TypeOK'
  BY <1>1, <1>2, <1>4 DEF TypeOK
<1>6. Sessions'
  BY <1>1, <1>2 DEF IInv, Sessions, InSession
<1>7. /\ Fit(lockQ[Process(r)], Process(r), pc, overtaken)
      /\ lockQ[Process(r)] # <<>> /\ Head(lockQ[Process(r)]) = r
      /\ \A p \in Processes : p # Process(r) => ~In(lockQ[p], r)
  BY <1>1, Places DEF Holds
<1>8. ASSUME NEW p \in Processes PROVE Fit(lockQ'[p], p, pc', overtaken')
  <2> DEFINE q == lockQ[p]
  <2>1. Fit(q, p, pc, overtaken) /\ lockQ'[p] = q
    BY <1>1 DEF IInv, Queues
  <2>2. q \in Seq(Readers) /\ \A i \in 1..Len(q) : q[i] \in Readers
    BY <2>1 DEF Fit
  <2>3. \A i \in 1..Len(q) : q[i] = r => i = 1
    <3>1. CASE p = Process(r)
      <4>1. 1 \in 1..Len(q) /\ q[1] = r
        BY <1>7, <2>2, <3>1
      <4> QED BY <2>1, <4>1 DEF Fit
    <3>2. CASE p # Process(r)
      BY <1>7, <3>2 DEF In
    <3> QED BY <3>1, <3>2
  <2>4. ASSUME NEW i \in 1..Len(q)
        PROVE  /\ Process(q[i]) = p
               /\ pc'[q[i]] = "queued" \/ (i = 1 /\ pc'[q[i]] = "connecting")
    <3>1. /\ Process(q[i]) = p
          /\ pc[q[i]] = "queued" \/ (i = 1 /\ pc[q[i]] = "connecting")
      BY <2>1 DEF Fit
    <3> QED BY <1>2, <2>2, <2>3, <3>1
  <2>5. ASSUME NEW i \in 1..Len(q), NEW j \in 1..Len(q)
        PROVE  /\ q[i] = q[j] => i = j
               /\ i < j /\ pc'[q[i]] = "queued" => overtaken'[q[j]][q[i]] = 0
    <3>1. /\ q[i] = q[j] => i = j
          /\ i < j /\ pc[q[i]] = "queued" => overtaken[q[j]][q[i]] = 0
      BY <2>1 DEF Fit
    <3>2. CASE i < j /\ pc'[q[i]] = "queued"
      <4>1. q[i] # r /\ q[j] # r
        BY <1>2, <2>3, <3>2
      <4>2. pc[q[i]] = "queued" /\ overtaken'[q[j]][q[i]] = overtaken[q[j]][q[i]]
        BY <1>2, <1>3, <2>2, <3>2, <4>1
      <4> QED BY <3>1, <3>2, <4>2
    <3> QED BY <3>1, <3>2
  <2>6. Fit(q, p, pc', overtaken')
    BY <2>2, <2>1, <2>4, <2>5 DEF Fit
  <2> QED BY <2>1, <2>6
<1>9. Queues'
  <2>1. \A s \in Readers : Holds(s)' <=> Holds(s)
    BY <1>1 DEF Holds, Process
  <2>2. \A s \in Readers : pc'[s] = "connecting" => Holds(s)'
    BY <1>1, <1>2, <2>1 DEF IInv, Queues
  <2>3. \A s \in Readers : pc'[s] = "queued" => In(lockQ'[Process(s)], s)
    BY <1>1, <1>2 DEF IInv, Queues, Waiting
  <2> QED BY <1>8, <2>2, <2>3 DEF Queues, Waiting, Process
<1>10. Reset'
  BY <1>2, <1>3 DEF IInv, Reset, Waiting
<1>11. ASSUME NEW s \in Readers, NEW o \in Readers, pc'[s] = "queued"
       PROVE  overtaken'[s][o] <= 1
  <2>1. s # r /\ pc[s] = "queued" /\ overtaken[s][o] <= 1
    BY <1>2, <1>11 DEF IInv, OvertakenOnce, Waiting
  <2>2. CASE o = r /\ Process(s) = Process(r)
    <3> DEFINE q == lockQ[Process(r)]
    <3>1. PICK j \in 1..Len(q) : q[j] = s
      BY <2>1, <2>2 DEF IInv, Queues, Waiting, In
    <3>2. q \in Seq(Readers) /\ q[1] = r /\ 1 \in 1..Len(q)
      BY <1>7 DEF Fit
    <3>3. 1 < j /\ pc[q[1]] = "queued"
      BY <1>1, <2>1, <3>1, <3>2
    <3>4. overtaken[s][r] = 0
      BY <1>7, <3>1, <3>2, <3>3 DEF Fit
    <3> QED BY <1>3, <2>1, <2>2, <3>4
  <2>3. CASE ~(o = r /\ Process(s) = Process(r))
    BY <1>3, <2>1, <2>3
  <2> QED BY <2>2, <2>3
<1> QED BY <1>5, <1>6, <1>9, <1>10, <1>11 DEF IInv, OvertakenOnce, Waiting

\* A failed attempt is followed by another, or by the end of the read.
LEMMA AttemptSteps ==
  ASSUME IInv, NEW r \in Readers, ConnectFails(r) \/ HandshakeFails(r)
  PROVE  IInv'
<1> DEFINE l == IF attempts[r] = 1 THEN "asleep" ELSE "queued"
           q == IF attempts[r] = 1 THEN Release(r) ELSE Append(Release(r), r)
<1>1. /\ TypeOK /\ pc[r] \in {"connecting", "handshake"} /\ Goto(r, l)
      /\ attempts' = [attempts EXCEPT ![r] = @ - 1]
      /\ lockQ' = [lockQ EXCEPT ![Process(r)] = q]
      /\ UNCHANGED <<mac, found, target, link, store, stopped, reported,
                     overtaken>>
  BY DEF IInv, ConnectFails, HandshakeFails, NextAttempt, AfterError
<1>2. attempts[r] \in 1..(Attempts - 1) /\ l \in {"asleep", "queued"}
  <2>1. attempts[r] \in 0..(Attempts - 1)
    BY <1>1 DEF TypeOK
  <2>2. attempts[r] > 0
    BY <1>1 DEF IInv, Sessions, InSession
  <2>3. l \in {"asleep", "queued"}
    OBVIOUS
  <2> QED BY <2>1, <2>2, <2>3, AttemptsAssumption
<1>3. Queues'
  BY <1>1, QueueStep
<1>4. Reset' /\ OvertakenOnce'
  BY <1>1, OverKept
<1>5. TypeOK'
  <2>1. pc' \in [Readers -> Locations]
    BY <1>1, <1>2 DEF TypeOK, Goto, Locations
  <2>2. attempts' \in [Readers -> 0..(Attempts - 1)]
    BY <1>1, <1>2, AttemptsAssumption DEF TypeOK
  <2>3. lockQ' \in [Processes -> Seq(Readers)]
    <3>1. DOMAIN lockQ' = Processes
      BY <1>1 DEF TypeOK
    <3>2. \A p \in Processes : lockQ'[p] \in Seq(Readers)
      BY <1>3 DEF Queues, Fit
    <3>3. lockQ' = [p \in Processes |-> lockQ'[p]]
      BY <1>1, <3>1 DEF TypeOK
    <3> QED BY <3>2, <3>3
  <2> QED BY <1>1, <2>1, <2>2, <2>3 DEF TypeOK
<1>6. Sessions'
  <2>1. \A s \in Readers : s # r => pc'[s] = pc[s] /\ attempts'[s] = attempts[s]
    BY <1>1 DEF TypeOK, Goto
  <2>2. pc'[r] = l /\ attempts'[r] = attempts[r] - 1
    BY <1>1 DEF TypeOK, Goto
  <2> QED BY <1>1, <1>2, <2>1, <2>2 DEF IInv, Sessions, InSession
<1> QED BY <1>3, <1>4, <1>5, <1>6 DEF IInv

\* Connected, the reader lets go of the lock.
LEMMA ConnectsStep ==
  ASSUME IInv, NEW r \in Readers, Connects(r)
  PROVE  IInv'
<1>1. /\ TypeOK /\ pc[r] = "connecting" /\ Goto(r, "handshake")
      /\ link' = [link EXCEPT ![target[r]] = r]
      /\ lockQ' = [lockQ EXCEPT ![Process(r)] = Release(r)]
      /\ UNCHANGED <<mac, found, target, attempts, store, stopped, reported,
                     overtaken>>
  BY DEF IInv, Connects
<1>2. Queues'
  BY <1>1, QueueStep
<1>3. Reset' /\ OvertakenOnce'
  BY <1>1, OverKept
<1>4. TypeOK'
  <2>1. pc' \in [Readers -> Locations]
    BY <1>1 DEF TypeOK, Goto, Locations
  <2>2. link' \in [Boards -> Readers \cup {None}]
    BY <1>1 DEF TypeOK
  <2>3. lockQ' \in [Processes -> Seq(Readers)]
    <3>1. lockQ[Process(r)] \in Seq(Readers)
      BY <1>1, ProcessType DEF TypeOK
    <3>2. Release(r) \in Seq(Readers)
      BY <3>1 DEF Release, Holds
    <3> QED BY <1>1, <3>2 DEF TypeOK
  <2> QED BY <1>1, <2>1, <2>2, <2>3 DEF TypeOK
<1>5. Sessions'
  BY <1>1 DEF IInv, Sessions, InSession, Goto, TypeOK
<1> QED BY <1>2, <1>3, <1>4, <1>5 DEF IInv

\* Only the board whose credentials were given pairs; its reports and the end
\* of the read leave the queues alone.
LEMMA SessionSteps ==
  ASSUME IInv, NEW r \in Readers, Pairs(r) \/ Report(r) \/ Snapshot(r)
  PROVE  IInv'
<1>1. TypeOK
  BY DEF IInv
<1>2. CASE Pairs(r)
  <2>1. PICK l \in {"settle", "asleep"} : Goto(r, l)
    BY <1>2 DEF Pairs, AfterError
  <2>2. /\ pc[r] = "handshake" /\ target[r] = Own[r]
        /\ attempts' = [attempts EXCEPT ![r] = 0]
        /\ UNCHANGED <<mac, found, target, lockQ, link, store, stopped,
                       reported, overtaken>>
    BY <1>2 DEF Pairs, CredentialsFor
  <2>3. Queues' /\ Reset' /\ OvertakenOnce'
    BY <2>1, <2>2, Aside
  <2>4. TypeOK'
    <3>1. pc' \in [Readers -> Locations]
      BY <1>1, <2>1 DEF TypeOK, Goto, Locations
    <3>2. attempts' \in [Readers -> 0..(Attempts - 1)]
      BY <1>1, <2>2, AttemptsAssumption DEF TypeOK
    <3> QED BY <1>1, <2>2, <3>1, <3>2 DEF TypeOK
  <2>5. Sessions'
    BY <1>1, <2>1, <2>2 DEF IInv, Sessions, InSession, Goto, TypeOK
  <2> QED BY <2>3, <2>4, <2>5 DEF IInv
<1>3. CASE Report(r)
  <2>1. /\ pc[r] = "settle"
        /\ store' = [store EXCEPT ![r] = target[r]]
        /\ reported' = [reported EXCEPT ![r] = TRUE]
        /\ UNCHANGED <<mac, pc, found, target, attempts, lockQ, link, stopped,
                       overtaken>>
    BY <1>3 DEF Report
  <2>2. target[r] = Own[r] /\ target[r] \in Boards
    BY <2>1 DEF IInv, Sessions, InSession
  <2>3. TypeOK'
    <3>1. store' \in [Readers -> Boards \cup {None}]
      BY <1>1, <2>1, <2>2 DEF TypeOK
    <3>2. reported' \in [Readers -> BOOLEAN]
      BY <1>1, <2>1 DEF TypeOK
    <3> QED BY <1>1, <2>1, <3>1, <3>2 DEF TypeOK
  <2>4. Sessions'
    BY <1>1, <2>1, <2>2 DEF IInv, Sessions, InSession, TypeOK
  <2>5. Queues'
    BY <2>1, SameQueues DEF IInv
  <2>6. Reset' /\ OvertakenOnce'
    BY <2>1 DEF IInv, Reset, OvertakenOnce, Waiting
  <2> QED BY <2>3, <2>4, <2>5, <2>6 DEF IInv
<1>4. CASE Snapshot(r)
  <2>1. /\ pc[r] = "settle" /\ Goto(r, "asleep")
        /\ stopped' = [stopped EXCEPT ![r] = TRUE]
        /\ link' = [link EXCEPT ![target[r]] = IF @ = r THEN None ELSE @]
        /\ UNCHANGED <<mac, found, target, attempts, lockQ, store, reported,
                       overtaken>>
    BY <1>4 DEF Snapshot
  <2>2. Queues' /\ Reset' /\ OvertakenOnce'
    BY <2>1, Aside
  <2>3. TypeOK'
    <3>1. pc' \in [Readers -> Locations] /\ stopped' \in [Readers -> BOOLEAN]
      BY <1>1, <2>1 DEF TypeOK, Goto, Locations
    <3>2. link' \in [Boards -> Readers \cup {None}]
      BY <1>1, <2>1 DEF TypeOK
    <3> QED BY <1>1, <2>1, <3>1, <3>2 DEF TypeOK
  <2>4. Sessions'
    BY <1>1, <2>1 DEF IInv, Sessions, InSession, Goto, TypeOK
  <2> QED BY <2>2, <2>3, <2>4 DEF IInv
<1> QED BY <1>2, <1>3, <1>4

-----------------------------------------------------------------------------
(* The inductive invariant, and what follows from it. *)

\* Initially everyone sleeps and no lock is asked for.
LEMMA InitInv == Init => IInv
<1> SUFFICES ASSUME Init PROVE IInv
  OBVIOUS
<1>1. TypeOK
  <2>1. \A S : <<>> \in Seq(S)
    OBVIOUS
  <2>2. /\ found \in [Readers -> Seq([board : Boards, rssi : Int])]
        /\ lockQ \in [Processes -> Seq(Readers)]
    BY <2>1 DEF Init
  <2> QED BY <2>2, AttemptsAssumption DEF Init, TypeOK, Locations, Cap
<1>2. Sessions
  BY DEF Init, Sessions, InSession
<1>3. Queues
  <2>1. ASSUME NEW p \in Processes PROVE Fit(lockQ[p], p, pc, overtaken)
    <3>1. lockQ[p] = <<>> /\ Len(<<>>) = 0 /\ <<>> \in Seq(Readers)
      BY DEF Init
    <3> QED BY <3>1 DEF Fit
  <2> QED BY <2>1 DEF Init, Queues, Waiting
<1>4. Reset /\ OvertakenOnce
  BY DEF Init, Reset, OvertakenOnce, Waiting
<1> QED BY <1>1, <1>2, <1>3, <1>4 DEF IInv

\* Every step keeps the invariant.
LEMMA NextInv == IInv /\ [Next]_vars => IInv'
<1> SUFFICES ASSUME IInv, [Next]_vars PROVE IInv'
  OBVIOUS
<1>1. ASSUME NEW r \in Readers, Poll(r) \/ Scan(r) \/ Proceed(r) \/ Report(r)
      PROVE  IInv'
  BY <1>1, ScanSteps, BeginStep, ConnectsStep, AttemptSteps, SessionSteps
     DEF Proceed
<1>2. ASSUME NEW w \in Watches, NEW b \in Boards, NEW rssi \in Rssi[b],
             Hear(w, b, rssi)
      PROVE  IInv'
  BY <1>2, ScanSteps DEF Readers
<1>3. ASSUME NEW b \in Boards, LinkLost(b) PROVE IInv'
  <2>1. /\ link' = [link EXCEPT ![b] = None]
        /\ UNCHANGED <<mac, pc, found, target, attempts, lockQ, store, stopped,
                       reported, overtaken>>
    BY <1>3 DEF LinkLost
  <2>2. TypeOK'
    BY <2>1 DEF IInv, TypeOK
  <2>3. Sessions' /\ Reset' /\ OvertakenOnce'
    BY <2>1 DEF IInv, Sessions, InSession, Reset, OvertakenOnce, Waiting
  <2>4. Queues'
    BY <2>1, SameQueues DEF IInv
  <2> QED BY <2>2, <2>3, <2>4 DEF IInv
<1>4. CASE UNCHANGED vars
  <2>1. TypeOK'
    BY <1>4 DEF vars, IInv, TypeOK
  <2>2. Sessions' /\ Reset' /\ OvertakenOnce'
    BY <1>4 DEF vars, IInv, Sessions, InSession, Reset, OvertakenOnce, Waiting
  <2>3. Queues'
    BY <1>4, SameQueues DEF vars, IInv
  <2> QED BY <2>1, <2>2, <2>3 DEF IInv
<1> QED BY <1>1, <1>2, <1>3, <1>4 DEF Next

\* The invariant holds in every state.
THEOREM Invariance == Spec => []IInv
<1> QED BY InitInv, NextInv, PTL DEF Spec

\* Every variable keeps its type; the attempts never run below zero.
THEOREM TypeCorrect == Spec => []TypeOK
<1>1. IInv => TypeOK
  BY DEF IInv
<1> QED BY <1>1, Invariance, PTL

\* Whatever a scan takes for its board, a read returns its own board's data.
THEOREM OwnRead == Spec => []OwnData
<1>1. IInv => OwnData
  BY DEF IInv, Sessions, OwnData, Result
<1> QED BY <1>1, Invariance, PTL

\* No read returns what an earlier one left behind.
THEOREM FreshRead == Spec => []FreshResult
<1>1. IInv => FreshResult
  BY DEF IInv, Sessions, FreshResult, Result
<1> QED BY <1>1, Invariance, PTL

\* However many boards share the lock, nobody is overtaken twice by the same one.
THEOREM Overtaking == Spec => []OvertakenOnce
<1>1. IInv => OvertakenOnce
  BY DEF IInv
<1> QED BY <1>1, Invariance, PTL

=============================================================================
