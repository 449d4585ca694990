---------------------------- MODULE FramingProofs ----------------------------
(***************************************************************************)
(* Proofs about Framing.tla, for any way of cutting messages, any number   *)
(* of messages and of losses.  The inductive invariant says what is in the *)
(* buffer and in the air: parts of messages that are not handled yet, in   *)
(* the order they were sent; of a message that no packet was lost of, all  *)
(* of them; of a damaged one, not all.                                     *)
(***************************************************************************)
EXTENDS Framing, SequenceTheorems, TLAPS

Latest == Channel!Latest

\* The k-th packet, from 0, of message m.
Count(m) == Len(Ends[lengths[m]])
Part(m, k) == Packets(m, lengths[m])[k + 1]

\* A packet as the board sent it.
Genuine(q) ==
  q.msg \in 1..Len(lengths) /\ q.num \in 0..(Count(q.msg) - 1) /\ q = Part(q.msg, q.num)

AllGenuine ==
  /\ Latest <= Len(lengths)
  /\ \A q \in Range(buffer) \cup Range(air) : Genuine(q) /\ Latest < q.msg

\* Sent earlier: of an earlier message, or earlier in the same.
Before(a, b) == a.msg < b.msg \/ (a.msg = b.msg /\ a.num < b.num)

InOrder ==
  /\ \A i, j \in 1..Len(air) : i < j => Before(air[i], air[j])
  /\ \A a \in Range(buffer), b \in Range(air) : Before(a, b)

OneMessage == \A i \in 1..Len(buffer) : buffer[i].msg = buffer[1].msg

\* The buffer holds the first packets of a message, or a mixture that looks
\* like it, and less than the first one announced.
Partial ==
  /\ expectedNum = Len(buffer)
  /\ \A i \in 1..Len(buffer) : buffer[i].num = i - 1
  /\ buffer # <<>> =>
       /\ expectedLength = buffer[1].length /\ filled < expectedLength
       /\ OneMessage => filled = Ends[buffer[1].length][Len(buffer)]

\* Of message m the first j packets are in the buffer and the rest in the air.
Awaited(m) ==
  \E j \in 0..Count(m) :
    /\ \A k \in j..(Count(m) - 1) : Part(m, k) \in Range(air)
    /\ j > 0 => Len(buffer) = j /\ \A i \in 1..j : buffer[i].msg = m

Whole == \A m \in (Latest + 1)..Len(lengths) : m \notin damaged => Awaited(m)

Broken ==
  \A m \in damaged :
    /\ m \in 1..Len(lengths)
    /\ \E k \in 0..(Count(m) - 1) : Part(m, k) \notin Range(buffer) \cup Range(air)

\* While no packet was lost but with its link, what comes next continues the
\* buffer or starts a message.
Adjacent ==
  /\ \A i \in 1..(Len(air) - 1) :
       air[i + 1].num = 0 \/ (air[i + 1].msg = air[i].msg /\ air[i + 1].num = air[i].num + 1)
  /\ air # <<>> => \/ air[1].num = 0
                   \/ buffer # <<>> /\ air[1].msg = buffer[1].msg /\ air[1].num = Len(buffer)

Unspliced == lost = 0 => OneMessage /\ Adjacent

IInv == TypeOK /\ AllGenuine /\ InOrder /\ Partial /\ Whole /\ Broken /\ Unspliced

-----------------------------------------------------------------------------
(* Packets and sequences. *)

\* The positions where packets end grow up to the length.
LEMMA EndsType ==
  ASSUME NEW n \in Lengths
  PROVE  /\ n \in Nat /\ Ends[n] \in Seq(Nat) /\ Len(Ends[n]) \in Nat \ {0}
         /\ \A i \in 1..Len(Ends[n]) :
              /\ Ends[n][i] \in Nat \ {0} /\ Ends[n][i] <= n
              /\ Ends[n][i] = n <=> i = Len(Ends[n])
              /\ i > 1 => Ends[n][i - 1] < Ends[n][i]
<1>1. /\ n \in Nat /\ Ends[n] \in Seq(Nat) /\ Ends[n] # <<>> /\ Ends[n][Len(Ends[n])] = n
      /\ \A i \in 1..Len(Ends[n]), j \in 1..Len(Ends[n]) : i < j => Ends[n][i] < Ends[n][j]
      /\ Ends[n][1] > 0
  BY EndsAssumption DEF IsCut
<1>2. Len(Ends[n]) \in Nat \ {0}
  BY <1>1, EmptySeq
<1>3. \A i \in 1..Len(Ends[n]) : Ends[n][i] \in Nat
  BY <1>1, ElementOfSeq
<1> DEFINE e == Ends[n]
           c == Len(Ends[n])
<1>4. ASSUME NEW i \in 1..c
      PROVE  /\ e[i] \in Nat \ {0} /\ e[i] <= n
             /\ e[i] = n <=> i = c
             /\ i > 1 => e[i - 1] < e[i]
  <2>1. /\ \A k \in 1..c : e[k] \in Nat
        /\ \A k, l \in 1..c : k < l => e[k] < e[l]
        /\ e[c] = n /\ e[1] > 0 /\ c \in Nat \ {0} /\ n \in Nat
    BY <1>1, <1>2, <1>3
  <2> HIDE DEF e, c
  <2>2. i < c => e[i] < e[c]
    BY <2>1
  <2>3. i > 1 => e[1] < e[i] /\ i - 1 \in 1..c
    BY <2>1
  <2>4. e[i] \in Nat \ {0}
    BY <2>1, <2>3
  <2>5. e[i] <= n /\ (e[i] = n <=> i = c)
    BY <2>1, <2>2, <2>4
  <2>6. i > 1 => e[i - 1] < e[i]
    BY <2>1, <2>3
  <2> QED BY <2>4, <2>5, <2>6
<1> QED BY <1>1, <1>2, <1>4

\* What a packet of message m, of n bytes, is.
LEMMA PacketsType ==
  ASSUME NEW m \in 1..MaxMessages, NEW n \in Lengths
  PROVE  /\ Packets(m, n) \in Seq(Packet) /\ Len(Packets(m, n)) = Len(Ends[n])
         /\ \A k \in 0..(Len(Ends[n]) - 1) :
              LET q == Packets(m, n)[k + 1] IN
              /\ q \in Packet
              /\ q.msg = m /\ q.num = k /\ q.length = n
              /\ q.size = IF k = 0 THEN Ends[n][1] ELSE Ends[n][k + 1] - Ends[n][k]
<1>1. Len(Ends[n]) \in Nat \ {0}
  BY EndsType
<1>2. ASSUME NEW i \in 1..Len(Ends[n])
      PROVE  /\ i - 1 \in Nat
             /\ (IF i = 1 THEN Ends[n][1] ELSE Ends[n][i] - Ends[n][i - 1]) \in Nat \ {0}
  <2>1. /\ Ends[n][i] \in Nat \ {0}
        /\ i > 1 => i - 1 \in 1..Len(Ends[n]) /\ Ends[n][i - 1] < Ends[n][i]
    BY <1>1, EndsType, SMTT(30)
  <2>2. i > 1 => Ends[n][i - 1] \in Nat
    BY <2>1, EndsType
  <2> QED BY <2>1, <2>2
<1>3. \A i \in 1..Len(Ends[n]) : Packets(m, n)[i] \in Packet
  BY <1>2 DEF Packets, Packet
<1>4. Packets(m, n) \in Seq(Packet) /\ Len(Packets(m, n)) = Len(Ends[n])
  <2>1. Packets(m, n) \in [1..Len(Ends[n]) -> Packet]
    BY <1>3 DEF Packets
  <2> QED BY <1>1, <2>1
<1>5. ASSUME NEW k \in 0..(Len(Ends[n]) - 1)
      PROVE  LET q == Packets(m, n)[k + 1] IN
             /\ q \in Packet
             /\ q.msg = m /\ q.num = k /\ q.length = n
             /\ q.size = IF k = 0 THEN Ends[n][1] ELSE Ends[n][k + 1] - Ends[n][k]
  <2>1. k + 1 \in 1..Len(Ends[n]) /\ (k + 1) - 1 = k /\ (k + 1 = 1 <=> k = 0)
    BY <1>1
  <2> QED BY <2>1, <1>3 DEF Packets
<1> QED BY <1>4, <1>5

\* A sequence that is not empty and what is left without its first element.
LEMMA Taking ==
  ASSUME NEW S, NEW s \in Seq(S), s # <<>>
  PROVE  /\ Head(s) = s[1] /\ Head(s) \in S /\ Head(s) \in Range(s)
         /\ Tail(s) \in Seq(S) /\ Len(s) \in Nat \ {0} /\ Len(Tail(s)) = Len(s) - 1
         /\ \A i \in 1..Len(Tail(s)) : i + 1 \in 1..Len(s) /\ Tail(s)[i] = s[i + 1]
         /\ \A i \in 2..Len(s) : s[i] \in Range(Tail(s))
         /\ Range(Tail(s)) \subseteq Range(s)
<1>1. /\ Head(s) = s[1] /\ Head(s) \in S
      /\ Tail(s) \in Seq(S) /\ Len(s) \in Nat \ {0} /\ Len(Tail(s)) = Len(s) - 1
      /\ \A i \in 1..Len(Tail(s)) : i + 1 \in 1..Len(s) /\ Tail(s)[i] = s[i + 1]
  BY HeadTailProperties, EmptySeq
<1>2. DOMAIN s = 1..Len(s) /\ DOMAIN Tail(s) = 1..Len(Tail(s))
  BY <1>1, LenProperties
<1>3. Head(s) \in Range(s)
  BY <1>1, <1>2 DEF Range
<1>4. ASSUME NEW i \in 2..Len(s) PROVE s[i] \in Range(Tail(s))
  <2>1. i - 1 \in 1..Len(Tail(s)) /\ Tail(s)[i - 1] = s[i]
    BY <1>1
  <2> QED BY <2>1, <1>2 DEF Range
<1>5. Range(Tail(s)) \subseteq Range(s)
  BY <1>1, <1>2 DEF Range
<1> QED BY <1>1, <1>3, <1>4, <1>5

\* A longer buffer.
LEMMA Growing ==
  ASSUME NEW S, NEW s \in Seq(S), NEW e \in S
  PROVE  /\ Append(s, e) \in Seq(S) /\ Len(Append(s, e)) = Len(s) + 1 /\ Len(s) \in Nat
         /\ \A i \in 1..Len(s) : Append(s, e)[i] = s[i]
         /\ Append(s, e)[Len(s) + 1] = e
         /\ Range(Append(s, e)) = Range(s) \cup {e}
<1>1. /\ Append(s, e) \in Seq(S) /\ Len(Append(s, e)) = Len(s) + 1 /\ Len(s) \in Nat
      /\ \A i \in 1..Len(s) : Append(s, e)[i] = s[i]
      /\ Append(s, e)[Len(s) + 1] = e
  BY AppendProperties, LenProperties
<1>2. DOMAIN s = 1..Len(s) /\ DOMAIN Append(s, e) = 1..(Len(s) + 1)
  BY <1>1, LenProperties
<1>3. \A i \in 1..(Len(s) + 1) : i \in 1..Len(s) \/ i = Len(s) + 1
  BY <1>1
<1> QED BY <1>1, <1>2, <1>3 DEF Range

\* A single packet.
LEMMA Single ==
  ASSUME NEW S, NEW e \in S
  PROVE  <<e>> \in Seq(S) /\ Len(<<e>>) = 1 /\ <<e>>[1] = e /\ Range(<<e>>) = {e}
<1>1. <<e>> \in Seq(S) /\ Len(<<e>>) = 1 /\ <<e>>[1] = e
  OBVIOUS
<1>2. DOMAIN <<e>> = 1..1
  BY <1>1, LenProperties
<1> QED BY <1>1, <1>2 DEF Range

\* The elements of a sequence, and those of none.
LEMMA Elements ==
  ASSUME NEW S, NEW s \in Seq(S)
  PROVE  /\ \A i \in 1..Len(s) : s[i] \in Range(s) /\ s[i] \in S
         /\ \A e \in Range(s) : e \in S /\ \E i \in 1..Len(s) : s[i] = e
         /\ Len(s) \in Nat /\ (s = <<>> <=> Len(s) = 0)
<1>1. DOMAIN s = 1..Len(s) /\ Len(s) \in Nat
  BY LenProperties
<1>2. s = <<>> <=> Len(s) = 0
  BY EmptySeq
<1>3. \A i \in 1..Len(s) : s[i] \in S
  BY ElementOfSeq
<1> QED BY <1>1, <1>2, <1>3 DEF Range

LEMMA NoElements == Len(<<>>) = 0 /\ Range(<<>>) = {}
BY DEF Range

-----------------------------------------------------------------------------
(* Types. *)

\* The data a packet adds, with the type of what the handler computes of it.
LEMMA HandlerTypes ==
  ASSUME TypeOK, NEW p \in Packet
  PROVE  /\ Grown(p) \in Seq(Packet) /\ Announced(p) \in Nat /\ Bytes(p) \in Nat
         /\ StartOver(p) \in Nat /\ p.num \in Nat /\ p.size \in Nat \ {0}
         /\ p.msg \in 1..MaxMessages /\ p.length \in Lengths /\ p.length \in Nat
<1>1. /\ p.num \in Nat /\ p.size \in Nat \ {0}
      /\ p.msg \in 1..MaxMessages /\ p.length \in Lengths /\ p.length \in Nat
  BY EndsType DEF Packet
<1>2. Append(buffer, p) \in Seq(Packet) /\ <<p>> \in Seq(Packet)
  BY Growing, Single DEF TypeOK
<1> QED BY <1>1, <1>2 DEF Grown, Announced, Bytes, StartOver, TypeOK

LEMMA TypeStep == TypeOK /\ [Next]_vars => TypeOK'
<1> SUFFICES ASSUME TypeOK, [Next]_vars PROVE TypeOK'
  OBVIOUS
<1> USE DEF TypeOK
<1>1. ASSUME BoardSends PROVE TypeOK'
  <2>1. PICK n \in Lengths : /\ lengths' = Append(lengths, n)
                             /\ air' = air \o Packets(Len(lengths) + 1, n)
    BY <1>1 DEF BoardSends
  <2>2. Len(lengths) \in Nat /\ Len(lengths) + 1 \in 1..MaxMessages
    BY <1>1, LenProperties, BoundsAssumption DEF BoardSends
  <2>3. Packets(Len(lengths) + 1, n) \in Seq(Packet)
    BY <2>2, PacketsType
  <2>4. lengths' \in Seq(Lengths) /\ Len(lengths') = Len(lengths) + 1
    BY <2>1, AppendProperties
  <2>5. air' \in Seq(Packet)
    BY <2>1, <2>3, ConcatProperties
  <2> QED BY <1>1, <2>2, <2>4, <2>5, BoundsAssumption DEF BoardSends
<1>2. ASSUME Loses PROVE TypeOK'
  <2>1. Head(air) \in Packet /\ Tail(air) \in Seq(Packet)
    BY <1>2, Taking DEF Loses
  <2>2. Head(air).msg \in 1..MaxMessages
    BY <2>1 DEF Packet
  <2>3. lost' \in 0..MaxLost
    BY <1>2, BoundsAssumption DEF Loses
  <2>4. damaged' \subseteq 1..MaxMessages
    BY <1>2, <2>2 DEF Loses
  <2>5. UNCHANGED <<lengths, buffer, filled, expectedNum, expectedLength, handled>>
    BY <1>2 DEF Loses
  <2>6. air' \in Seq(Packet)
    BY <1>2, <2>1 DEF Loses
  <2> QED BY <2>3, <2>4, <2>5, <2>6
<1>3. ASSUME LinkDrops PROVE TypeOK'
  <2>1. \A i \in 1..Len(air) : air[i] \in Packet
    BY ElementOfSeq
  <2>2. \A i \in 1..Len(air) : air[i].msg \in 1..MaxMessages
    BY <2>1 DEF Packet
  <2> QED BY <1>3, <2>2, EmptySeq DEF LinkDrops
<1>4. ASSUME Takes PROVE TypeOK'
  <2>1. Head(air) \in Packet /\ Tail(air) \in Seq(Packet)
    BY <1>4, Taking DEF Takes
  <2> DEFINE p == Head(air)
  <2>2. /\ Grown(p) \in Seq(Packet) /\ Announced(p) \in Nat /\ Bytes(p) \in Nat
        /\ StartOver(p) \in Nat /\ p.msg \in 1..MaxMessages
    BY <2>1, HandlerTypes
  <2>3. Append(handled, p.msg) \in Seq(1..MaxMessages)
    BY <2>2, AppendProperties
  <2>4. /\ buffer' \in Seq(Packet) /\ filled' \in Nat
        /\ expectedNum' \in Nat /\ expectedLength' \in Nat
    <3>1. CASE Bytes(p) < Announced(p)
      <4>1. /\ buffer' = Grown(p) /\ filled' = Bytes(p)
            /\ expectedNum' = StartOver(p) + 1 /\ expectedLength' = Announced(p)
        BY <1>4, <3>1 DEF Takes
      <4> QED BY <4>1, <2>2
    <3>2. CASE ~(Bytes(p) < Announced(p))
      <4>1. Clean
        BY <1>4, <3>2 DEF Takes
      <4> QED BY <4>1, EmptySeq DEF Clean
    <3> QED BY <3>1, <3>2
  <2>5. handled' \in Seq(1..MaxMessages)
    BY <1>4, <2>3 DEF Takes
  <2>6. UNCHANGED <<lengths, damaged, lost>> /\ air' \in Seq(Packet)
    BY <1>4, <2>1 DEF Takes
  <2> QED BY <2>4, <2>5, <2>6
<1>5. ASSUME Rejects PROVE TypeOK'
  <2>1. Tail(air) \in Seq(Packet)
    BY <1>5, Taking DEF Rejects
  <2> QED BY <1>5, <2>1, EmptySeq DEF Rejects, Clean
<1>6. ASSUME UNCHANGED vars PROVE TypeOK'
  BY <1>6 DEF vars
<1> QED BY <1>1, <1>2, <1>3, <1>4, <1>5, <1>6 DEF Next

-----------------------------------------------------------------------------
(* What the invariant says of the next packet. *)

\* The latest message handled.
LEMMA LatestType == TypeOK => Latest \in Nat
<1> SUFFICES ASSUME TypeOK, handled # <<>> PROVE handled[Len(handled)] \in Nat
  BY DEF Latest, Channel!Latest
<1>1. Len(handled) \in 1..Len(handled) /\ handled \in Seq(1..MaxMessages)
  BY EmptySeq DEF TypeOK
<1> QED BY <1>1, ElementOfSeq, BoundsAssumption

\* The packets of a message that was sent.
LEMMA PartType ==
  ASSUME TypeOK, NEW m \in 1..Len(lengths)
  PROVE  /\ lengths[m] \in Lengths /\ m \in 1..MaxMessages /\ m \in Nat
         /\ Count(m) \in Nat \ {0} /\ Count(m) = Len(Ends[lengths[m]])
         /\ \A k \in 0..(Count(m) - 1) :
              /\ Part(m, k) \in Packet /\ Part(m, k) = Packets(m, lengths[m])[k + 1]
              /\ Part(m, k).msg = m /\ Part(m, k).num = k /\ Part(m, k).length = lengths[m]
              /\ Part(m, k).size = IF k = 0 THEN Ends[lengths[m]][1]
                                   ELSE Ends[lengths[m]][k + 1] - Ends[lengths[m]][k]
<1>1. lengths \in Seq(Lengths) /\ Len(lengths) \in Nat /\ Len(lengths) <= MaxMessages
  BY LenProperties DEF TypeOK
<1>2. lengths[m] \in Lengths
  BY <1>1, ElementOfSeq
<1>3. m \in 1..MaxMessages
  BY <1>1, BoundsAssumption
<1>4. Count(m) \in Nat \ {0}
  BY <1>2, EndsType DEF Count
<1> QED BY <1>2, <1>3, <1>4, PacketsType DEF Count, Part

\* A packet as the board sent it, field by field.
LEMMA GenuineType ==
  ASSUME TypeOK, NEW q, Genuine(q)
  PROVE  /\ q \in Packet /\ q.msg \in 1..Len(lengths) /\ q.msg \in Nat
         /\ q.num \in 0..(Count(q.msg) - 1) /\ q.num \in Nat
         /\ q = Part(q.msg, q.num) /\ q.length = lengths[q.msg]
         /\ q.size = IF q.num = 0 THEN Ends[q.length][1]
                     ELSE Ends[q.length][q.num + 1] - Ends[q.length][q.num]
<1>1. q.msg \in 1..Len(lengths) /\ q.num \in 0..(Count(q.msg) - 1) /\ q = Part(q.msg, q.num)
  BY DEF Genuine
<1>2. Part(q.msg, q.num).length = lengths[q.msg]
  BY <1>1, PartType
<1>3. q.length = lengths[q.msg]
  BY <1>1, <1>2
<1>4. q \in Packet /\ Count(q.msg) \in Nat /\ q.msg \in Nat
  BY <1>1, PartType
<1>5. Part(q.msg, q.num).size =
        IF q.num = 0 THEN Ends[lengths[q.msg]][1]
        ELSE Ends[lengths[q.msg]][q.num + 1] - Ends[lengths[q.msg]][q.num]
  BY <1>1, PartType, SMTT(30)
<1>6. q.size = Part(q.msg, q.num).size
  BY <1>1
<1> QED BY <1>1, <1>3, <1>4, <1>5, <1>6

\* The head of the air comes after the buffer and before the rest.
LEMMA HeadFirst ==
  ASSUME TypeOK, AllGenuine, InOrder, air # <<>>
  PROVE  /\ Head(air) \in Range(air) /\ Genuine(Head(air)) /\ Latest < Head(air).msg
         /\ \A b \in Range(air) : b = Head(air) \/ b \in Range(Tail(air))
         /\ \A b \in Range(Tail(air)) : b \in Range(air) /\ Before(Head(air), b)
         /\ \A a \in Range(buffer) : Before(a, Head(air))
<1>1. air \in Seq(Packet)
  BY DEF TypeOK
<1>2. /\ Head(air) = air[1] /\ Head(air) \in Range(air) /\ Len(air) \in Nat \ {0}
      /\ Tail(air) \in Seq(Packet)
      /\ \A i \in 1..Len(Tail(air)) : i + 1 \in 1..Len(air) /\ Tail(air)[i] = air[i + 1]
      /\ \A i \in 2..Len(air) : air[i] \in Range(Tail(air))
      /\ Range(Tail(air)) \subseteq Range(air)
      /\ Len(Tail(air)) = Len(air) - 1
  BY <1>1, Taking
<1>3. ASSUME NEW b \in Range(air) PROVE b = Head(air) \/ b \in Range(Tail(air))
  <2>1. PICK i \in 1..Len(air) : air[i] = b
    BY <1>1, Elements
  <2>2. i = 1 \/ i \in 2..Len(air)
    BY <1>2
  <2> QED BY <2>1, <2>2, <1>2
<1>4. ASSUME NEW b \in Range(Tail(air)) PROVE Before(Head(air), b)
  <2> DEFINE rest == Tail(air)
  <2>0. rest \in Seq(Packet)
    BY <1>2
  <2>1. PICK i \in 1..Len(rest) : rest[i] = b
    <3>1. b \in Range(rest)
      BY <1>4
    <3> HIDE DEF rest
    <3> QED BY <2>0, <3>1, Elements
  <2>2. i + 1 \in 1..Len(air) /\ b = air[i + 1] /\ 1 \in 1..Len(air) /\ 1 < i + 1
    BY <1>2, <2>1
  <2> QED BY <1>2, <2>2 DEF InOrder
<1>5. \A a \in Range(buffer) : Before(a, Head(air))
  BY <1>2 DEF InOrder
<1>6. Genuine(Head(air)) /\ Latest < Head(air).msg
  BY <1>2 DEF AllGenuine
<1> QED BY <1>2, <1>3, <1>4, <1>5, <1>6

\* The buffer never holds a whole message.
LEMMA NeverFull ==
  ASSUME IInv, NEW m \in 1..Len(lengths), Len(buffer) = Count(m),
         \A i \in 1..Len(buffer) : buffer[i].msg = m
  PROVE  FALSE
<1>1. /\ lengths[m] \in Lengths /\ Count(m) \in Nat \ {0}
      /\ Count(m) = Len(Ends[lengths[m]])
  BY PartType DEF IInv
<1>2. 1 \in 1..Len(buffer) /\ buffer # <<>> /\ buffer[1] \in Range(buffer)
  BY <1>1, Elements DEF IInv, TypeOK
<1>3. buffer[1].length = lengths[m]
  BY <1>2, GenuineType DEF IInv, AllGenuine
<1>4. OneMessage
  BY <1>2 DEF OneMessage
<1>5. /\ expectedLength = lengths[m] /\ filled < expectedLength
      /\ filled = Ends[lengths[m]][Count(m)]
  BY <1>2, <1>3, <1>4 DEF IInv, Partial
<1>6. Ends[lengths[m]][Count(m)] = lengths[m] /\ lengths[m] \in Nat
  BY <1>1, EndsType
<1> QED BY <1>5, <1>6

\* Of an undamaged message, either the head of the air is the next packet or all
\* packets are still to come.
LEMMA NextPart ==
  ASSUME IInv, air # <<>>, NEW m \in (Latest + 1)..Len(lengths), m \notin damaged
  PROVE  /\ m # Head(air).msg =>
              \A k \in 0..(Count(m) - 1) : Part(m, k) \in Range(Tail(air))
         /\ m = Head(air).msg =>
              /\ \A k \in (Head(air).num + 1)..(Count(m) - 1) : Part(m, k) \in Range(Tail(air))
              /\ Head(air).num > 0 =>
                   /\ Len(buffer) = Head(air).num
                   /\ \A i \in 1..Len(buffer) : buffer[i].msg = m
<1> DEFINE p == Head(air)
<1>1. /\ Genuine(p) /\ p \in Range(air)
      /\ \A b \in Range(air) : b = p \/ b \in Range(Tail(air))
      /\ \A b \in Range(Tail(air)) : Before(p, b)
      /\ \A a \in Range(buffer) : Before(a, p)
  BY HeadFirst DEF IInv
<1>2. p.msg \in Nat /\ p.num \in Nat
  BY <1>1, GenuineType DEF IInv
<1>3. m \in 1..Len(lengths)
  BY LatestType, Elements DEF IInv, TypeOK
<1>4. /\ Count(m) \in Nat \ {0} /\ m \in Nat
      /\ \A k \in 0..(Count(m) - 1) : Part(m, k).msg = m /\ Part(m, k).num = k
  BY <1>3, PartType DEF IInv
<1>5. PICK j \in 0..Count(m) :
        /\ \A k \in j..(Count(m) - 1) : Part(m, k) \in Range(air)
        /\ j > 0 => Len(buffer) = j /\ \A i \in 1..j : buffer[i].msg = m
  BY DEF IInv, Whole, Awaited
<1>6. j < Count(m)
  <2>1. CASE j = Count(m)
    BY <2>1, <1>3, <1>4, <1>5, NeverFull
  <2> QED BY <2>1, <1>4
<1>7. Part(m, j) \in Range(air) /\ Part(m, j).msg = m /\ Part(m, j).num = j /\ j \in Nat
  BY <1>4, <1>5, <1>6
<1>8. j > 0 => /\ buffer[j] \in Range(buffer) /\ buffer[j].msg = m /\ buffer[j].num = j - 1
               /\ Before(buffer[j], p)
  <2> SUFFICES ASSUME j > 0
               PROVE  /\ buffer[j] \in Range(buffer) /\ buffer[j].msg = m
                      /\ buffer[j].num = j - 1
    BY <1>1
  <2>1. j \in 1..Len(buffer) /\ buffer[j].msg = m
    BY <1>5, <1>7
  <2>2. buffer[j].num = j - 1
    BY <2>1 DEF IInv, Partial
  <2> QED BY <2>1, <2>2, Elements DEF IInv, TypeOK
<1>9. ASSUME m # p.msg, NEW k \in 0..(Count(m) - 1) PROVE Part(m, k) \in Range(Tail(air))
  <2>1. Part(m, j) # p /\ Before(p, Part(m, j))
    BY <1>1, <1>7, <1>9
  <2>2. p.msg < m
    BY <2>1, <1>2, <1>4, <1>7, <1>9 DEF Before
  <2>3. j = 0
    BY <2>2, <1>2, <1>4, <1>7, <1>8 DEF Before
  <2>4. Part(m, k) \in Range(air) /\ Part(m, k).msg = m
    BY <2>3, <1>4, <1>5
  <2> QED BY <2>4, <1>1, <1>9
<1>10. ASSUME m = p.msg PROVE p.num = j
  <2>1. CASE Part(m, j) = p
    BY <2>1, <1>7
  <2>2. CASE Part(m, j) # p
    <3>1. p.num < j
      BY <2>2, <1>1, <1>2, <1>4, <1>7, <1>10 DEF Before
    <3>2. j - 1 < p.num
      BY <3>1, <1>2, <1>4, <1>7, <1>8, <1>10 DEF Before
    <3> QED BY <3>1, <3>2, <1>2, <1>7
  <2> QED BY <2>1, <2>2
<1>11. ASSUME m = p.msg, NEW k \in (p.num + 1)..(Count(m) - 1)
       PROVE  Part(m, k) \in Range(Tail(air))
  <2>1. k \in 0..(Count(m) - 1) /\ k \in j..(Count(m) - 1) /\ k # p.num
    BY <1>2, <1>4, <1>7, <1>10, <1>11
  <2> QED BY <2>1, <1>1, <1>4, <1>5
<1> QED BY <1>5, <1>9, <1>10, <1>11

\* What an accepted packet makes of the buffer.
LEMMA GrownFacts ==
  ASSUME IInv, air # <<>>, Accepts(Head(air))
  PROVE  LET p == Head(air)
             g == Grown(p)
         IN  /\ g \in Seq(Packet) /\ Len(g) = StartOver(p) + 1 /\ Len(g) = p.num + 1
             /\ g # <<>> /\ Range(g) \subseteq Range(buffer) \cup {p}
             /\ \A i \in 1..Len(g) : g[i].num = i - 1
             /\ g[Len(g)] = p
             /\ Announced(p) = g[1].length
             /\ (\A i \in 1..Len(g) : g[i].msg = g[1].msg) => Bytes(p) = Ends[g[1].length][Len(g)]
<1> DEFINE p == Head(air)
           g == Grown(p)
<1>1. Genuine(p) /\ TypeOK
  BY HeadFirst DEF IInv
<1>2. /\ p \in Packet /\ p.num \in Nat /\ p.length = lengths[p.msg]
      /\ p.msg \in 1..Len(lengths) /\ p.num \in 0..(Count(p.msg) - 1)
      /\ p.size = IF p.num = 0 THEN Ends[p.length][1]
                  ELSE Ends[p.length][p.num + 1] - Ends[p.length][p.num]
  BY <1>1, GenuineType
<1>3. StartOver(p) = p.num
  BY DEF Accepts
<1>4. CASE p.num = 0
  <2>1. g = <<p>>
    BY <1>4 DEF Grown
  <2>2. g \in Seq(Packet) /\ Len(g) = 1 /\ g[1] = p /\ Range(g) = {p}
    BY <2>1, <1>2, Single, ZenonT(60)
  <2>3. Announced(p) = p.length /\ Bytes(p) = p.size
    BY <1>4 DEF Announced, Bytes
  <2>4. g # <<>>
    BY <2>2, EmptySeq
  <2>5. \A i \in 1..Len(g) : i = 1
    <3>1. Len(g) = 1
      BY <2>2
    <3> HIDE DEF g
    <3> QED BY <3>1
  <2> QED BY <1>2, <1>3, <1>4, <2>2, <2>3, <2>4, <2>5
<1>5. CASE p.num # 0
  <2>1. p.num = expectedNum /\ expectedNum = Len(buffer) /\ buffer \in Seq(Packet)
    BY <1>1, <1>3, <1>5 DEF StartOver, IInv, Partial, TypeOK
  <2>2. /\ g \in Seq(Packet) /\ Len(g) = Len(buffer) + 1 /\ Len(buffer) \in Nat
        /\ \A i \in 1..Len(buffer) : g[i] = buffer[i]
        /\ g[Len(buffer) + 1] = p /\ Range(g) = Range(buffer) \cup {p}
    BY <1>2, <1>5, <2>1, Growing DEF Grown
  <2>3. buffer # <<>> /\ 1 \in 1..Len(buffer) /\ g[1] = buffer[1] /\ buffer[1] \in Range(buffer)
    BY <1>2, <1>5, <2>1, <2>2, Elements
  <2>4. Announced(p) = g[1].length /\ Bytes(p) = filled + p.size
    BY <1>5, <2>3 DEF Announced, Bytes, IInv, Partial
  <2>5. \A i \in 1..Len(g) : g[i].num = i - 1
    <3>1. \A i \in 1..Len(buffer) : buffer[i].num = i - 1
      BY DEF IInv, Partial
    <3>2. \A i \in 1..Len(g) : i \in 1..Len(buffer) \/ i = Len(buffer) + 1
      BY <2>2
    <3> QED BY <3>1, <3>2, <1>2, <2>1, <2>2
  <2>6. ASSUME \A i \in 1..Len(g) : g[i].msg = g[1].msg
        PROVE  Bytes(p) = Ends[g[1].length][Len(g)]
    <3>1. OneMessage /\ p.msg = buffer[1].msg
      <4>1. \A i \in 1..Len(buffer) : i \in 1..Len(g)
        BY <2>2
      <4>2. Len(buffer) + 1 \in 1..Len(g)
        BY <2>2
      <4> QED BY <4>1, <4>2, <2>2, <2>3, <2>6 DEF OneMessage
    <3>2. Genuine(buffer[1])
      BY <2>3 DEF IInv, AllGenuine
    <3>3. buffer[1].length = p.length
      BY <3>1, <3>2, <1>1, <1>2, GenuineType
    <3>4. filled = Ends[p.length][p.num]
      BY <3>1, <3>3, <2>1, <2>3 DEF IInv, Partial
    <3>5. /\ p.length \in Lengths /\ p.num \in 1..Len(Ends[p.length])
          /\ p.num + 1 \in 1..Len(Ends[p.length])
      BY <1>1, <1>2, <1>5, PartType, SMTT(30)
    <3>6. Ends[p.length][p.num] \in Nat /\ Ends[p.length][p.num + 1] \in Nat
      BY <3>5, EndsType
    <3>7. filled + p.size = Ends[p.length][p.num + 1]
      BY <3>4, <3>6, <1>2, <1>5
    <3> QED BY <3>3, <3>7, <2>1, <2>2, <2>3, <2>4
  <2>7. g # <<>>
    BY <2>2, EmptySeq
  <2> QED BY <1>2, <1>3, <2>1, <2>2, <2>4, <2>5, <2>6, <2>7
<1> QED BY <1>4, <1>5

\* A packet that continues the buffer, or starts a message, is accepted; if it
\* is the last one the message is whole, else it is not long enough.
LEMMA Continues ==
  ASSUME IInv, air # <<>>,
         Head(air).num > 0 =>
           /\ Len(buffer) = Head(air).num
           /\ \A i \in 1..Len(buffer) : buffer[i].msg = Head(air).msg
  PROVE  LET p == Head(air)
             g == Grown(p)
         IN  /\ Accepts(p) /\ \A i \in 1..Len(g) : g[i].msg = p.msg
             /\ Bytes(p) \in Nat /\ Announced(p) \in Nat /\ Bytes(p) <= Announced(p)
             /\ Bytes(p) = Announced(p) => p.num = Count(p.msg) - 1 /\ Intact(g)
<1> DEFINE p == Head(air)
           g == Grown(p)
<1>1. Genuine(p) /\ TypeOK
  BY HeadFirst DEF IInv
<1>2. /\ p \in Packet /\ p.num \in Nat /\ p.length = lengths[p.msg]
      /\ p.msg \in 1..Len(lengths) /\ p.num \in 0..(Count(p.msg) - 1)
  BY <1>1, GenuineType
<1>3. Accepts(p)
  <2>1. expectedNum = Len(buffer) /\ expectedNum \in Nat
    BY <1>1 DEF IInv, Partial, TypeOK
  <2> QED BY <1>2, <2>1 DEF Accepts, StartOver
<1>4. /\ g \in Seq(Packet) /\ Len(g) = p.num + 1 /\ g # <<>>
      /\ Range(g) \subseteq Range(buffer) \cup {p}
      /\ \A i \in 1..Len(g) : g[i].num = i - 1
      /\ g[Len(g)] = p /\ Announced(p) = g[1].length
      /\ (\A i \in 1..Len(g) : g[i].msg = g[1].msg) => Bytes(p) = Ends[g[1].length][Len(g)]
  BY <1>3, GrownFacts
<1>5. Bytes(p) \in Nat /\ Announced(p) \in Nat
  BY <1>1, <1>2, HandlerTypes
<1> HIDE DEF g
<1>6. ASSUME NEW i \in 1..Len(g) PROVE g[i].msg = p.msg /\ Genuine(g[i])
  <2>1. g[i] \in Range(g)
    BY <1>4, Elements
  <2>2. CASE p.num = 0
    BY <2>2, <1>1, <1>2, <1>4
  <2>3. CASE p.num > 0
    <3>1. \A q \in Range(buffer) : q.msg = p.msg
      <4>1. buffer \in Seq(Packet)
        BY <1>1 DEF TypeOK
      <4> QED BY <4>1, <2>3, Elements
    <3>2. \A q \in Range(buffer) : Genuine(q)
      BY DEF IInv, AllGenuine
    <3> QED BY <2>1, <3>1, <3>2, <1>1, <1>4
  <2> QED BY <2>2, <2>3, <1>2
<1>7. 1 \in 1..Len(g) /\ Len(g) \in Nat
  BY <1>2, <1>4
<1>8. g[1].msg = p.msg /\ g[1].length = lengths[p.msg]
  BY <1>1, <1>6, <1>7, GenuineType
<1>9. Announced(p) = lengths[p.msg] /\ Bytes(p) = Ends[lengths[p.msg]][p.num + 1]
  BY <1>4, <1>6, <1>8
<1>10. /\ lengths[p.msg] \in Lengths /\ Count(p.msg) = Len(Ends[lengths[p.msg]])
       /\ Count(p.msg) \in Nat \ {0} /\ p.msg \in 1..MaxMessages
  BY <1>1, <1>2, PartType
<1>11. /\ Bytes(p) <= Announced(p)
       /\ Bytes(p) = Announced(p) => p.num = Count(p.msg) - 1
  <2>1. p.num + 1 \in 1..Len(Ends[lengths[p.msg]])
    BY <1>2, <1>10
  <2>2. /\ Ends[lengths[p.msg]][p.num + 1] <= lengths[p.msg]
        /\ Ends[lengths[p.msg]][p.num + 1] = lengths[p.msg]
             <=> p.num + 1 = Len(Ends[lengths[p.msg]])
    BY <2>1, <1>10, EndsType
  <2> QED BY <2>2, <1>2, <1>9, <1>10
<1>12. ASSUME p.num = Count(p.msg) - 1 PROVE Intact(g)
  <2> DEFINE whole == Packets(p.msg, lengths[p.msg])
  <2>1. whole \in Seq(Packet) /\ Len(whole) = Len(g)
    BY <1>2, <1>4, <1>10, <1>12, PacketsType
  <2>2. ASSUME NEW i \in 1..Len(g) PROVE g[i] = whole[i]
    <3>1. g[i] = Part(p.msg, i - 1)
      BY <1>1, <1>4, <1>6, GenuineType
    <3>2. (i - 1) + 1 = i
      BY <1>7
    <3> QED BY <3>1, <3>2 DEF Part
  <2> HIDE DEF whole
  <2>3. g = whole
    BY <2>1, <2>2, <1>4, SeqEqual
  <2> QED BY <2>3, <1>8 DEF whole, Intact
<1> QED BY <1>3, <1>5, <1>6, <1>11, <1>12 DEF g

\* A message found intact: it is whole, and the next one that is.
LEMMA IntactIsNext ==
  ASSUME IInv, air # <<>>, Accepts(Head(air)), Intact(Grown(Head(air)))
  PROVE  LET m == Head(air).msg IN
         /\ m \in (Latest + 1)..Len(lengths) /\ m \notin damaged
         /\ \A n \in (Latest + 1)..(m - 1) : n \in damaged
         /\ \A b \in Range(Tail(air)) : m < b.msg
<1> DEFINE p == Head(air)
           g == Grown(p)
           m == p.msg
<1>1. /\ Genuine(p) /\ Latest < p.msg /\ TypeOK
      /\ \A b \in Range(Tail(air)) : b \in Range(air) /\ Before(p, b)
  BY HeadFirst DEF IInv
<1>2. /\ g \in Seq(Packet) /\ g # <<>> /\ Range(g) \subseteq Range(buffer) \cup {p}
      /\ g[Len(g)] = p /\ Len(g) = p.num + 1
  BY GrownFacts
<1>3. g = Packets(g[1].msg, g[1].length)
  BY DEF Intact
<1> HIDE DEF g
<1>4. 1 \in 1..Len(g) /\ g[1] \in Range(g) /\ Len(g) \in Nat
  BY <1>2, Elements
<1>5. Genuine(g[1])
  BY <1>1, <1>2, <1>4 DEF IInv, AllGenuine
<1> DEFINE n == g[1].msg
<1>6. n \in 1..Len(lengths) /\ g[1].length = lengths[n]
  BY <1>1, <1>5, GenuineType
<1>7. /\ Len(g) = Count(n) /\ Count(n) \in Nat \ {0}
      /\ \A k \in 0..(Count(n) - 1) : g[k + 1] = Part(n, k) /\ Part(n, k).msg = n
                                      /\ Part(n, k).num = k
  <2>1. Len(Packets(n, lengths[n])) = Count(n) /\ Count(n) \in Nat \ {0}
    BY <1>1, <1>6, PartType, PacketsType
  <2>2. \A k \in 0..(Count(n) - 1) : Part(n, k).msg = n /\ Part(n, k).num = k
    BY <1>1, <1>6, PartType
  <2> QED BY <2>1, <2>2, <1>3, <1>6 DEF Part
<1>8. m = n /\ p.num = Count(n) - 1
  <2>1. Count(n) - 1 \in 0..(Count(n) - 1) /\ (Count(n) - 1) + 1 = Len(g)
    BY <1>7
  <2> QED BY <2>1, <1>2, <1>7
<1>9. m \in 1..Len(lengths) /\ m \in (Latest + 1)..Len(lengths) /\ m \in Nat /\ Latest \in Nat
  <2>1. Latest \in Nat /\ m \in Nat /\ m \in 1..Len(lengths)
    BY <1>1, GenuineType, LatestType
  <2> QED BY <2>1, <1>1
<1>10. m \notin damaged
  <2> SUFFICES ASSUME m \in damaged PROVE FALSE
    OBVIOUS
  <2>1. PICK k \in 0..(Count(m) - 1) : Part(m, k) \notin Range(buffer) \cup Range(air)
    BY DEF IInv, Broken
  <2>2. g[k + 1] = Part(m, k) /\ k + 1 \in 1..Len(g)
    BY <2>1, <1>7, <1>8
  <2>3. g[k + 1] \in Range(g)
    BY <2>2, <1>2, Elements
  <2>4. p \in Range(air)
    BY HeadFirst DEF IInv
  <2> QED BY <2>1, <2>2, <2>3, <2>4, <1>2
<1>11. ASSUME NEW l \in (Latest + 1)..(m - 1), l \notin damaged PROVE FALSE
  <2>1. l \in (Latest + 1)..Len(lengths) /\ l # m /\ l < m /\ l \in 1..Len(lengths) /\ l \in Nat
    BY <1>9
  <2>2. 0 \in 0..(Count(l) - 1) /\ Part(l, 0).msg = l
    BY <2>1, <1>1, PartType
  <2>3. Part(l, 0) \in Range(Tail(air))
    BY <2>1, <2>2, <1>11, NextPart
  <2> QED BY <2>1, <2>2, <2>3, <1>1, <1>9 DEF Before
<1>12. ASSUME NEW b \in Range(Tail(air)) PROVE m < b.msg
  <2>1. Genuine(b) /\ Before(p, b)
    BY <1>1 DEF IInv, AllGenuine
  <2>2. b.msg \in Nat /\ b.num \in 0..(Count(b.msg) - 1)
    BY <2>1, <1>1, GenuineType
  <2> QED BY <2>1, <2>2, <1>7, <1>8, <1>9 DEF Before
<1> QED BY <1>9, <1>10, <1>11, <1>12

-----------------------------------------------------------------------------
(* The steps. *)

\* Sent messages stay what they are.
LEMMA SameParts ==
  ASSUME UNCHANGED lengths
  PROVE  \A m : /\ Count(m)' = Count(m) /\ \A k : Part(m, k)' = Part(m, k)
                /\ Genuine(m)' <=> Genuine(m)
<1>1. \A m : Count(m)' = Count(m) /\ \A k : Part(m, k)' = Part(m, k)
  BY DEF Count, Part, Packets
<1> QED BY <1>1 DEF Genuine

LEMMA SameLatest == UNCHANGED handled => Latest' = Latest
BY DEF Latest, Channel!Latest

LEMMA NewLatest ==
  ASSUME TypeOK, NEW m \in 1..MaxMessages, handled' = Append(handled, m)
  PROVE  Latest' = m
<1>1. Len(handled') = Len(handled) + 1 /\ handled'[Len(handled) + 1] = m /\ Len(handled) \in Nat
  BY AppendProperties, LenProperties DEF TypeOK
<1>2. handled' # <<>>
  BY <1>1, NoElements
<1> QED BY <1>1, <1>2 DEF Latest, Channel!Latest

\* What is left of the air is in order, after the buffer and what was taken.
LEMMA TailInOrder ==
  ASSUME TypeOK, AllGenuine, InOrder, air # <<>>
  PROVE  /\ \A i, j \in 1..Len(Tail(air)) : i < j => Before(Tail(air)[i], Tail(air)[j])
         /\ \A a \in Range(buffer) \cup {Head(air)}, b \in Range(Tail(air)) : Before(a, b)
<1>1. \A i \in 1..Len(Tail(air)) : i + 1 \in 1..Len(air) /\ Tail(air)[i] = air[i + 1]
  BY Taking DEF TypeOK
<1>2. ASSUME NEW i \in 1..Len(Tail(air)), NEW j \in 1..Len(Tail(air)), i < j
      PROVE  Before(Tail(air)[i], Tail(air)[j])
  <2>1. i + 1 < j + 1 /\ i + 1 \in 1..Len(air) /\ j + 1 \in 1..Len(air)
    BY <1>1, <1>2
  <2> QED BY <1>1, <2>1 DEF InOrder
<1> QED BY <1>2, HeadFirst DEF InOrder

\* A packet is not sent before itself.
LEMMA Irreflexive == ASSUME TypeOK, NEW q, Genuine(q) PROVE ~Before(q, q)
BY GenuineType DEF Before

\* A damaged message stays incomplete while nothing is added.
LEMMA BrokenStays ==
  ASSUME IInv, UNCHANGED <<lengths, damaged>>,
         (Range(buffer) \cup Range(air))' \subseteq Range(buffer) \cup Range(air)
  PROVE  Broken'
<1>1. \A m : Count(m)' = Count(m) /\ \A k : Part(m, k)' = Part(m, k)
  BY SameParts
<1> QED BY <1>1 DEF IInv, Broken

\* The board cuts a new message: its packets come last.
LEMMA BoardSendsInv == IInv /\ BoardSends => IInv'
<1> SUFFICES ASSUME IInv, BoardSends PROVE IInv'
  OBVIOUS
<1>1. TypeOK' /\ TypeOK
  BY TypeStep DEF IInv, Next
<1>2. /\ UNCHANGED <<buffer, filled, expectedNum, expectedLength, handled, damaged, lost>>
      /\ Len(lengths) < MaxMessages
  BY DEF BoardSends
<1>0. PICK M \in Nat : M = Len(lengths) + 1
  BY <1>1, LenProperties DEF TypeOK
<1>3. PICK n \in Lengths : lengths' = Append(lengths, n) /\ air' = air \o Packets(M, n)
  BY <1>0 DEF BoardSends
<1> DEFINE new == Packets(M, n)
<1>4. /\ Len(lengths) \in Nat /\ M = Len(lengths) + 1 /\ Len(lengths') = M /\ lengths'[M] = n
      /\ \A m \in 1..Len(lengths) : lengths'[m] = lengths[m]
  BY <1>0, <1>1, <1>3, AppendProperties, LenProperties DEF TypeOK
<1>5. M \in 1..MaxMessages
  BY <1>2, <1>4, BoundsAssumption
<1>6. /\ new \in Seq(Packet) /\ Len(new) = Len(Ends[n]) /\ Len(new) \in Nat \ {0}
      /\ \A k \in 0..(Len(new) - 1) : new[k + 1].msg = M /\ new[k + 1].num = k
  BY <1>5, PacketsType, EndsType
<1>7. /\ \A m \in 1..Len(lengths) : /\ Count(m)' = Count(m)
                                    /\ \A k : Part(m, k)' = Part(m, k)
      /\ Count(M)' = Len(new) /\ \A k : Part(M, k)' = new[k + 1]
  BY <1>4, <1>6 DEF Count, Part
<1>8. /\ Len(air') = Len(air) + Len(new) /\ Len(air) \in Nat
      /\ \A i \in 1..Len(air') : air'[i] = IF i <= Len(air) THEN air[i] ELSE new[i - Len(air)]
  <2>1. air \in Seq(Packet)
    BY <1>1 DEF TypeOK
  <2>2. air' = air \o new /\ new \in Seq(Packet)
    BY <1>3, <1>6
  <2> HIDE DEF new
  <2> QED BY <2>1, <2>2, ConcatProperties, LenProperties
<1>9. Range(air') = Range(air) \cup Range(new)
  <2>1. air \in Seq(Packet)
    BY <1>1 DEF TypeOK
  <2> QED BY <1>3, <1>6, <2>1, RangeConcatenation
<1>10. Latest' = Latest /\ Latest \in Nat
  BY <1>1, <1>2, SameLatest, LatestType
<1>11. ASSUME NEW q \in Range(new)
       PROVE  /\ q.msg = M /\ q.num \in 0..(Len(new) - 1) /\ q = new[q.num + 1]
  <2>1. PICK i \in 1..Len(new) : new[i] = q
    BY <1>6, Elements
  <2>2. i - 1 \in 0..(Len(new) - 1) /\ (i - 1) + 1 = i
    BY <1>6
  <2> HIDE DEF new
  <2> QED BY <2>1, <2>2, <1>6
<1>12. \A q \in Range(buffer) \cup Range(air) :
         /\ q.msg \in 1..Len(lengths) /\ Genuine(q) /\ Latest < q.msg
  BY <1>1, GenuineType DEF IInv, AllGenuine
<1>13. AllGenuine'
  <2>1. ASSUME NEW q \in Range(buffer) \cup Range(air) PROVE Genuine(q)' /\ Latest' < q.msg
    <3>1. q.msg \in 1..Len(lengths') /\ Count(q.msg)' = Count(q.msg)
      BY <1>4, <1>7, <1>12
    <3> QED BY <3>1, <1>7, <1>10, <1>12 DEF Genuine
  <2>2. ASSUME NEW q \in Range(new) PROVE Genuine(q)' /\ Latest' < q.msg
    <3>1. q.msg = M /\ q.num \in 0..(Len(new) - 1) /\ q = new[q.num + 1]
      BY <1>11
    <3>2. M \in 1..Len(lengths')
      BY <1>4
    <3>3. Latest <= Len(lengths)
      BY DEF IInv, AllGenuine
    <3> QED BY <3>1, <3>2, <3>3, <1>4, <1>7, <1>10 DEF Genuine
  <2>3. Latest' <= Len(lengths')
    BY <1>4, <1>10 DEF IInv, AllGenuine
  <2> QED BY <2>1, <2>2, <2>3, <1>2, <1>9 DEF AllGenuine
<1>14. InOrder'
  <2>1. ASSUME NEW i \in 1..Len(air'), NEW j \in 1..Len(air'), i < j
        PROVE  Before(air'[i], air'[j])
    <3>1. CASE j <= Len(air)
      <4>1. i \in 1..Len(air) /\ j \in 1..Len(air) /\ air'[i] = air[i] /\ air'[j] = air[j]
        BY <3>1, <2>1, <1>8
      <4> QED BY <4>1, <2>1 DEF IInv, InOrder
    <3>2. CASE i <= Len(air) /\ ~(j <= Len(air))
      <4>1. i \in 1..Len(air) /\ air'[i] = air[i] /\ air'[j] = new[j - Len(air)]
            /\ j - Len(air) \in 1..Len(new)
        BY <3>2, <2>1, <1>6, <1>8
      <4>2. air[i] \in Range(air) /\ new[j - Len(air)] \in Range(new)
        <5>1. air \in Seq(Packet)
          BY <1>1 DEF TypeOK
        <5> HIDE DEF new
        <5> QED BY <4>1, <5>1, <1>6, Elements
      <4>3. air'[i].msg \in 1..Len(lengths) /\ air'[j].msg = M
        BY <4>1, <4>2, <1>11, <1>12
      <4> QED BY <4>3, <1>4 DEF Before
    <3>3. CASE ~(i <= Len(air))
      <4> DEFINE k == i - Len(air) - 1
                 l == j - Len(air) - 1
      <4>1. /\ k \in 0..(Len(new) - 1) /\ l \in 0..(Len(new) - 1) /\ k < l
            /\ air'[i] = new[i - Len(air)] /\ air'[j] = new[j - Len(air)]
            /\ k + 1 = i - Len(air) /\ l + 1 = j - Len(air)
        BY <3>3, <2>1, <1>6, <1>8, SMTT(30)
      <4>2. /\ new[k + 1].msg = M /\ new[k + 1].num = k
            /\ new[l + 1].msg = M /\ new[l + 1].num = l
        BY <4>1, <1>6
      <4>3. /\ air'[i].msg = M /\ air'[i].num = k
            /\ air'[j].msg = M /\ air'[j].num = l
        BY <4>1, <4>2
      <4> QED BY <4>1, <4>3 DEF Before
    <3> QED BY <3>1, <3>2, <3>3
  <2>2. ASSUME NEW a \in Range(buffer), NEW b \in Range(new) PROVE Before(a, b)
    <3>1. a.msg \in 1..Len(lengths) /\ b.msg = M
      BY <1>11, <1>12
    <3> QED BY <3>1, <1>4 DEF Before
  <2>3. \A a \in Range(buffer), b \in Range(air') : Before(a, b)
    BY <2>2, <1>9 DEF IInv, InOrder
  <2> QED BY <2>1, <2>3, <1>2 DEF InOrder
<1>15. Partial'
  BY <1>2 DEF IInv, Partial, OneMessage
<1>16. Whole'
  <2> SUFFICES ASSUME NEW m \in (Latest + 1)..M, m \notin damaged PROVE Awaited(m)'
    BY <1>2, <1>4, <1>10 DEF Whole
  <2>1. CASE m = M
    <3>1. \A k \in 0..(Len(new) - 1) : new[k + 1] \in Range(new)
      <4>1. \A k \in 0..(Len(new) - 1) : k + 1 \in 1..Len(new)
        BY <1>6
      <4> HIDE DEF new
      <4> QED BY <4>1, <1>6, Elements
    <3>2. Count(m)' = Len(new) /\ \A k \in 0..(Len(new) - 1) : Part(m, k)' \in Range(air')
      BY <2>1, <3>1, <1>7, <1>9
    <3>3. 0 \in 0..Len(new) /\ ~(0 > 0)
      BY <1>6
    <3> QED BY <3>2, <3>3 DEF Awaited
  <2>2. CASE m # M
    <3>1. m \in (Latest + 1)..Len(lengths) /\ m \in 1..Len(lengths)
      BY <2>2, <1>4, <1>10
    <3>2. PICK j \in 0..Count(m) :
            /\ \A k \in j..(Count(m) - 1) : Part(m, k) \in Range(air)
            /\ j > 0 => Len(buffer) = j /\ \A i \in 1..j : buffer[i].msg = m
      BY <3>1 DEF IInv, Whole, Awaited
    <3>3. /\ j \in 0..Count(m)'
          /\ \A k \in j..(Count(m)' - 1) : Part(m, k)' \in Range(air')
          /\ j > 0 => Len(buffer') = j /\ \A i \in 1..j : buffer'[i].msg = m
      BY <3>1, <3>2, <1>2, <1>7, <1>9
    <3> QED BY <3>3 DEF Awaited
  <2> QED BY <2>1, <2>2
<1>17. Broken'
  <2> SUFFICES ASSUME NEW m \in damaged
               PROVE  /\ m \in 1..Len(lengths')
                      /\ \E k \in 0..(Count(m)' - 1) :
                           Part(m, k)' \notin Range(buffer) \cup Range(air')
    BY <1>2 DEF Broken
  <2>1. m \in 1..Len(lengths)
    BY DEF IInv, Broken
  <2>2. PICK k \in 0..(Count(m) - 1) : Part(m, k) \notin Range(buffer) \cup Range(air)
    BY DEF IInv, Broken
  <2>3. Part(m, k).msg = m
    BY <2>1, <2>2, <1>1, PartType
  <2>4. Part(m, k) \notin Range(new)
    BY <2>1, <2>3, <1>4, <1>11
  <2> QED BY <2>1, <2>2, <2>4, <1>4, <1>7, <1>9
<1>18. Unspliced'
  <2> SUFFICES ASSUME lost = 0 PROVE OneMessage' /\ Adjacent'
    BY <1>2 DEF Unspliced
  <2>1. OneMessage /\ Adjacent
    BY DEF IInv, Unspliced
  <2>2. ASSUME NEW i \in 1..(Len(air') - 1)
        PROVE  \/ air'[i + 1].num = 0
               \/ air'[i + 1].msg = air'[i].msg /\ air'[i + 1].num = air'[i].num + 1
    <3>1. i \in 1..Len(air') /\ i + 1 \in 1..Len(air')
      BY <1>6, <1>8
    <3>2. CASE i < Len(air)
      <4>1. i \in 1..(Len(air) - 1) /\ air'[i] = air[i] /\ air'[i + 1] = air[i + 1]
        BY <3>1, <3>2, <1>8
      <4> QED BY <4>1, <2>1 DEF Adjacent
    <3>3. CASE i = Len(air)
      <4>1. air'[i + 1] = new[0 + 1] /\ 0 \in 0..(Len(new) - 1)
        BY <3>1, <3>3, <1>6, <1>8
      <4> QED BY <4>1, <1>6
    <3>4. CASE i > Len(air)
      <4> DEFINE k == i - Len(air) - 1
      <4>1. /\ k \in 0..(Len(new) - 1) /\ k + 1 \in 0..(Len(new) - 1)
            /\ air'[i] = new[k + 1] /\ air'[i + 1] = new[(k + 1) + 1]
        BY <3>1, <3>4, <1>6, <1>8
      <4>2. /\ new[k + 1].msg = M /\ new[k + 1].num = k
            /\ new[(k + 1) + 1].msg = M /\ new[(k + 1) + 1].num = k + 1
        BY <4>1, <1>6
      <4> QED BY <4>1, <4>2
    <3> QED BY <3>2, <3>3, <3>4, <1>8
  <2>3. \/ air'[1].num = 0
        \/ buffer # <<>> /\ air'[1].msg = buffer[1].msg /\ air'[1].num = Len(buffer)
    <3>1. 1 \in 1..Len(air')
      BY <1>6, <1>8
    <3>2. CASE air = <<>>
      <4>1. air'[1] = new[0 + 1] /\ 0 \in 0..(Len(new) - 1)
        BY <3>1, <3>2, <1>6, <1>8, NoElements
      <4> QED BY <4>1, <1>6
    <3>3. CASE air # <<>>
      <4>1. air'[1] = air[1]
        BY <3>1, <3>3, <1>1, <1>8, Elements DEF TypeOK
      <4> QED BY <4>1, <3>3, <2>1 DEF Adjacent
    <3> QED BY <3>2, <3>3
  <2> QED BY <2>1, <2>2, <2>3, <1>2 DEF OneMessage, Adjacent
<1> QED BY <1>1, <1>13, <1>14, <1>15, <1>16, <1>17, <1>18 DEF IInv

\* A packet is lost: its message stays incomplete.
LEMMA LosesInv == IInv /\ Loses => IInv'
<1> SUFFICES ASSUME IInv, Loses PROVE IInv'
  OBVIOUS
<1>1. TypeOK' /\ TypeOK
  BY TypeStep DEF IInv, Next
<1> DEFINE p == Head(air)
<1>2. /\ UNCHANGED <<lengths, buffer, filled, expectedNum, expectedLength, handled>>
      /\ air # <<>> /\ air' = Tail(air) /\ damaged' = damaged \cup {p.msg}
  BY DEF Loses
<1>3. /\ Genuine(p)
      /\ \A b \in Range(Tail(air)) : b \in Range(air) /\ Before(p, b)
      /\ \A a \in Range(buffer) : Before(a, p)
  BY <1>2, HeadFirst DEF IInv
<1>4. /\ \A m : Count(m)' = Count(m) /\ \A k : Part(m, k)' = Part(m, k)
      /\ \A q : Genuine(q)' <=> Genuine(q)
      /\ Latest' = Latest
  BY <1>2, SameParts, SameLatest
<1>5. AllGenuine'
  BY <1>2, <1>3, <1>4 DEF IInv, AllGenuine
<1>6. InOrder'
  BY <1>2, TailInOrder DEF IInv, InOrder
<1>7. Partial'
  BY <1>2 DEF IInv, Partial, OneMessage
<1>8. Whole'
  <2> SUFFICES ASSUME NEW m \in (Latest + 1)..Len(lengths), m \notin damaged, m # p.msg
               PROVE  Awaited(m)'
    BY <1>2, <1>4 DEF Whole
  <2>1. \A k \in 0..(Count(m) - 1) : Part(m, k) \in Range(Tail(air))
    BY <1>2, NextPart
  <2>2. m \in 1..Len(lengths)
    BY <1>1, LatestType, Elements, SMTT(30) DEF TypeOK
  <2>3. 0 \in 0..Count(m) /\ ~(0 > 0)
    BY <2>2, <1>1, PartType
  <2> QED BY <2>1, <2>3, <1>2, <1>4 DEF Awaited
<1>9. Broken'
  <2> SUFFICES ASSUME NEW m \in damaged \cup {p.msg}
               PROVE  /\ m \in 1..Len(lengths)
                      /\ \E k \in 0..(Count(m) - 1) :
                           Part(m, k) \notin Range(buffer) \cup Range(Tail(air))
    BY <1>2, <1>4 DEF Broken
  <2>1. CASE m \in damaged
    BY <2>1, <1>3 DEF IInv, Broken
  <2>2. CASE m = p.msg
    <3>1. p.msg \in 1..Len(lengths) /\ p.num \in 0..(Count(p.msg) - 1) /\ Part(p.msg, p.num) = p
      BY <1>1, <1>3, GenuineType
    <3>2. p \notin Range(buffer) \cup Range(Tail(air))
      BY <1>1, <1>3, Irreflexive
    <3> QED BY <2>2, <3>1, <3>2
  <2> QED BY <2>1, <2>2
<1>10. Unspliced'
  <2>1. lost' # 0
    BY <1>1 DEF Loses, TypeOK
  <2> QED BY <2>1 DEF Unspliced
<1> QED BY <1>1, <1>5, <1>6, <1>7, <1>8, <1>9, <1>10 DEF IInv

\* The link goes down: every message with a packet in flight stays incomplete,
\* and every other one that is not handled was damaged before.
LEMMA LinkDropsInv == IInv /\ LinkDrops => IInv'
<1> SUFFICES ASSUME IInv, LinkDrops PROVE IInv'
  OBVIOUS
<1>1. TypeOK' /\ TypeOK
  BY TypeStep DEF IInv, Next
<1>2. /\ UNCHANGED <<lengths, buffer, filled, expectedNum, expectedLength, handled>>
      /\ air' = <<>> /\ damaged' = damaged \cup {air[i].msg : i \in 1..Len(air)}
  BY DEF LinkDrops
<1>3. Range(air') = {} /\ Len(air') = 0
  BY <1>2, NoElements
<1>4. /\ \A m : Count(m)' = Count(m) /\ \A k : Part(m, k)' = Part(m, k)
      /\ \A q : Genuine(q)' <=> Genuine(q)
      /\ Latest' = Latest
  BY <1>2, SameParts, SameLatest
<1>5. AllGenuine'
  BY <1>2, <1>3, <1>4 DEF IInv, AllGenuine
<1>6. InOrder'
  BY <1>3 DEF InOrder
<1>7. Partial'
  BY <1>2 DEF IInv, Partial, OneMessage
<1>8. \A q \in Range(air) : q.msg \in damaged'
  BY <1>1, <1>2, Elements DEF TypeOK
<1>9. Whole'
  <2> SUFFICES ASSUME NEW m \in (Latest + 1)..Len(lengths), m \notin damaged' PROVE FALSE
    BY <1>2, <1>4 DEF Whole
  <2>1. m \notin damaged
    BY <1>2
  <2>2. PICK j \in 0..Count(m) :
          /\ \A k \in j..(Count(m) - 1) : Part(m, k) \in Range(air)
          /\ j > 0 => Len(buffer) = j /\ \A i \in 1..j : buffer[i].msg = m
    BY <2>1 DEF IInv, Whole, Awaited
  <2>3. m \in 1..Len(lengths)
    BY <1>1, LatestType, Elements, SMTT(30) DEF TypeOK
  <2>4. Count(m) \in Nat \ {0} /\ \A k \in 0..(Count(m) - 1) : Part(m, k).msg = m
    BY <2>3, <1>1, PartType
  <2>5. CASE j = Count(m)
    BY <2>2, <2>3, <2>4, <2>5, NeverFull
  <2>6. CASE j # Count(m)
    BY <2>2, <2>4, <2>6, <1>8
  <2> QED BY <2>5, <2>6
<1>10. Broken'
  <2> SUFFICES ASSUME NEW m \in damaged \cup {air[i].msg : i \in 1..Len(air)}
               PROVE  /\ m \in 1..Len(lengths)
                      /\ \E k \in 0..(Count(m) - 1) : Part(m, k) \notin Range(buffer)
    BY <1>2, <1>3, <1>4 DEF Broken
  <2>1. CASE m \in damaged
    BY <2>1 DEF IInv, Broken
  <2>2. CASE m \notin damaged
    <3>1. PICK i \in 1..Len(air) : m = air[i].msg
      BY <2>2
    <3>2. air[i] \in Range(air)
      BY <3>1, <1>1, Elements DEF TypeOK
    <3>3. Genuine(air[i]) /\ air[i] \notin Range(buffer)
      BY <3>2, <1>1, Irreflexive DEF IInv, AllGenuine, InOrder
    <3> QED BY <3>1, <3>3, <1>1, GenuineType
  <2> QED BY <2>1, <2>2
<1>11. Unspliced'
  <2>1. lost' = lost
    BY DEF LinkDrops
  <2>2. \A i \in 1..(Len(air') - 1) : FALSE
    BY <1>3
  <2> QED BY <2>1, <2>2, <1>2 DEF IInv, Unspliced, OneMessage, Adjacent
<1> QED BY <1>1, <1>5, <1>6, <1>7, <1>9, <1>10, <1>11 DEF IInv

\* The next packet continues the buffer, or starts a message, if none of its
\* message was lost.
LEMMA UndamagedContinues ==
  ASSUME IInv, air # <<>>, Head(air).msg \notin damaged, Head(air).num > 0
  PROVE  /\ Len(buffer) = Head(air).num
         /\ \A i \in 1..Len(buffer) : buffer[i].msg = Head(air).msg
<1>1. Genuine(Head(air)) /\ Latest < Head(air).msg /\ TypeOK
  BY HeadFirst DEF IInv
<1>2. Head(air).msg \in (Latest + 1)..Len(lengths)
  <2>1. Head(air).msg \in 1..Len(lengths) /\ Latest \in Nat
    BY <1>1, GenuineType, LatestType
  <2> QED BY <2>1, <1>1
<1> QED BY <1>2, NextPart

\* So it does if nothing but links was lost.
LEMMA LosslessContinues ==
  ASSUME IInv, air # <<>>, lost = 0, Head(air).num > 0
  PROVE  /\ Len(buffer) = Head(air).num
         /\ \A i \in 1..Len(buffer) : buffer[i].msg = Head(air).msg
<1>1. Head(air) = air[1] /\ OneMessage /\ Adjacent
  BY Taking DEF IInv, TypeOK, Unspliced
<1> QED BY <1>1 DEF OneMessage, Adjacent

\* A packet leaves the air and the buffer is emptied: because a message was
\* handled, or its message is damaged.
LEMMA CleanInv ==
  ASSUME IInv, TypeOK', air # <<>>, air' = Tail(air), Clean, UNCHANGED <<lengths, damaged, lost>>,
         Latest <= Latest', Latest' \in Nat, Latest' <= Len(lengths),
         \A b \in Range(Tail(air)) : Latest' < b.msg,
         Head(air).msg \in damaged \/ Head(air).msg <= Latest',
         lost = 0 => \A b \in Range(Tail(air)) :
                       b.num = 0 \/ ~(b.msg = Head(air).msg /\ b.num = Head(air).num + 1)
  PROVE  IInv'
<1> DEFINE p == Head(air)
<1>1. TypeOK /\ Latest \in Nat
  BY LatestType DEF IInv
<1>2. /\ buffer' = <<>> /\ expectedNum' = 0
      /\ Len(buffer') = 0 /\ Range(buffer') = {}
  BY NoElements DEF Clean
<1>3. /\ Genuine(p)
      /\ \A b \in Range(Tail(air)) : b \in Range(air) /\ Before(p, b)
  BY HeadFirst DEF IInv
<1>4. /\ \A m : Count(m)' = Count(m) /\ \A k : Part(m, k)' = Part(m, k)
      /\ \A q : Genuine(q)' <=> Genuine(q)
  BY SameParts
<1>5. AllGenuine'
  BY <1>2, <1>3, <1>4 DEF IInv, AllGenuine
<1>6. InOrder'
  BY <1>1, <1>2, TailInOrder DEF IInv, InOrder
<1>7. Partial'
  BY <1>2 DEF Partial
<1>8. Whole'
  <2> SUFFICES ASSUME NEW m \in (Latest' + 1)..Len(lengths), m \notin damaged
               PROVE  Awaited(m)'
    BY DEF Whole
  <2>1. m \in (Latest + 1)..Len(lengths) /\ m # p.msg
    <3>1. p.msg \in Nat
      BY <1>1, <1>3, GenuineType
    <3>2. Len(lengths) \in Nat
      BY <1>1, LenProperties DEF TypeOK
    <3>3. \A a, b, c : /\ a \in Nat /\ b \in Nat /\ c \in Nat /\ a <= b /\ m \in (b + 1)..c
                     => m \in (a + 1)..c /\ m \in Nat /\ b < m
      OBVIOUS
    <3>4. m \in (Latest + 1)..Len(lengths) /\ m \in Nat /\ Latest' < m
      BY <3>2, <3>3, <1>1
    <3>5. m # p.msg
      <4>1. SUFFICES ASSUME m = p.msg PROVE FALSE
        OBVIOUS
      <4>2. p.msg <= Latest'
        BY <4>1
      <4> QED BY <3>1, <3>4, <4>1, <4>2
    <3> QED BY <3>4, <3>5
  <2>2. \A k \in 0..(Count(m) - 1) : Part(m, k) \in Range(Tail(air))
    BY <2>1, NextPart
  <2>3. m \in 1..Len(lengths)
    BY <2>1, <1>1, Elements DEF TypeOK
  <2>4. 0 \in 0..Count(m) /\ ~(0 > 0)
    BY <2>3, <1>1, PartType
  <2> QED BY <2>2, <2>4, <1>4 DEF Awaited
<1>9. Broken'
  BY <1>2, <1>3, BrokenStays
<1>10. Unspliced'
  <2> SUFFICES ASSUME lost = 0 PROVE OneMessage' /\ Adjacent'
    BY DEF Unspliced
  <2>1. OneMessage'
    BY <1>2 DEF OneMessage
  <2>2. /\ air \in Seq(Packet) /\ Tail(air) \in Seq(Packet) /\ Len(air) \in Nat \ {0}
        /\ Len(Tail(air)) = Len(air) - 1 /\ p = air[1]
        /\ \A i \in 1..Len(Tail(air)) : i + 1 \in 1..Len(air) /\ Tail(air)[i] = air[i + 1]
        /\ \A i \in 2..Len(air) : air[i] \in Range(Tail(air))
    BY <1>1, Taking DEF TypeOK
  <2>3. \A i \in 1..(Len(air) - 1) :
          air[i + 1].num = 0 \/ (air[i + 1].msg = air[i].msg /\ air[i + 1].num = air[i].num + 1)
    BY DEF IInv, Unspliced, Adjacent
  <2>4. ASSUME NEW i \in 1..(Len(Tail(air)) - 1)
        PROVE  \/ Tail(air)[i + 1].num = 0
               \/ /\ Tail(air)[i + 1].msg = Tail(air)[i].msg
                  /\ Tail(air)[i + 1].num = Tail(air)[i].num + 1
    <3>1. /\ i + 1 \in 1..(Len(air) - 1) /\ Tail(air)[i] = air[i + 1]
          /\ Tail(air)[i + 1] = air[(i + 1) + 1]
      BY <2>2
    <3> QED BY <3>1, <2>3
  <2>5. Tail(air) # <<>> => Tail(air)[1].num = 0
    <3> SUFFICES ASSUME Tail(air) # <<>> PROVE Tail(air)[1].num = 0
      OBVIOUS
    <3>1. Len(Tail(air)) \in Nat \ {0}
      BY <2>2, EmptySeq
    <3>2. 1 \in 1..(Len(air) - 1) /\ Tail(air)[1] = air[1 + 1] /\ 1 + 1 \in 2..Len(air)
      BY <3>1, <2>2
    <3>3. air[1 + 1] \in Range(Tail(air))
      BY <3>2, <2>2
    <3> QED BY <3>2, <3>3, <2>2, <2>3
  <2> QED BY <2>1, <2>4, <2>5 DEF Adjacent
<1> QED BY <1>5, <1>6, <1>7, <1>8, <1>9, <1>10 DEF IInv

\* A missing packet: its message is damaged.
LEMMA RejectsInv == IInv /\ Rejects => IInv'
<1> SUFFICES ASSUME IInv, Rejects PROVE IInv'
  OBVIOUS
<1>1. TypeOK' /\ TypeOK
  BY TypeStep DEF IInv, Next
<1> DEFINE p == Head(air)
<1>2. /\ air # <<>> /\ ~Accepts(p) /\ Clean /\ air' = Tail(air)
      /\ UNCHANGED <<lengths, handled, damaged, lost>>
  BY DEF Rejects
<1>3. Latest' = Latest /\ Latest \in Nat /\ Latest <= Len(lengths)
  BY <1>1, <1>2, SameLatest, LatestType DEF IInv, AllGenuine
<1>4. \A b \in Range(Tail(air)) : Latest' < b.msg
  BY <1>2, <1>3, HeadFirst DEF IInv, AllGenuine
<1>5. p.msg \in damaged
  BY <1>2, UndamagedContinues, Continues
<1>6. lost # 0
  BY <1>2, LosslessContinues, Continues
<1> QED BY <1>1, <1>2, <1>3, <1>4, <1>5, <1>6, CleanInv

\* An accepted packet: it joins the buffer, completes a message, or spoils one.
LEMMA TakesInv == IInv /\ Takes => IInv'
<1> SUFFICES ASSUME IInv, Takes PROVE IInv'
  OBVIOUS
<1>1. TypeOK' /\ TypeOK
  BY TypeStep DEF IInv, Next
<1> DEFINE p == Head(air)
           g == Grown(p)
<1>2. /\ air # <<>> /\ Accepts(p) /\ air' = Tail(air) /\ UNCHANGED <<lengths, damaged, lost>>
      /\ IF Bytes(p) < Announced(p)
         THEN /\ buffer' = Grown(p) /\ filled' = Bytes(p)
              /\ expectedNum' = StartOver(p) + 1 /\ expectedLength' = Announced(p)
         ELSE Clean
      /\ handled' = IF Bytes(p) = Announced(p) /\ Intact(Grown(p))
                    THEN Append(handled, p.msg) ELSE handled
  BY DEF Takes
<1>3. /\ Genuine(p) /\ Latest < p.msg
      /\ \A b \in Range(Tail(air)) : b \in Range(air) /\ Before(p, b)
  BY <1>2, HeadFirst DEF IInv
<1>4. /\ p \in Packet /\ p.msg \in Nat /\ p.num \in 0..(Count(p.msg) - 1) /\ p.num \in Nat
      /\ p.msg \in 1..Len(lengths)
  BY <1>1, <1>3, GenuineType
<1>5. Bytes(p) \in Nat /\ Announced(p) \in Nat /\ p.msg \in 1..MaxMessages
  BY <1>1, <1>4, HandlerTypes
<1>6. Latest \in Nat /\ Latest <= Len(lengths) /\ Len(lengths) \in Nat
  BY <1>1, LatestType, LenProperties DEF IInv, AllGenuine, TypeOK
<1>7. CASE Bytes(p) < Announced(p)
  <2>1. /\ buffer' = g /\ filled' = Bytes(p)
        /\ expectedNum' = StartOver(p) + 1 /\ expectedLength' = Announced(p)
        /\ UNCHANGED handled
    BY <1>2, <1>5, <1>7
  <2>2. /\ g \in Seq(Packet) /\ Len(g) = StartOver(p) + 1 /\ Len(g) = p.num + 1 /\ g # <<>>
        /\ Range(g) \subseteq Range(buffer) \cup {p}
        /\ \A i \in 1..Len(g) : g[i].num = i - 1
        /\ Announced(p) = g[1].length
        /\ (\A i \in 1..Len(g) : g[i].msg = g[1].msg) => Bytes(p) = Ends[g[1].length][Len(g)]
    BY <1>2, GrownFacts
  <2> HIDE DEF g
  <2>3. /\ \A m : Count(m)' = Count(m) /\ \A k : Part(m, k)' = Part(m, k)
        /\ \A q : Genuine(q)' <=> Genuine(q)
        /\ Latest' = Latest
    BY <1>2, <2>1, SameParts, SameLatest
  <2>4. Range(buffer') \cup Range(air') \subseteq Range(buffer) \cup Range(air)
    BY <1>2, <1>3, <2>1, <2>2, HeadFirst DEF IInv
  <2>5. AllGenuine'
    BY <1>2, <2>3, <2>4 DEF IInv, AllGenuine
  <2>6. InOrder'
    BY <1>1, <1>2, <2>1, <2>2, TailInOrder DEF IInv, InOrder
  <2>7. Partial'
    <3>1. expectedNum' = Len(buffer') /\ \A i \in 1..Len(buffer') : buffer'[i].num = i - 1
      BY <2>1, <2>2
    <3>2. expectedLength' = buffer'[1].length /\ filled' < expectedLength'
      BY <1>7, <2>1, <2>2
    <3>3. OneMessage' => filled' = Ends[buffer'[1].length][Len(buffer')]
      BY <2>1, <2>2 DEF OneMessage
    <3> QED BY <3>1, <3>2, <3>3 DEF Partial
  <2>8. Whole'
    <3> SUFFICES ASSUME NEW m \in (Latest + 1)..Len(lengths), m \notin damaged
                 PROVE  Awaited(m)'
      BY <1>2, <2>3 DEF Whole
    <3>1. m \in 1..Len(lengths) /\ Count(m) \in Nat \ {0}
      BY <1>1, <1>6, PartType
    <3>2. CASE m # p.msg
      <4>1. \A k \in 0..(Count(m) - 1) : Part(m, k) \in Range(Tail(air))
        BY <1>2, <3>2, NextPart
      <4>2. 0 \in 0..Count(m) /\ ~(0 > 0)
        BY <3>1
      <4> QED BY <4>1, <4>2, <1>2, <2>3 DEF Awaited
    <3>3. CASE m = p.msg
      <4>1. \A k \in (p.num + 1)..(Count(m) - 1) : Part(m, k) \in Range(Tail(air))
        BY <1>2, <3>3, NextPart
      <4>2. \A i \in 1..Len(g) : g[i].msg = m
        BY <1>2, <3>3, UndamagedContinues, Continues DEF g
      <4>3. p.num + 1 \in 0..Count(m)
        BY <1>4, <3>1, <3>3
      <4>4. /\ \A k \in (p.num + 1)..(Count(m)' - 1) : Part(m, k)' \in Range(air')
            /\ Len(buffer') = p.num + 1 /\ \A i \in 1..(p.num + 1) : buffer'[i].msg = m
        BY <4>1, <4>2, <1>2, <2>1, <2>2, <2>3
      <4>5. \E j \in 0..Count(m)' :
              /\ \A k \in j..(Count(m)' - 1) : Part(m, k)' \in Range(air')
              /\ j > 0 => Len(buffer') = j /\ \A i \in 1..j : buffer'[i].msg = m
        BY <4>3, <4>4, <2>3
      <4> QED BY <4>5 DEF Awaited
    <3> QED BY <3>2, <3>3
  <2>9. Broken'
    BY <1>2, <2>4, BrokenStays
  <2>10. Unspliced'
    <3> SUFFICES ASSUME lost = 0 PROVE OneMessage' /\ Adjacent'
      BY <1>2 DEF Unspliced
    <3>1. \A i \in 1..Len(g) : g[i].msg = p.msg
      BY <1>2, LosslessContinues, Continues DEF g
    <3>2. 1 \in 1..Len(g)
      BY <1>4, <2>2
    <3>3. OneMessage'
      BY <3>1, <3>2, <2>1 DEF OneMessage
    <3>4. /\ Len(Tail(air)) = Len(air) - 1 /\ p = air[1] /\ Len(air) \in Nat \ {0}
          /\ \A i \in 1..Len(Tail(air)) : i + 1 \in 1..Len(air) /\ Tail(air)[i] = air[i + 1]
          /\ Tail(air) \in Seq(Packet)
      BY <1>1, <1>2, Taking DEF TypeOK
    <3>5. \A i \in 1..(Len(air) - 1) :
            air[i + 1].num = 0 \/ (air[i + 1].msg = air[i].msg /\ air[i + 1].num = air[i].num + 1)
      BY DEF IInv, Unspliced, Adjacent
    <3>6. ASSUME NEW i \in 1..(Len(Tail(air)) - 1)
          PROVE  \/ Tail(air)[i + 1].num = 0
                 \/ /\ Tail(air)[i + 1].msg = Tail(air)[i].msg
                    /\ Tail(air)[i + 1].num = Tail(air)[i].num + 1
      <4>1. /\ i + 1 \in 1..(Len(air) - 1) /\ Tail(air)[i] = air[i + 1]
            /\ Tail(air)[i + 1] = air[(i + 1) + 1]
        BY <3>4
      <4> QED BY <4>1, <3>5
    <3>7. ASSUME Tail(air) # <<>>
          PROVE  \/ Tail(air)[1].num = 0
                 \/ g # <<>> /\ Tail(air)[1].msg = g[1].msg /\ Tail(air)[1].num = Len(g)
      <4>1. Len(Tail(air)) \in Nat \ {0}
        BY <3>4, <3>7, EmptySeq
      <4>2. 1 \in 1..(Len(air) - 1) /\ Tail(air)[1] = air[1 + 1]
        BY <4>1, <3>4
      <4> QED BY <4>2, <3>1, <3>2, <3>4, <3>5, <2>2
    <3> QED BY <3>3, <3>6, <3>7, <1>2, <2>1 DEF Adjacent
  <2> QED BY <1>1, <2>5, <2>6, <2>7, <2>8, <2>9, <2>10 DEF IInv
<1>8. CASE Bytes(p) = Announced(p) /\ Intact(g)
  <2>1. Clean /\ handled' = Append(handled, p.msg)
    BY <1>2, <1>5, <1>8
  <2>2. Latest' = p.msg
    BY <1>1, <1>5, <2>1, NewLatest
  <2>3. \A b \in Range(Tail(air)) : p.msg < b.msg
    BY <1>2, <1>8, IntactIsNext
  <2>4. \A b \in Range(Tail(air)) : b.msg # p.msg
    BY <2>3, <1>4
  <2>5. Latest <= Latest' /\ Latest' \in Nat /\ Latest' <= Len(lengths)
    BY <1>3, <1>4, <1>6, <2>2
  <2> QED BY <1>1, <1>2, <1>4, <2>1, <2>2, <2>3, <2>4, <2>5, CleanInv
<1>9. CASE ~(Bytes(p) < Announced(p)) /\ ~(Bytes(p) = Announced(p) /\ Intact(g))
  <2>1. Clean /\ UNCHANGED handled
    BY <1>2, <1>9
  <2>2. Latest' = Latest
    BY <2>1, SameLatest
  <2>3. \A b \in Range(Tail(air)) : Latest' < b.msg
    BY <1>3, <2>2 DEF IInv, AllGenuine
  <2>4. p.msg \in damaged
    BY <1>2, <1>5, <1>9, UndamagedContinues, Continues
  <2>5. lost # 0
    BY <1>2, <1>5, <1>9, LosslessContinues, Continues
  <2> QED BY <1>1, <1>2, <1>6, <2>1, <2>2, <2>3, <2>4, <2>5, CleanInv
<1> QED BY <1>5, <1>7, <1>8, <1>9

-----------------------------------------------------------------------------
(* Theorems. *)

\* In the beginning nothing is sent, in the air or in the buffer.
LEMMA InitInv == Init => IInv
<1> SUFFICES ASSUME Init PROVE IInv
  OBVIOUS
<1>1. Len(<<>>) = 0 /\ Range(<<>>) = {}
  BY NoElements
<1>2. TypeOK
  BY <1>1, BoundsAssumption DEF Init, TypeOK
<1>3. AllGenuine /\ InOrder /\ Partial /\ Whole /\ Broken
  BY <1>1 DEF Init, AllGenuine, InOrder, Partial, Whole, Broken, Latest, Channel!Latest
<1>4. Unspliced
  BY <1>1 DEF Init, Unspliced, OneMessage, Adjacent
<1> QED BY <1>2, <1>3, <1>4 DEF IInv

LEMMA StepInv == IInv /\ [Next]_vars => IInv'
<1> SUFFICES ASSUME IInv, [Next]_vars PROVE IInv'
  OBVIOUS
<1>1. CASE UNCHANGED vars
  <2>1. Latest' = Latest
    BY <1>1, SameLatest DEF vars
  <2>2. \A m : /\ Count(m)' = Count(m) /\ \A k : Part(m, k)' = Part(m, k)
               /\ Genuine(m)' <=> Genuine(m)
    BY <1>1, SameParts DEF vars
  <2>3. TypeOK'
    BY TypeStep DEF IInv
  <2>4. AllGenuine' /\ InOrder' /\ Partial' /\ Broken' /\ Unspliced'
    BY <1>1, <2>1, <2>2
    DEF vars, IInv, AllGenuine, InOrder, Partial, Broken, Unspliced, OneMessage, Adjacent
  <2>5. Whole'
    BY <1>1, <2>1, <2>2 DEF vars, IInv, Whole, Awaited
  <2> QED BY <2>3, <2>4, <2>5 DEF IInv
<1> QED BY <1>1, BoardSendsInv, LosesInv, LinkDropsInv, TakesInv, RejectsInv DEF Next

THEOREM Invariance == Spec => []IInv
BY InitInv, StepInv, PTL DEF Spec

\* Every variable of the reassembly keeps its type (_notification_handler).
THEOREM TypeCorrect == Spec => []TypeOK
<1>1. IInv => TypeOK
  BY DEF IInv
<1> QED BY <1>1, Invariance, PTL

\* Unless a link that stays up loses packets, the buffer holds packets of one
\* message only (_input_buffer).
THEOREM Spliceless == Spec => []NeverSpliced
<1>1. IInv => NeverSpliced
  BY DEF IInv, Unspliced, OneMessage, NeverSpliced
<1> QED BY <1>1, Invariance, PTL

\* The steps of the reassembly, as the channel of messages sees them.
LEMMA StepChannels == IInv /\ [Next]_vars => [Channel!Next]_(Channel!vars)
<1> SUFFICES ASSUME IInv, [Next]_vars
             PROVE  Channel!Next \/ UNCHANGED <<Len(lengths), damaged, handled>>
  BY DEF Channel!vars
<1>1. TypeOK /\ Len(lengths) \in Nat
  BY LenProperties DEF IInv, TypeOK
<1>2. CASE BoardSends
  <2>1. Len(lengths') = Len(lengths) + 1
    BY <1>1, <1>2, AppendProperties DEF BoardSends, TypeOK
  <2> QED BY <1>2, <2>1 DEF BoardSends, Channel!Send, Channel!Next
<1>3. ASSUME UNCHANGED <<lengths, handled>>,
             damaged' \subseteq damaged \cup {q.msg : q \in Range(air)}, damaged \subseteq damaged'
      PROVE  Channel!Damage
  <2>1. \A q \in Range(air) : q.msg \in 1..Len(lengths) /\ q.msg > Latest
    <3>1. \A q \in Range(air) : Genuine(q) /\ Latest < q.msg
      BY DEF IInv, AllGenuine
    <3> QED BY <3>1, <1>1, GenuineType, LatestType
  <2>2. \A m \in damaged : m \in 1..Len(lengths)
    BY DEF IInv, Broken
  <2> QED BY <2>1, <2>2, <1>3 DEF Channel!Damage, Latest
<1>4. CASE Loses
  <2>1. Head(air) \in Range(air)
    BY <1>1, <1>4, HeadFirst DEF Loses, IInv
  <2> QED BY <2>1, <1>3, <1>4 DEF Loses, Channel!Next
<1>5. CASE LinkDrops
  <2>1. \A i \in 1..Len(air) : air[i] \in Range(air)
    BY <1>1, Elements DEF TypeOK
  <2> QED BY <2>1, <1>3, <1>5 DEF LinkDrops, Channel!Next
<1>6. CASE Takes
  <2> DEFINE p == Head(air)
  <2>1. CASE Bytes(p) = Announced(p) /\ Intact(Grown(p))
    <3>1. handled' = Append(handled, p.msg) /\ UNCHANGED <<lengths, damaged>>
      BY <1>6, <2>1 DEF Takes
    <3>2. /\ p.msg \in (Latest + 1)..Len(lengths) /\ p.msg \notin damaged
          /\ \A n \in (Latest + 1)..(p.msg - 1) : n \in damaged
      BY <1>6, <2>1, IntactIsNext DEF Takes
    <3> QED BY <3>1, <3>2 DEF Channel!Handle, Channel!Next, Latest
  <2>2. CASE ~(Bytes(p) = Announced(p) /\ Intact(Grown(p)))
    BY <1>6, <2>2 DEF Takes
  <2> QED BY <2>1, <2>2
<1>7. CASE Rejects
  BY <1>7 DEF Rejects
<1>8. CASE UNCHANGED vars
  BY <1>8 DEF vars
<1> QED BY <1>2, <1>4, <1>5, <1>6, <1>7, <1>8 DEF Next

\* The reassembly hands messages on as MessageChannel promises: whole, once, in
\* order, and only damaged ones are passed over (_notification_handler).
THEOREM ChannelKept == Spec => IsChannel
<1>1. Init => Channel!Init
  BY NoElements DEF Init, Channel!Init
<1> QED BY <1>1, StepChannels, Invariance, PTL DEF Spec, IsChannel, Channel!Spec

=============================================================================
