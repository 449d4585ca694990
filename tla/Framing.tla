------------------------------- MODULE Framing -------------------------------
(***************************************************************************)
(* The reassembly of the board's messages from notifications:              *)
(* _notification_handler and _parse_input of the vendored session.  A      *)
(* packet carries its number and a part of a message, the first one also   *)
(* the message's length.  Packets arrive in order; the radio loses some of *)
(* them, all in flight when the link goes down, and the reassembly is not  *)
(* told: its buffer outlives the link.                                     *)
(***************************************************************************)
EXTENDS Cuts, Integers, Sequences

CONSTANTS
  Ends,         \* for each length of a message, the positions in it where its
                \* packets end (PacketCodec.tla)
  MaxMessages,  \* how many messages the board sends
  MaxLost       \* how often the radio loses a packet of a link that stays up

Lengths == DOMAIN Ends

ASSUME EndsAssumption == Lengths \subseteq Nat /\ \A n \in Lengths : IsCut(Ends[n], n)
ASSUME BoundsAssumption == MaxMessages \in Nat /\ MaxLost \in Nat

VARIABLES
  lengths,         \* of the messages sent so far
  air,             \* packets in flight, oldest first
  buffer,          \* _input_buffer: what packets it is made of,
  filled,          \* and len(_input_buffer)
  expectedNum,     \* _input_expected_packet_num
  expectedLength,  \* _input_expected_length
  handled,         \* messages handled (history)
  damaged,         \* messages a packet of which was lost (history)
  lost             \* budget spent

vars == <<lengths, air, buffer, filled, expectedNum, expectedLength, handled, damaged,
          lost>>

Packet == [msg : 1..MaxMessages, num : Nat, size : Nat \ {0}, length : Lengths]

TypeOK ==
  /\ lengths \in Seq(Lengths) /\ Len(lengths) <= MaxMessages
  /\ air \in Seq(Packet) /\ buffer \in Seq(Packet)
  /\ filled \in Nat /\ expectedNum \in Nat /\ expectedLength \in Nat
  /\ handled \in Seq(1..MaxMessages)
  /\ damaged \subseteq 1..MaxMessages /\ lost \in 0..MaxLost

Init ==
  /\ lengths = <<>> /\ air = <<>> /\ buffer = <<>> /\ filled = 0
  /\ expectedNum = 0 /\ expectedLength = 0
  /\ handled = <<>> /\ damaged = {} /\ lost = 0

-----------------------------------------------------------------------------
(* The board and the radio (external). *)

Packets(m, n) ==
  [i \in 1..Len(Ends[n]) |->
     [msg |-> m, num |-> i - 1, length |-> n,
      size |-> IF i = 1 THEN Ends[n][1] ELSE Ends[n][i] - Ends[n][i - 1]]]

BoardSends ==
  /\ Len(lengths) < MaxMessages
  /\ \E n \in Lengths :
       /\ lengths' = Append(lengths, n)
       /\ air' = air \o Packets(Len(lengths) + 1, n)
  /\ UNCHANGED <<buffer, filled, expectedNum, expectedLength, handled, damaged, lost>>

Loses ==
  /\ air # <<>> /\ lost < MaxLost /\ lost' = lost + 1
  /\ damaged' = damaged \cup {Head(air).msg}
  /\ air' = Tail(air)
  /\ UNCHANGED <<lengths, buffer, filled, expectedNum, expectedLength, handled>>

LinkDrops ==
  /\ air # <<>> /\ air' = <<>>
  /\ damaged' = damaged \cup {air[i].msg : i \in 1..Len(air)}
  /\ UNCHANGED <<lengths, buffer, filled, expectedNum, expectedLength, handled, lost>>

-----------------------------------------------------------------------------
(* _notification_handler. *)

\* _clean_input; mutant: a packet is expected that never comes.
CleanBelow == buffer' = <<>> /\ filled' = 0 /\ expectedNum' = -1 /\ expectedLength' = 0
Clean == buffer' = <<>> /\ filled' = 0 /\ expectedNum' = 0 /\ expectedLength' = 0

\* A number below the expected one starts over; mutant: it is taken for a
\* missing packet like any other.
StartNever(p) == expectedNum
StartOver(p) == IF p.num < expectedNum THEN 0 ELSE expectedNum

\* The packet that was expected, maybe after starting over.
Accepts(p) == p.num = StartOver(p)

\* Its data joins the buffer, a new one for the first packet; mutant: the
\* buffer is not renewed.
GrowsOn(p) == Append(buffer, p)
Grown(p) == IF p.num = 0 THEN <<p>> ELSE Append(buffer, p)

Announced(p) == IF p.num = 0 THEN p.length ELSE expectedLength
Bytes(p) == IF p.num = 0 THEN p.size ELSE filled + p.size

\* _parse_input finds the checksum right: the packets of one message.
Intact(packets) == packets = Packets(packets[1].msg, packets[1].length)

\* The data may complete a message, or exceed the length announced.  A checksum
\* error raises out of the handler after _clean_input.
Takes ==
  LET p == Head(air) IN
  /\ air # <<>> /\ Accepts(p)
  /\ IF Bytes(p) < Announced(p)
     THEN /\ buffer' = Grown(p) /\ filled' = Bytes(p)
          /\ expectedNum' = StartOver(p) + 1 /\ expectedLength' = Announced(p)
     ELSE Clean
  /\ handled' = IF Bytes(p) = Announced(p) /\ Intact(Grown(p))
                THEN Append(handled, p.msg) ELSE handled
  /\ air' = Tail(air)
  /\ UNCHANGED <<lengths, damaged, lost>>

\* A packet is missing.
Rejects ==
  LET p == Head(air) IN
  /\ air # <<>> /\ ~Accepts(p)
  /\ Clean
  /\ air' = Tail(air)
  /\ UNCHANGED <<lengths, handled, damaged, lost>>

Next == BoardSends \/ Loses \/ LinkDrops \/ Takes \/ Rejects

Spec == Init /\ [][Next]_vars

-----------------------------------------------------------------------------
(* Properties. *)

\* The handler hands messages on as MessageChannel promises: it finds back to
\* the packet stream after any loss, at the first whole message.
Channel == INSTANCE MessageChannel WITH sent <- Len(lengths)
IsChannel == Channel!Spec

\* As long as packets are lost with their link only, the buffer never joins
\* packets of two messages; no checksum is needed to tell.
NeverSpliced ==
  lost = 0 => \A i \in 1..Len(buffer) : buffer[i].msg = buffer[1].msg

=============================================================================
