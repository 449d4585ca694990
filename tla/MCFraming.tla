------------------------------ MODULE MCFraming ------------------------------
(* Framing with messages cut as _build_packets cuts them.                      *)
EXTENDS Framing, PacketCodec

\* An answer, a short report, and one whose length takes two bytes.
MessageSizes == {1, 20, 100}
MessageLengths == {MessageLength(n) : n \in MessageSizes}
CutByCodec == [n \in MessageLengths |-> DataEnds(n)]

\* Numbers at the edges of one to four bytes survive the codec.
ASSUME IntegersRoundTrip ==
  \A k \in 1..4 : \A n \in {128^(k - 1), 128^k - 1} :
    /\ Len(PackInt(n)) = k
    /\ UnpackInt(PackInt(n), 0) = <<n, k>>

\* Five bytes are refused; no length needs them, since the length field of a
\* message has 16 bits.
ASSUME LengthsArePacked ==
  /\ UnpackInt(PackInt(128^4), 0) = FormatError
  /\ MessageLength(2^16 - 1) < 128^4

\* Packets are filled, never beyond GATT_MTU, none is empty, the header says what
\* it is to say, and the parts are the message, with numbers of two bytes too.
ASSUME PacketsFit ==
  \A size \in {0, 1, 95, 96, 97, 2400} :
    LET length == MessageLength(size)
        ends == DataEnds(length)
        head(i) == PacketHead(i - 1, length, 3)
        packet(i) == Len(head(i)) + ends[i] - (IF i = 1 THEN 0 ELSE ends[i - 1])
    IN  /\ \A i \in 1..Len(ends) :
             /\ Len(head(i)) < packet(i) /\ packet(i) <= GATT_MTU
             /\ i < Len(ends) => packet(i) = GATT_MTU
             /\ ReadHead(head(i)) = <<i - 1, IF i = 1 THEN length ELSE 0, Len(head(i))>>
        /\ Last(ends) = length

=============================================================================
