----------------------------- MODULE PacketCodec -----------------------------
(***************************************************************************)
(* How _build_packets cuts a message: integers of seven bits a byte, the   *)
(* header of each packet, and how many bytes of the message follow it.  A  *)
(* message is its length here, that of flag, initialisation vector and     *)
(* encrypted rest; a byte is a number.                                     *)
(***************************************************************************)
EXTENDS Cuts, Integers, SequencesExt

CONSTANT GATT_MTU  \* const.py's: the bytes of a packet, header included

ASSUME MtuAssumption == GATT_MTU \in Nat /\ GATT_MTU > 8

\* _pack_int: the lowest bits first, the top bit on all bytes but the last.
PackInt(value) ==
  LET pack[n \in 0..value] ==
        IF n < 128 THEN <<n>> ELSE <<128 + (n % 128)>> \o pack[n \div 128]
  IN  pack[value]

\* _unpack_int: the value that starts at start_pos, which counts from 0, and the
\* position after it, or the error it raises: the data ends, or five bytes.
FormatError == <<>>

UnpackInt(data, start_pos) ==
  LET EndsAfter(n) == /\ start_pos + n <= Len(data) /\ data[start_pos + n] < 128
                      /\ \A i \in 1..n-1 : data[start_pos + i] >= 128
      value[n \in 0..4] ==
        IF n = 0 THEN 0 ELSE value[n - 1] + (data[start_pos + n] % 128) * 128^(n - 1)
  IN  IF \E n \in 1..4 : EndsAfter(n)
      THEN LET n == CHOOSE n \in 1..4 : EndsAfter(n) IN <<value[n], start_pos + n>>
      ELSE FormatError

\* The header of a packet: its number and, in the first, the message's length
\* and the protocol version.
PacketHead(packet_num, length, version) ==
  PackInt(packet_num) \o IF packet_num = 0 THEN PackInt(length) \o <<version * 16>> ELSE <<>>

\* What _notification_handler reads of it: number, length (0 if there is none)
\* and the position of the data.
ReadHead(packet) ==
  LET num == UnpackInt(packet, 0)
      length == UnpackInt(packet, num[2])
  IN  IF num[1] = 0 THEN <<0, length[1], length[2] + 1>> ELSE <<num[1], 0, num[2]>>

\* The loop: packets are filled up to GATT_MTU until the message is used up.
\* DataEnds is `pos' after each of them.
DataEnds(length) ==
  LET Room(packet_num) == GATT_MTU - Len(PacketHead(packet_num, length, 0))
      full[n \in 0..length] == IF n = 0 THEN 0 ELSE full[n - 1] + Room(n - 1)
      count == CHOOSE n \in 1..length : full[n - 1] < length /\ full[n] >= length
  IN  [i \in 1..count |-> IF i < count THEN full[i] ELSE length]

\* The bytes of a message that brings `size' bytes of data: sequence number,
\* number answered, code and length before, a checksum after, padded to blocks
\* of 16 for the cipher; a flag and the initialisation vector come first.
MessageLength(size) == 17 + ((12 + size + 2 + 15) \div 16) * 16

=============================================================================
