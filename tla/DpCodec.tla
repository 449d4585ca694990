------------------------------- MODULE DpCodec -------------------------------
(***************************************************************************)
(* protocol.py: the codec of datapoint (DP) streams.  A byte is a number,  *)
(* and a DP has an id, a type, its bytes on the wire and its value.  Text  *)
(* stays its bytes, which is what it encodes to again.                     *)
(***************************************************************************)
EXTENDS Integers, SequencesExt

CONSTANTS
  LengthBytes,  \* width of the length field: 1 for v3, 2 for v4
  IsText(_)     \* whether bytes are UTF-8 (bytes.decode does not raise)

ASSUME LengthAssumption == LengthBytes \in {1, 2}

Byte == 0..255

DT_RAW == 0
DT_BOOL == 1
DT_VALUE == 2
DT_STRING == 3
DT_ENUM == 4
DT_BITMAP == 5
DataPointType == DT_RAW..DT_BITMAP

\* int.from_bytes(raw, "big"), of a first byte that counts as first.
FromBytes(first, raw) ==
  LET upTo[n \in 0..Len(raw)] ==
        CASE n = 0 -> 0 [] n = 1 -> first [] OTHER -> upTo[n - 1] * 256 + raw[n]
  IN  upTo[Len(raw)]
Unsigned(raw) == IF raw = <<>> THEN 0 ELSE FromBytes(Head(raw), raw)
Signed(raw) ==
  IF raw # <<>> /\ Head(raw) >= 128 THEN FromBytes(Head(raw) - 256, raw) ELSE Unsigned(raw)

\* decode_value, of bytes it does not raise on.
Undecodable(type, raw) == type = DT_STRING /\ ~IsText(raw)
DecodeValue(type, raw) ==
  CASE type = DT_BOOL -> Unsigned(raw) # 0
    [] type \in {DT_VALUE, DT_ENUM} -> Signed(raw)
    [] OTHER -> raw

\* int.to_bytes(width, "big", signed=True).
ToBytes(n, width) == [i \in 1..width |-> (n \div 256^(width - i)) % 256]

\* encode_value, of the width it has unless told otherwise.
EncodeValue(type, value) ==
  CASE type = DT_BOOL -> IF value THEN <<1>> ELSE <<0>>
    [] type \in {DT_VALUE, DT_ENUM} -> ToBytes(value, 4)
    [] OTHER -> value

\* The header: an id, a type, a length.  LengthAt reads the length of the DP
\* that starts at pos, which counts from 0.
Header == 2 + LengthBytes
LengthAt(data, pos) == Unsigned(SubSeq(data, pos + 3, pos + Header))

\* decode_datapoints from pos on: the DPs up to the end or, if it raises, up to
\* the one it raises on; `after' is what follows at later positions.
DecodeAt(data, pos, after) ==
  LET type == data[pos + 2]
      end == pos + Header + LengthAt(data, pos)
      raw == SubSeq(data, pos + Header + 1, end)
      dp == [id |-> data[pos + 1], type |-> type, raw |-> raw,
             value |-> DecodeValue(type, raw)]
  IN  CASE Len(data) - pos < Header -> [raises |-> FALSE, dps |-> <<>>]
        [] Len(data) - pos >= Header
           /\ (type > DT_BITMAP \/ end > Len(data) \/ Undecodable(type, raw)) ->
             [raises |-> TRUE, dps |-> <<>>]
        [] OTHER -> [raises |-> after[end].raises, dps |-> <<dp>> \o after[end].dps]

DecodeFrom(data, start) ==
  LET decode[pos \in 0..Len(data)] == DecodeAt(data, pos, decode) IN decode[start]
DecodeDatapoints(data) == DecodeFrom(data, 0)

\* len(dp.raw).to_bytes(length_bytes, "big"); mutant: the low byte first.
LengthFieldSwapped(n) == Reverse(IF LengthBytes = 1 THEN <<n>> ELSE <<n \div 256, n % 256>>)
LengthField(n) == IF LengthBytes = 1 THEN <<n>> ELSE <<n \div 256, n % 256>>

\* encode_datapoints, of DPs that fit the length field.
Encoded(dp) == <<dp.id, dp.type>> \o LengthField(Len(dp.raw)) \o dp.raw
EncodeDatapoints(dps) ==
  LET upTo[n \in 0..Len(dps)] == IF n = 0 THEN <<>> ELSE upTo[n - 1] \o Encoded(dps[n])
  IN  upTo[Len(dps)]

=============================================================================
