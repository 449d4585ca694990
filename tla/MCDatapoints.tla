---------------------------- MODULE MCDatapoints ----------------------------
(* Streams of two pieces and a rest.  A piece is a DP, whole or not: its       *)
(* length field may claim more or less than the bytes that follow.            *)
EXTENDS Datapoints

\* Enough of UTF-8 for these bytes.
NoTopBit(raw) == \A i \in 1..Len(raw) : raw[i] < 128

Bodies == {<<>>, <<0>>, <<255>>, <<1, 2>>, <<255, 3>>, <<0, 255>>}
Types == {DT_BOOL, DT_VALUE, DT_STRING, DT_ENUM, DT_BITMAP + 1}
LengthIs(n) == [i \in 1..LengthBytes |-> IF i = LengthBytes THEN n ELSE 0]
Piece(id, type, n, body) == <<id, type>> \o LengthIs(n) \o body

Wide == {Piece(3, type, 4, body) : type \in {DT_VALUE, DT_ENUM},
                                   body \in {<<128, 0, 0, 1>>, <<127, 255, 255, 255>>}}
Pieces == Wide \cup
  {Piece(id, type, n, body) : id \in {1, 3}, type \in Types, n \in 0..2, body \in Bodies}
Rests == {<<>>, <<1, 2, 0>>}
PiecesAndRest == {a \o b \o c : a \in Pieces, b \in Pieces \cup {<<>>}, c \in Rests}

\* decode_value is the inverse of encode_value (protocol.py:60), whatever the
\* type and sign.
ASSUME InverseOfEncode ==
  /\ \A type \in {DT_VALUE, DT_ENUM}, n \in {-65536, -129, -128, -1, 0, 127, 128, 255, 65536} :
       DecodeValue(type, EncodeValue(type, n)) = n
  /\ \A value \in BOOLEAN : DecodeValue(DT_BOOL, EncodeValue(DT_BOOL, value)) = value
  /\ \A raw \in Bodies : DecodeValue(DT_RAW, EncodeValue(DT_RAW, raw)) = raw

=============================================================================
