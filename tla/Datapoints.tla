----------------------------- MODULE Datapoints -----------------------------
(***************************************************************************)
(* How TuyaBLEDevice takes a report of the board apart: one turn of the    *)
(* loop of _parse_datapoints_v3 or _v4 is a step, since each stores the DP *)
(* it found and a later one may raise.                                     *)
(***************************************************************************)
EXTENDS DpCodec, FiniteSets

CONSTANT Streams  \* the DP streams a report may hold

ASSUME StreamsAssumption == Streams \subseteq Seq(Byte)

VARIABLES
  data,      \* the stream of the report
  pos,       \* the position of the loop in it, from 0
  store,     \* TuyaBLEDataPoints._datapoints: each known id with type and value
  reported,  \* the DPs parsed so far, each with the value it had then
  result     \* "parsing", "parsed", or the error it raised

vars == <<data, pos, store, reported, result>>

Stored == [id : Byte, type : DataPointType]

TypeOK ==
  /\ data \in Seq(Byte) /\ pos \in 0..Len(data)
  /\ \A dp \in store \cup ToSet(reported) : [id |-> dp.id, type |-> dp.type] \in Stored
  /\ \A dp, other \in store : dp.id = other.id => dp = other
  /\ result \in {"parsing", "parsed", "FormatError", "LengthError", "UnicodeDecodeError"}

Init ==
  /\ data \in Streams /\ pos = 0
  /\ store = {} /\ reported = <<>> /\ result = "parsing"

\* The loop goes on: by the size of a v4 header, in both versions; mutant: only
\* if something follows the header.
HasHeaderAndMore(n) == n > 4
HasHeader(n) == n >= 4

\* The type byte is no DP type; mutant: not checked up to 6.
BadTypeOffByOne(type) == type > DT_BITMAP + 1
BadType(type) == type > DT_BITMAP

\* TuyaBLEDataPoints._update_from_device; mutant: known DPs keep their values.
UpdateUnknown(dp) ==
  IF \E old \in store : old.id = dp.id THEN store ELSE store \cup {dp}
Update(dp) == {old \in store : old.id # dp.id} \cup {dp}

Type == data[pos + 2]
ValueEnd == pos + Header + LengthAt(data, pos)
RawValue == SubSeq(data, pos + Header + 1, ValueEnd)

Raise(error) == result' = error /\ UNCHANGED <<data, pos, store, reported>>

\* One turn of the loop.
ParseDatapoint ==
  /\ result = "parsing" /\ HasHeader(Len(data) - pos)
  /\ CASE BadType(Type) -> Raise("FormatError")
       [] ~BadType(Type) /\ ValueEnd > Len(data) -> Raise("LengthError")
       [] ~BadType(Type) /\ ValueEnd <= Len(data) /\ Undecodable(Type, RawValue) ->
            Raise("UnicodeDecodeError")
       [] OTHER ->
            LET dp == [id |-> data[pos + 1], type |-> Type,
                       value |-> DecodeValue(Type, RawValue)]
            IN  /\ store' = Update(dp) /\ reported' = Append(reported, dp)
                /\ pos' = ValueEnd /\ UNCHANGED <<data, result>>

\* The end of the loop.
EndReport ==
  /\ result = "parsing" /\ ~HasHeader(Len(data) - pos)
  /\ result' = "parsed" /\ UNCHANGED <<data, pos, store, reported>>

\* TuyaBLEDataPoint._get_value: a number takes four bytes and raises if it needs
\* more; an enum takes the bytes it needs, without a sign, and raises below 0.
\* (2^31 is beyond TLC's integers.)
Packable(dp) ==
  /\ dp.type = DT_VALUE => dp.value \div 65536 >= -32768 /\ dp.value \div 65536 < 32768
  /\ dp.type = DT_ENUM => dp.value >= 0 /\ dp.value \div 65536 < 65536
GetValue(dp) ==
  CASE dp.type = DT_BOOL -> IF dp.value THEN <<1>> ELSE <<0>>
    [] dp.type = DT_VALUE -> ToBytes(dp.value, 4)
    [] dp.type = DT_ENUM ->
         ToBytes(dp.value, IF dp.value > 65535 THEN 4 ELSE IF dp.value > 255 THEN 2 ELSE 1)
    [] OTHER -> dp.value

\* TuyaEboardDevice._snapshot: every DP of the store, or an error for all.
SnapshotRaises == \E dp \in store : ~Packable(dp)
Snapshot ==
  {[id |-> dp.id, type |-> dp.type, raw |-> GetValue(dp), value |-> dp.value] : dp \in store}

Next == ParseDatapoint \/ EndReport
Spec == Init /\ [][Next]_vars

-----------------------------------------------------------------------------
(* Properties. *)

\* protocol.py:3-6: the codec mirrors exactly what the session's parser does on
\* the wire.  They take the same reports and find the same DPs in them.  For v4
\* only: in v3 the loops end at different lengths.
MirrorsProtocol ==
  result # "parsing" =>
    LET reference == DecodeDatapoints(data)
    IN  /\ (result # "parsed") = reference.raises
        /\ result = "parsed" =>
             reported = [i \in 1..Len(reference.dps) |->
               [id |-> reference.dps[i].id, type |-> reference.dps[i].type,
                value |-> reference.dps[i].value]]

\* A report that breaks off leaves in the store the last values of the DPs
\* before the break, and nothing of what comes after (tuya_ble.py:1059, 1101).
Latest ==
  LET found == DecodeDatapoints(data).dps
  IN  {found[i] : i \in {k \in 1..Len(found) :
                          \A j \in k+1..Len(found) : found[j].id # found[k].id}}
StoresUpToBreak ==
  result # "parsing" =>
    store = {[id |-> dp.id, type |-> dp.type, value |-> dp.value] : dp \in Latest}

\* "exact bytes on the wire (for fixtures / lossless re-encode)" (protocol.py:48),
\* "exact wire bytes" (device.py:150): the snapshot has the latest DPs as they
\* came.  No run checks it, since _get_value packs the values again: it is false.
SnapshotIsExact == result # "parsing" => ~SnapshotRaises /\ Snapshot = Latest

\* What is true instead.  A snapshot fails as a whole if the latest value of one
\* enum begins with a top bit (tuya_ble.py:91 packs without sign what :1093 reads
\* with one), and else only if a number came in more than four bytes.  Otherwise
\* it has all DPs, and its bytes decode to its values, but for enums that lost the
\* zero byte before a top bit.
TopBit(raw) == raw # <<>> /\ Head(raw) >= 128
Negative(dp) == dp.type = DT_ENUM /\ TopBit(dp.raw)
Long(dp) == dp.type \in {DT_VALUE, DT_ENUM} /\ Len(dp.raw) > 4
SnapshotDecodes ==
  result # "parsing" =>
    /\ (\E dp \in Latest : Negative(dp)) => SnapshotRaises
    /\ SnapshotRaises => \E dp \in Latest : Negative(dp) \/ Long(dp)
    /\ ~SnapshotRaises =>
         /\ {dp.id : dp \in Snapshot} = {dp.id : dp \in Latest}
         /\ \A dp \in Snapshot :
              DecodeValue(dp.type, dp.raw) = dp.value \/ Negative(dp)

\* A stream that decodes encodes to itself again, up to a rest that is shorter
\* than a header (tests/test_protocol.py: captured streams "must decode and
\* re-encode identically").
RoundTrips ==
  LET decoded == DecodeDatapoints(data)
      encoded == EncodeDatapoints(decoded.dps)
  IN  /\ IsPrefix(encoded, data)
      /\ ~decoded.raises => Len(data) - Len(encoded) < Header

=============================================================================
