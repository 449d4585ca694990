----------------------------- MODULE CodecProofs -----------------------------
(***************************************************************************)
(* Proofs about the codecs: DpCodec.tla with the parser of Datapoints.tla, *)
(* for any reports of the board, and PacketCodec.tla, for any packet size. *)
(* Facts about recursive functions need induction; it is made here from    *)
(* the well-foundedness of < on the naturals, over sets of naturals.       *)
(***************************************************************************)
EXTENDS Datapoints, PacketCodec, SequenceTheorems, WellFoundedInduction, TLAPS

-----------------------------------------------------------------------------
(* Induction. *)

LEMMA LeastNat ==
  ASSUME NEW T, T \subseteq Nat, T # {}
  PROVE  \E x \in T : \A y \in T : x <= y
<1> DEFINE R == OpToRel(<, Nat)
<1>1. IsWellFoundedOn(R, Nat)
  BY NatLessThanWellFounded
<1>2. PICK x \in T : \A y \in T : ~(<<y, x>> \in R)
  <2> HIDE DEF R
  <2> QED BY <1>1, WFMin
<1>3. \A y \in Nat : y < x => <<y, x>> \in R
  BY <1>2 DEF OpToRel
<1> HIDE DEF R
<1>4. \A y \in T : ~(y < x)
  BY <1>2, <1>3
<1>5. \A y \in T : x <= y
  BY <1>4
<1> QED BY <1>5

LEMMA StrongInduct ==
  ASSUME NEW T, \A n \in Nat : (\A m \in Nat : m < n => m \in T) => n \in T
  PROVE  Nat \subseteq T
<1> DEFINE Bad == Nat \ T
<1> SUFFICES ASSUME Bad # {} PROVE FALSE
  OBVIOUS
<1>1. PICK x \in Bad : \A y \in Bad : x <= y
  <2>1. Bad \subseteq Nat
    OBVIOUS
  <2> HIDE DEF Bad
  <2> QED BY <2>1, LeastNat
<1>2. \A m \in Nat : m < x => m \in T
  BY <1>1
<1> QED BY <1>1, <1>2

LEMMA NatInduct ==
  ASSUME NEW T, 0 \in T, \A n \in Nat : n \in T => n + 1 \in T
  PROVE  Nat \subseteq T
<1>1. ASSUME NEW n \in Nat, \A m \in Nat : m < n => m \in T PROVE n \in T
  <2>1. CASE n = 0
    BY <2>1
  <2>2. CASE n # 0
    <3>1. n - 1 \in Nat /\ n - 1 < n /\ (n - 1) + 1 = n
      BY <2>2
    <3> QED BY <3>1, <1>1
  <2> QED BY <2>1, <2>2
<1> QED BY <1>1, StrongInduct

\* A function that is defined by primitive recursion exists: h[n] makes its n-th
\* value from the one before.
Recursion(N, V, c, h) == N \in Nat /\ c \in V /\ h \in [1..N -> [V -> V]]
Solves(f, N, V, c, h) ==
  f \in [0..N -> V] /\ f[0] = c /\ \A n \in 1..N : f[n] = h[n][f[n - 1]]

LEMMA PrimRec ==
  ASSUME NEW N, NEW V, NEW c, NEW h, Recursion(N, V, c, h)
  PROVE  \E f : Solves(f, N, V, c, h)
<1> USE DEF Recursion
<1> DEFINE Up(f, k) == f[0] = c /\ \A n \in 1..k : f[n] = h[n][f[n - 1]]
           T == {k \in Nat : k <= N => \E f \in [0..k -> V] : Up(f, k)}
<1>1. 0 \in T
  <2>1. [i \in 0..0 |-> c] \in [0..0 -> V] /\ Up([i \in 0..0 |-> c], 0)
    OBVIOUS
  <2> QED BY <2>1
<1>2. ASSUME NEW k \in Nat, k \in T PROVE k + 1 \in T
  <2> SUFFICES ASSUME k + 1 <= N PROVE \E f \in [0..(k + 1) -> V] : Up(f, k + 1)
    OBVIOUS
  <2>1. PICK f \in [0..k -> V] : Up(f, k)
    BY <1>2
  <2> DEFINE x == h[k + 1][f[k]]
             g == [i \in 0..(k + 1) |-> IF i = k + 1 THEN x ELSE f[i]]
  <2>2. x \in V
    <3>1. f[k] \in V /\ k + 1 \in 1..N
      OBVIOUS
    <3> QED BY <3>1
  <2>3. g \in [0..(k + 1) -> V]
    BY <2>2
  <2>4. ASSUME NEW n \in 1..(k + 1) PROVE g[n] = h[n][g[n - 1]]
    <3>1. n - 1 \in 0..k /\ g[n - 1] = f[n - 1]
      OBVIOUS
    <3>2. CASE n = k + 1
      <4>1. g[n] = x /\ n - 1 = k
        BY <3>2
      <4> HIDE DEF g
      <4> QED BY <3>1, <3>2, <4>1
    <3>3. CASE n # k + 1
      BY <3>1, <3>3, <2>1
    <3> QED BY <3>2, <3>3
  <2>5. g[0] = c
    BY <2>1
  <2> QED BY <2>3, <2>4, <2>5
<1>3. N \in T
  BY <1>1, <1>2, NatInduct
<1> QED BY <1>3 DEF Solves

-----------------------------------------------------------------------------
(* Numbers: FromBytes, case by case, its sign and its range. *)

LEMMA ByteRange == \A b \in Byte : b \in Int /\ b >= 0 /\ b < 256
BY DEF Byte

LEMMA TypeRange == \A b \in Byte : ~(b > DT_BITMAP) => b \in DataPointType
BY DEF Byte, DataPointType, DT_RAW, DT_BITMAP

LEMMA ByteSeq ==
  ASSUME NEW raw \in Seq(Byte)
  PROVE  /\ Len(raw) \in Nat
         /\ \A n \in 1..Len(raw) : raw[n] \in Int /\ raw[n] >= 0 /\ raw[n] < 256
         /\ raw # <<>> => Len(raw) >= 1 /\ Head(raw) = raw[1]
<1>1. \A n \in 1..Len(raw) : raw[n] \in Byte
  OBVIOUS
<1>2. raw # <<>> => Len(raw) >= 1
  BY EmptySeq
<1>3. Head(raw) = raw[1]
  OBVIOUS
<1>4. \A n \in 1..Len(raw) : raw[n] \in Int /\ raw[n] >= 0 /\ raw[n] < 256
  BY <1>1, ByteRange
<1> QED BY <1>2, <1>3, <1>4

\* f[n] is the number of the first n bytes.
LEMMA BytesAreInts ==
  ASSUME NEW raw \in Seq(Byte) PROVE raw \in Seq(Int)
<1>1. Byte \subseteq Int
  BY ByteRange
<1> DEFINE S == Byte  T == Int
<1> HIDE DEF S, T
<1>2. raw \in Seq(S) /\ S \subseteq T
  BY <1>1 DEF S, T
<1>3. raw \in Seq(T)
  BY <1>2, SeqMonotonic
<1> QED BY <1>3 DEF T

LEMMA FromBytesDef ==
  ASSUME NEW first \in Int, NEW raw \in Seq(Byte)
  PROVE  \E f \in [0..Len(raw) -> Int] :
           /\ FromBytes(first, raw) = f[Len(raw)]
           /\ f[0] = 0
           /\ Len(raw) >= 1 => f[1] = first
           /\ \A n \in 2..Len(raw) : f[n] = f[n - 1] * 256 + raw[n]
<1> DEFINE N == Len(raw)
           h == [n \in 1..N |-> [x \in Int |-> IF n = 1 THEN first ELSE x * 256 + raw[n]]]
           Eq(f) == [n \in 0..N |->
                       CASE n = 0 -> 0 [] n = 1 -> first [] OTHER -> f[n - 1] * 256 + raw[n]]
           g == CHOOSE f : f = Eq(f)
<1>1. N \in Nat /\ \A n \in 1..N : raw[n] \in Int
  BY ByteSeq
<1>2. h \in [1..N -> [Int -> Int]]
  BY <1>1
<1>3. PICK f : Solves(f, N, Int, 0, h)
  <2>1. Recursion(N, Int, 0, h)
    BY <1>1, <1>2 DEF Recursion
  <2> QED BY <2>1, PrimRec
<1>4. ASSUME NEW n \in 1..N
      PROVE  f[n] = IF n = 1 THEN first ELSE f[n - 1] * 256 + raw[n]
  <2>1. f[n] = h[n][f[n - 1]]
    BY <1>3 DEF Solves
  <2>2. f \in [0..N -> Int]
    <3> HIDE DEF h
    <3> QED BY <1>3 DEF Solves
  <2>3. n - 1 \in 0..N
    BY <1>1
  <2>4. f[n - 1] \in Int
    BY <2>2, <2>3
  <2> QED BY <2>1, <2>4
<1>5. f = Eq(f)
  <2>1. ASSUME NEW n \in 0..N
        PROVE f[n] = CASE n = 0 -> 0 [] n = 1 -> first [] OTHER -> f[n - 1] * 256 + raw[n]
    <3>1. CASE n = 0
      BY <3>1, <1>3 DEF Solves
    <3>2. CASE n = 1
      BY <3>2, <1>4
    <3>3. CASE n # 0 /\ n # 1
      BY <3>3, <1>4
    <3> QED BY <3>1, <3>2, <3>3
  <2>2. f = [n \in 0..N |-> f[n]]
    BY <1>3 DEF Solves
  <2> HIDE DEF N
  <2> QED BY <2>1, <2>2, ZenonT(60)
<1>6. g = Eq(g)
  <2> HIDE DEF Eq
  <2> QED BY <1>5
<1>7. FromBytes(first, raw) = g[N]
  BY DEF FromBytes
<1> HIDE DEF g, N
<1>8. g[0] = 0 /\ (N >= 1 => g[1] = first)
  BY <1>1, <1>6
<1>9. ASSUME NEW n \in 2..N PROVE g[n] = g[n - 1] * 256 + raw[n]
  <2>1. n \in 0..N /\ n # 0 /\ n # 1
    BY <1>1
  <2> QED BY <2>1, <1>6
<1>10. \A n \in 0..N : g[n] \in Int
  <2> DEFINE T == {n \in Nat : n <= N => g[n] \in Int}
  <2>1. 0 \in T
    BY <1>8
  <2>2. ASSUME NEW n \in Nat, n \in T PROVE n + 1 \in T
    <3> SUFFICES ASSUME n + 1 <= N PROVE g[n + 1] \in Int
      OBVIOUS
    <3>1. CASE n = 0
      BY <3>1, <1>8
    <3>2. CASE n # 0
      <4>1. g[n] \in Int /\ n + 1 \in 2..N /\ (n + 1) - 1 = n /\ raw[n + 1] \in Int
        BY <3>2, <2>2, <1>1
      <4> QED BY <4>1, <1>9
    <3> QED BY <3>1, <3>2
  <2> HIDE DEF T
  <2>3. Nat \subseteq T
    BY <2>1, <2>2, NatInduct
  <2> QED BY <2>3, <1>1 DEF T
<1>11. g \in [0..N -> Int]
  <2>1. g = [n \in 0..N |-> g[n]]
    BY <1>6
  <2> QED BY <2>1, <1>10
<1> QED BY <1>7, <1>8, <1>9, <1>11 DEF N

\* The sign of a number is that of its first byte.
LEMMA FromBytesSign ==
  ASSUME NEW first \in Int, NEW raw \in Seq(Byte)
  PROVE  /\ FromBytes(first, raw) \in Int
         /\ first >= 0 => FromBytes(first, raw) >= 0
         /\ first < 0 /\ raw # <<>> => FromBytes(first, raw) < 0
<1>1. PICK f \in [0..Len(raw) -> Int] :
        /\ FromBytes(first, raw) = f[Len(raw)]
        /\ f[0] = 0
        /\ Len(raw) >= 1 => f[1] = first
        /\ \A n \in 2..Len(raw) : f[n] = f[n - 1] * 256 + raw[n]
  BY FromBytesDef
<1> DEFINE T == {n \in Nat : n <= Len(raw) =>
                   (first >= 0 => f[n] >= 0) /\ (first < 0 /\ n >= 1 => f[n] < 0)}
<1>2. 0 \in T
  BY <1>1
<1>3. ASSUME NEW n \in Nat, n \in T PROVE n + 1 \in T
  <2> SUFFICES ASSUME n + 1 <= Len(raw)
               PROVE  (first >= 0 => f[n + 1] >= 0) /\ (first < 0 => f[n + 1] < 0)
    OBVIOUS
  <2>1. CASE n = 0
    BY <2>1, <1>1
  <2>2. CASE n # 0
    <3>1. n + 1 \in 2..Len(raw) /\ (n + 1) - 1 = n /\ f[n] \in Int
      BY <2>2, ByteSeq
    <3>2. f[n + 1] = f[n] * 256 + raw[n + 1]
      BY <3>1, <1>1
    <3>3. (first >= 0 => f[n] >= 0) /\ (first < 0 => f[n] < 0)
      BY <1>3, <2>2, ByteSeq
    <3>4. raw[n + 1] \in Int /\ raw[n + 1] >= 0 /\ raw[n + 1] < 256
      BY <3>1, ByteSeq
    <3> QED BY <3>1, <3>2, <3>3, <3>4
  <2> QED BY <2>1, <2>2
<1>4. Len(raw) \in T
  <2> HIDE DEF T
  <2> QED BY <1>2, <1>3, NatInduct, ByteSeq
<1> QED BY <1>1, <1>4, ByteSeq

LEMMA FromBytesUpTo4 ==
  ASSUME NEW first \in Int, NEW raw \in Seq(Byte)
  PROVE  /\ Len(raw) = 0 => FromBytes(first, raw) = 0
         /\ Len(raw) = 1 => FromBytes(first, raw) = first
         /\ Len(raw) = 2 => FromBytes(first, raw) = first * 256 + raw[2]
         /\ Len(raw) = 3 => FromBytes(first, raw) = (first * 256 + raw[2]) * 256 + raw[3]
         /\ Len(raw) = 4 => FromBytes(first, raw)
                            = ((first * 256 + raw[2]) * 256 + raw[3]) * 256 + raw[4]
<1>1. PICK f \in [0..Len(raw) -> Int] :
        /\ FromBytes(first, raw) = f[Len(raw)]
        /\ f[0] = 0
        /\ Len(raw) >= 1 => f[1] = first
        /\ \A n \in 2..Len(raw) : f[n] = f[n - 1] * 256 + raw[n]
  BY FromBytesDef
<1>2. Len(raw) >= 2 => f[2] = f[1] * 256 + raw[2]
  BY <1>1
<1>3. Len(raw) >= 3 => f[3] = f[2] * 256 + raw[3]
  BY <1>1
<1>4. Len(raw) >= 4 => f[4] = f[3] * 256 + raw[4]
  BY <1>1
<1>5. CASE Len(raw) = 0
  BY <1>1, <1>5
<1>10. CASE Len(raw) = 1
  BY <1>1, <1>10
<1>6. CASE Len(raw) = 2
  BY <1>1, <1>2, <1>6
<1>7. CASE Len(raw) = 3
  BY <1>1, <1>2, <1>3, <1>7
<1>8. CASE Len(raw) = 4
  BY <1>1, <1>2, <1>3, <1>4, <1>8
<1>9. CASE Len(raw) > 4
  BY <1>9, SMTT(30)
<1> QED BY <1>5, <1>10, <1>6, <1>7, <1>8, <1>9, ByteSeq

-----------------------------------------------------------------------------
(* Decoding: the equations of DecodeFrom, case by case.  At a position there *)
(* is no header, or what makes it raise, or a DP and then the rest.          *)

EndAt(stream, p) == p + Header + LengthAt(stream, p)
RawAt(stream, p) == SubSeq(stream, p + Header + 1, EndAt(stream, p))
DpAt(stream, p) ==
  [id |-> stream[p + 1], type |-> stream[p + 2], raw |-> RawAt(stream, p),
   value |-> DecodeValue(stream[p + 2], RawAt(stream, p))]

NoHeader(stream, p) == Len(stream) - p < Header
Breaks(stream, p) ==
  \/ stream[p + 2] > DT_BITMAP
  \/ EndAt(stream, p) > Len(stream)
  \/ Undecodable(stream[p + 2], RawAt(stream, p))

\* The length field is a number of one or two bytes, so that a DP ends after
\* the position it begins at.
LEMMA LengthAtBounds ==
  ASSUME NEW stream \in Seq(Byte), NEW p \in 0..Len(stream), ~NoHeader(stream, p)
  PROVE  /\ Header \in {3, 4} /\ p + Header \in 0..Len(stream)
         /\ LengthBytes = 1 => LengthAt(stream, p) = stream[p + 3]
         /\ LengthBytes = 2 => LengthAt(stream, p) = stream[p + 3] * 256 + stream[p + 4]
         /\ LengthAt(stream, p) \in Nat
         /\ EndAt(stream, p) \in Nat /\ EndAt(stream, p) > p /\ EndAt(stream, p) >= p + Header
<1> DEFINE field == SubSeq(stream, p + 3, p + Header)
<1>1. Header \in {3, 4} /\ p + Header \in 0..Len(stream) /\ Header = 2 + LengthBytes
  BY LengthAssumption DEF Header, NoHeader
<1>2. \A i \in (p + 3)..(p + Header) : stream[i] \in Byte
  BY <1>1
<1>3. /\ field \in Seq(Byte) /\ Len(field) = LengthBytes
      /\ \A i \in 1..LengthBytes : field[i] = stream[p + 2 + i]
  <2>1. p + 3 \in Int /\ p + Header \in Int /\ p + 3 <= p + Header
    BY <1>1, LengthAssumption
  <2>2. /\ field \in Seq(Byte)
        /\ Len(field) = IF p + 3 <= p + Header THEN (p + Header) - (p + 3) + 1 ELSE 0
        /\ \A i \in 1..((p + Header) - (p + 3) + 1) : field[i] = stream[(p + 3) + i - 1]
    BY <1>2, <2>1, SubSeqProperties
  <2> HIDE DEF field
  <2> QED BY <1>1, <2>1, <2>2, LengthAssumption
<1> HIDE DEF field
<1>4. field # <<>> /\ Head(field) = field[1] /\ Head(field) \in Int
  BY <1>3, ByteSeq, LengthAssumption
<1>5. LengthAt(stream, p) = FromBytes(Head(field), field)
  BY <1>4 DEF LengthAt, Unsigned, field
<1>6. \A i \in 1..LengthBytes : field[i] \in Int /\ field[i] >= 0
  BY <1>3, ByteSeq
<1>7. /\ LengthBytes = 1 => LengthAt(stream, p) = stream[p + 3]
      /\ LengthBytes = 2 => LengthAt(stream, p) = stream[p + 3] * 256 + stream[p + 4]
  <2>1. CASE LengthBytes = 1
    <3>1. LengthAt(stream, p) = field[1]
      BY <2>1, <1>3, <1>4, <1>5, FromBytesUpTo4
    <3> QED BY <2>1, <3>1, <1>3
  <2>2. CASE LengthBytes = 2
    <3>1. LengthAt(stream, p) = field[1] * 256 + field[2]
      BY <2>2, <1>3, <1>4, <1>5, FromBytesUpTo4
    <3>2. field[1] = stream[p + 3] /\ field[2] = stream[p + 4]
      BY <2>2, <1>3
    <3> QED BY <2>2, <3>1, <3>2
  <2> QED BY <2>1, <2>2, LengthAssumption
<1>8. LengthAt(stream, p) \in Nat
  BY <1>3, <1>4, <1>5, <1>6, FromBytesSign, LengthAssumption
<1> QED BY <1>1, <1>7, <1>8 DEF EndAt

LEMMA DecodeCases ==
  ASSUME NEW stream, NEW p, NEW after
  PROVE  DecodeAt(stream, p, after) =
           CASE NoHeader(stream, p) -> [raises |-> FALSE, dps |-> <<>>]
             [] ~NoHeader(stream, p) /\ Breaks(stream, p) -> [raises |-> TRUE, dps |-> <<>>]
             [] OTHER -> [raises |-> after[EndAt(stream, p)].raises,
                          dps |-> <<DpAt(stream, p)>> \o after[EndAt(stream, p)].dps]
BY DEF DecodeAt, NoHeader, Breaks, EndAt, RawAt, DpAt

\* What is decoded at a position depends on later positions only.
LEMMA DecodeLocal ==
  ASSUME NEW stream \in Seq(Byte), NEW p \in 0..Len(stream), NEW a, NEW b,
         \A q \in 0..Len(stream) : q > p => a[q] = b[q]
  PROVE  DecodeAt(stream, p, a) = DecodeAt(stream, p, b)
<1>1. CASE NoHeader(stream, p)
  BY <1>1, DecodeCases
<1>2. CASE ~NoHeader(stream, p) /\ Breaks(stream, p)
  BY <1>2, DecodeCases
<1>3. CASE ~NoHeader(stream, p) /\ ~Breaks(stream, p)
  <2>1. EndAt(stream, p) \in 0..Len(stream) /\ EndAt(stream, p) > p
    BY <1>3, LengthAtBounds DEF Breaks
  <2>2. a[EndAt(stream, p)] = b[EndAt(stream, p)]
    BY <2>1
  <2> QED BY <1>3, <2>2, DecodeCases
<1> QED BY <1>1, <1>2, <1>3

LEMMA DecodeDef ==
  ASSUME NEW stream \in Seq(Byte), NEW p \in 0..Len(stream)
  PROVE  DecodeFrom(stream, p) =
           DecodeAt(stream, p, [q \in 0..Len(stream) |-> DecodeFrom(stream, q)])
<1> DEFINE N == Len(stream)
           Fix(g) == [q \in 0..N |-> DecodeAt(stream, q, g)]
           From(k, g) == \A q \in 0..N : q >= N - k => g[q] = DecodeAt(stream, q, g)
           T == {k \in Nat : k <= N => \E g : From(k, g)}
           decode == CHOOSE g : g = Fix(g)
<1>1. N \in Nat
  OBVIOUS
<1>2. 0 \in T
  <2> DEFINE g == [q \in 0..N |-> DecodeAt(stream, N, <<>>)]
  <2>1. DecodeAt(stream, N, <<>>) = DecodeAt(stream, N, g)
    <3>1. N \in 0..N /\ \A q \in 0..N : ~(q > N)
      BY <1>1
    <3> HIDE DEF g
    <3> QED BY <3>1, DecodeLocal
  <2>2. From(0, g)
    <3> SUFFICES ASSUME NEW q \in 0..N, q >= N - 0 PROVE g[q] = DecodeAt(stream, q, g)
      OBVIOUS
    <3>1. q = N
      BY <1>1
    <3>2. g[N] = DecodeAt(stream, N, <<>>)
      BY <1>1
    <3> QED BY <2>1, <3>1, <3>2
  <2> HIDE DEF From
  <2> QED BY <2>2
<1>3. ASSUME NEW k \in Nat, k \in T PROVE k + 1 \in T
  <2> SUFFICES ASSUME k + 1 <= N PROVE \E g : From(k + 1, g)
    OBVIOUS
  <2>1. PICK f : From(k, f)
    <3> HIDE DEF From
    <3> QED BY <1>1, <1>3
  <2> DEFINE r == N - (k + 1)
             g == [q \in 0..N |-> IF q = r THEN DecodeAt(stream, r, f) ELSE f[q]]
  <2>2. r \in 0..N
    BY <1>1
  <2>3. ASSUME NEW q \in 0..N, q >= r PROVE g[q] = DecodeAt(stream, q, g)
    <3>1. DecodeAt(stream, q, f) = DecodeAt(stream, q, g)
      <4>1. ASSUME NEW x \in 0..N, x > q PROVE f[x] = g[x]
        BY <1>1, <2>2, <2>3, <4>1
      <4> HIDE DEF g
      <4> QED BY <4>1, DecodeLocal
    <3>2. g[q] = DecodeAt(stream, q, f)
      <4>1. CASE q = r
        BY <4>1
      <4>2. CASE q # r
        <5>1. q >= N - k
          BY <4>2, <2>2, <2>3, <1>1
        <5>2. g[q] = f[q]
          BY <4>2
        <5> HIDE DEF g
        <5> QED BY <5>1, <5>2, <2>1
      <4> QED BY <4>1, <4>2
    <3> HIDE DEF g
    <3> QED BY <3>1, <3>2
  <2>4. From(k + 1, g)
    <3> HIDE DEF g
    <3> QED BY <2>3
  <2> HIDE DEF From
  <2> QED BY <2>4
<1>4. PICK g : From(N, g)
  <2> HIDE DEF T
  <2>1. N \in T
    BY <1>1, <1>2, <1>3, NatInduct
  <2> HIDE DEF From
  <2> QED BY <2>1, <1>1 DEF T
<1>5. Fix(g) = Fix(Fix(g))
  <2>1. ASSUME NEW q \in 0..N PROVE DecodeAt(stream, q, g) = DecodeAt(stream, q, Fix(g))
    <3>1. \A x \in 0..N : g[x] = Fix(g)[x]
      BY <1>1, <1>4
    <3> HIDE DEF Fix
    <3> QED BY <3>1, DecodeLocal
  <2> QED BY <2>1
<1>6. decode = Fix(decode)
  <2> HIDE DEF Fix
  <2> QED BY <1>5
<1>7. \A q \in 0..N : DecodeFrom(stream, q) = decode[q]
  BY DEF DecodeFrom
<1>8. [q \in 0..N |-> DecodeFrom(stream, q)] = decode
  <2>1. decode = [q \in 0..N |-> decode[q]]
    <3> HIDE DEF decode
    <3> QED BY <1>6
  <2> HIDE DEF decode
  <2> QED BY <1>7, <2>1
<1> HIDE DEF decode
<1> QED BY <1>6, <1>7, <1>8

LEMMA DecodeEnd ==
  ASSUME NEW stream \in Seq(Byte), NEW p \in 0..Len(stream), NoHeader(stream, p)
  PROVE  DecodeFrom(stream, p) = [raises |-> FALSE, dps |-> <<>>]
BY DecodeDef, DecodeCases

LEMMA DecodeBreak ==
  ASSUME NEW stream \in Seq(Byte), NEW p \in 0..Len(stream),
         ~NoHeader(stream, p), Breaks(stream, p)
  PROVE  DecodeFrom(stream, p) = [raises |-> TRUE, dps |-> <<>>]
BY DecodeDef, DecodeCases

LEMMA DecodeNext ==
  ASSUME NEW stream \in Seq(Byte), NEW p \in 0..Len(stream),
         ~NoHeader(stream, p), ~Breaks(stream, p)
  PROVE  /\ EndAt(stream, p) \in 0..Len(stream) /\ EndAt(stream, p) > p
         /\ DecodeFrom(stream, p) =
              [raises |-> DecodeFrom(stream, EndAt(stream, p)).raises,
               dps |-> <<DpAt(stream, p)>> \o DecodeFrom(stream, EndAt(stream, p)).dps]
<1>1. EndAt(stream, p) \in 0..Len(stream) /\ EndAt(stream, p) > p
  BY LengthAtBounds DEF Breaks
<1> DEFINE after == [q \in 0..Len(stream) |-> DecodeFrom(stream, q)]
<1>2. after[EndAt(stream, p)] = DecodeFrom(stream, EndAt(stream, p))
  BY <1>1
<1>3. DecodeFrom(stream, p) = DecodeAt(stream, p, after)
  BY DecodeDef
<1> HIDE DEF after
<1>4. DecodeFrom(stream, p) =
        [raises |-> after[EndAt(stream, p)].raises,
         dps |-> <<DpAt(stream, p)>> \o after[EndAt(stream, p)].dps]
  BY <1>3, DecodeCases
<1> QED BY <1>1, <1>2, <1>4

\* What a DP of a decoded stream is.
Decoded == {[id |-> i, type |-> t, raw |-> r, value |-> DecodeValue(t, r)] :
              i \in Byte, t \in DataPointType, r \in Seq(Byte)}

LEMMA DecodedFields ==
  ASSUME NEW dp \in Decoded
  PROVE  /\ dp.id \in Byte /\ dp.type \in DataPointType /\ dp.raw \in Seq(Byte)
         /\ dp.value = DecodeValue(dp.type, dp.raw)
         /\ dp = [id |-> dp.id, type |-> dp.type, raw |-> dp.raw, value |-> dp.value]
BY DEF Decoded

LEMMA DpAtDecoded ==
  ASSUME NEW stream \in Seq(Byte), NEW p \in 0..Len(stream),
         ~NoHeader(stream, p), ~Breaks(stream, p)
  PROVE  /\ DpAt(stream, p) \in Decoded
         /\ RawAt(stream, p) \in Seq(Byte)
         /\ Len(RawAt(stream, p)) = LengthAt(stream, p)
         /\ \A i \in 1..LengthAt(stream, p) :
              RawAt(stream, p)[i] = stream[p + Header + i]
<1>1. /\ Header \in {3, 4} /\ p + Header \in 0..Len(stream)
      /\ EndAt(stream, p) \in Nat /\ EndAt(stream, p) <= Len(stream)
      /\ LengthAt(stream, p) \in Nat /\ EndAt(stream, p) = p + Header + LengthAt(stream, p)
  BY LengthAtBounds DEF Breaks, EndAt
<1>2. stream[p + 1] \in Byte /\ stream[p + 2] \in Byte
  BY <1>1
<1>3. stream[p + 2] \in DataPointType
  <2>1. ~(stream[p + 2] > DT_BITMAP)
    BY DEF Breaks
  <2> QED BY <1>2, <2>1, TypeRange
<1>4. \A i \in (p + Header + 1)..EndAt(stream, p) : stream[i] \in Byte
  BY <1>1
<1> DEFINE m == p + Header + 1  n == EndAt(stream, p)
<1>5. m \in Int /\ n \in Int /\ (m <= n + 1) /\ n - m + 1 = LengthAt(stream, p)
  BY <1>1
<1>6. /\ RawAt(stream, p) \in Seq(Byte)
      /\ Len(RawAt(stream, p)) = IF m <= n THEN n - m + 1 ELSE 0
      /\ \A i \in 1..(n - m + 1) : RawAt(stream, p)[i] = stream[m + i - 1]
  <2> HIDE DEF m, n
  <2>1. RawAt(stream, p) = SubSeq(stream, m, n)
    BY DEF RawAt, m, n
  <2>2. \A i \in m..n : stream[i] \in Byte
    BY <1>4 DEF m, n
  <2> QED BY <1>5, <2>1, <2>2, SubSeqProperties
<1>7. Len(RawAt(stream, p)) = LengthAt(stream, p)
  BY <1>1, <1>5, <1>6
<1>8. ASSUME NEW i \in 1..LengthAt(stream, p)
      PROVE  RawAt(stream, p)[i] = stream[p + Header + i]
  <2>1. m + i - 1 = p + Header + i
    BY <1>1
  <2>2. RawAt(stream, p)[i] = stream[m + i - 1]
    BY <1>5, <1>6
  <2> QED BY <2>1, <2>2
<1>9. DpAt(stream, p) \in Decoded
  BY <1>2, <1>3, <1>6 DEF DpAt, Decoded
<1> QED BY <1>6, <1>7, <1>8, <1>9

LEMMA DecodeType ==
  ASSUME NEW stream \in Seq(Byte), NEW p \in 0..Len(stream)
  PROVE  DecodeFrom(stream, p).dps \in Seq(Decoded) /\ DecodeFrom(stream, p).raises \in BOOLEAN
<1> DEFINE N == Len(stream)
           Good(q) == /\ DecodeFrom(stream, q).dps \in Seq(Decoded)
                      /\ DecodeFrom(stream, q).raises \in BOOLEAN
           T == {k \in Nat : k <= N => Good(N - k)}
<1>1. ASSUME NEW k \in Nat, \A m \in Nat : m < k => m \in T PROVE k \in T
  <2> SUFFICES ASSUME k <= N PROVE Good(N - k)
    OBVIOUS
  <2> DEFINE q == N - k
  <2>1. q \in 0..N
    OBVIOUS
  <2>2. CASE NoHeader(stream, q)
    <3> HIDE DEF q
    <3>1. DecodeFrom(stream, q) = [raises |-> FALSE, dps |-> <<>>]
      BY <2>1, <2>2, DecodeEnd
    <3>2. Good(q)
      BY <3>1
    <3> QED BY <3>2 DEF q
  <2>3. CASE ~NoHeader(stream, q) /\ Breaks(stream, q)
    <3> HIDE DEF q
    <3>1. DecodeFrom(stream, q) = [raises |-> TRUE, dps |-> <<>>]
      BY <2>1, <2>3, DecodeBreak
    <3>2. Good(q)
      BY <3>1
    <3> QED BY <3>2 DEF q
  <2>4. CASE ~NoHeader(stream, q) /\ ~Breaks(stream, q)
    <3> DEFINE e == EndAt(stream, q)
    <3>1. /\ e \in 0..N /\ e > q
          /\ DecodeFrom(stream, q) =
               [raises |-> DecodeFrom(stream, e).raises,
                dps |-> <<DpAt(stream, q)>> \o DecodeFrom(stream, e).dps]
      <4> HIDE DEF q
      <4> QED BY <2>1, <2>4, DecodeNext
    <3> HIDE DEF e
    <3>2. N - e \in Nat /\ N - e < k /\ N - (N - e) = e
      BY <3>1
    <3>3. Good(e)
      BY <3>2, <1>1
    <3>4. DpAt(stream, q) \in Decoded
      BY <2>1, <2>4, DpAtDecoded
    <3> HIDE DEF q
    <3>5. <<DpAt(stream, q)>> \in Seq(Decoded)
      BY <3>4
    <3>6. <<DpAt(stream, q)>> \o DecodeFrom(stream, e).dps \in Seq(Decoded)
      BY <3>3, <3>5, ConcatProperties
    <3>7. Good(q)
      BY <3>1, <3>3, <3>6
    <3> QED BY <3>7 DEF q
  <2> QED BY <2>2, <2>3, <2>4
<1>2. N - p \in Nat /\ N - p <= N /\ N - (N - p) = p
  OBVIOUS
<1>3. N - p \in T
  <2> HIDE DEF T
  <2> QED BY <1>1, <1>2, StrongInduct
<1> QED BY <1>2, <1>3

-----------------------------------------------------------------------------
(* The parser: what it has reported so far and what is decoded from where it *)
(* stands are together what is decoded from the start.                       *)

View(dp) == [id |-> dp.id, type |-> dp.type, value |-> dp.value]

\* The last of each id.
LastOfId(dps) ==
  {dps[i] : i \in {k \in 1..Len(dps) : \A j \in k+1..Len(dps) : dps[j].id # dps[k].id}}

\* dps is done, which was reported, and then rest.
Splits(dps, done, rest) ==
  /\ Len(dps) = Len(done) + Len(rest)
  /\ \A i \in 1..Len(done) : done[i] = View(dps[i])
  /\ \A i \in 1..Len(rest) : dps[Len(done) + i] = rest[i]

ParserInv ==
  /\ data \in Seq(Byte) /\ pos \in 0..Len(data)
  /\ result \in {"parsing", "parsed", "FormatError", "LengthError", "UnicodeDecodeError"}
  /\ reported \in Seq({View(dp) : dp \in Decoded})
  /\ Splits(DecodeFrom(data, 0).dps, reported, DecodeFrom(data, pos).dps)
  /\ DecodeFrom(data, 0).raises = DecodeFrom(data, pos).raises
  /\ store = LastOfId(reported)
  /\ result = "parsed" /\ LengthBytes = 2 => NoHeader(data, pos)
  /\ result \notin {"parsing", "parsed"} => ~NoHeader(data, pos) /\ Breaks(data, pos)

LEMMA LastAppend ==
  ASSUME NEW S, NEW dps \in Seq(S), NEW x \in S
  PROVE  LastOfId(Append(dps, x)) = {old \in LastOfId(dps) : old.id # x.id} \cup {x}
<1> DEFINE n == Len(dps)
           all == Append(dps, x)
           LastAt(s, k) == \A j \in k+1..Len(s) : s[j].id # s[k].id
<1>1. n \in Nat /\ Len(all) = n + 1 /\ all[n + 1] = x /\ \A i \in 1..n : all[i] = dps[i]
  OBVIOUS
<1> HIDE DEF all, n
<1>2. LastAt(all, n + 1)
  BY <1>1
<1>3. ASSUME NEW k \in 1..n
      PROVE  LastAt(all, k) <=> LastAt(dps, k) /\ dps[k].id # x.id
  <2>1. ASSUME LastAt(all, k) PROVE LastAt(dps, k) /\ dps[k].id # x.id
    <3>1. \A j \in k+1..n : all[j].id # all[k].id
      BY <2>1, <1>1
    <3>2. \A j \in k+1..n : dps[j].id # dps[k].id
      BY <3>1, <1>1
    <3>3. all[n + 1].id # all[k].id
      BY <2>1, <1>1
    <3>4. dps[k].id # x.id
      BY <3>3, <1>1
    <3> QED BY <3>2, <3>4 DEF n
  <2>2. ASSUME LastAt(dps, k), dps[k].id # x.id PROVE LastAt(all, k)
    <3> SUFFICES ASSUME NEW j \in k+1..Len(all) PROVE all[j].id # all[k].id
      OBVIOUS
    <3>1. CASE j = n + 1
      BY <3>1, <1>1, <2>2
    <3>2. CASE j # n + 1
      <4>1. j \in k+1..n
        BY <3>2, <1>1
      <4>2. dps[j].id # dps[k].id
        BY <4>1, <2>2 DEF n
      <4> QED BY <4>1, <4>2, <1>1
    <3> QED BY <3>1, <3>2
  <2> QED BY <2>1, <2>2
<1> DEFINE Rest == {old \in LastOfId(dps) : old.id # x.id}
<1>4. ASSUME NEW y \in LastOfId(all) PROVE y \in Rest \cup {x}
  <2>1. PICK i \in 1..Len(all) : y = all[i] /\ LastAt(all, i)
    BY DEF LastOfId
  <2>2. CASE i = n + 1
    BY <2>1, <2>2, <1>1
  <2>3. CASE i # n + 1
    <3>1. i \in 1..n /\ y = dps[i]
      BY <2>1, <2>3, <1>1
    <3>2. LastAt(dps, i) /\ dps[i].id # x.id
      BY <3>1, <2>1, <1>3
    <3>3. y \in LastOfId(dps)
      BY <3>1, <3>2 DEF LastOfId, n
    <3> QED BY <3>1, <3>2, <3>3
  <2> QED BY <2>2, <2>3
<1>5. ASSUME NEW y \in Rest \cup {x} PROVE y \in LastOfId(all)
  <2>1. CASE y = x
    <3>1. n + 1 \in 1..Len(all) /\ all[n + 1] = y
      BY <2>1, <1>1
    <3> QED BY <3>1, <1>2 DEF LastOfId
  <2>2. CASE y \in Rest
    <3>1. PICK i \in 1..n : y = dps[i] /\ LastAt(dps, i)
      BY <2>2 DEF LastOfId, n
    <3>2. i \in 1..Len(all) /\ all[i] = y /\ LastAt(all, i)
      BY <3>1, <2>2, <1>1, <1>3
    <3> QED BY <3>2 DEF LastOfId
  <2> QED BY <2>1, <2>2
<1> QED BY <1>4, <1>5 DEF all

LEMMA LastUnique ==
  ASSUME NEW S, NEW dps \in Seq(S)
  PROVE  /\ LastOfId(dps) \subseteq S
         /\ \A a, b \in LastOfId(dps) : a.id = b.id => a = b
<1>1. LastOfId(dps) \subseteq S
  BY DEF LastOfId
<1>2. ASSUME NEW a \in LastOfId(dps), NEW b \in LastOfId(dps), a.id = b.id PROVE a = b
  <2>1. PICK i \in 1..Len(dps) : a = dps[i] /\ \A j \in i+1..Len(dps) : dps[j].id # a.id
    BY DEF LastOfId
  <2>2. PICK k \in 1..Len(dps) : b = dps[k] /\ \A j \in k+1..Len(dps) : dps[j].id # b.id
    BY DEF LastOfId
  <2>3. ~(k > i) /\ ~(i > k)
    BY <1>2, <2>1, <2>2
  <2> QED BY <2>1, <2>2, <2>3
<1> QED BY <1>1, <1>2

LEMMA ParserInit == Init => ParserInv
<1> SUFFICES ASSUME Init PROVE ParserInv
  OBVIOUS
<1>1. /\ data \in Seq(Byte) /\ pos = 0 /\ pos \in 0..Len(data)
      /\ store = {} /\ reported = <<>> /\ result = "parsing"
  BY StreamsAssumption DEF Init
<1>2. DecodeFrom(data, pos).dps \in Seq(Decoded)
  BY <1>1, DecodeType
<1>3. Splits(DecodeFrom(data, 0).dps, reported, DecodeFrom(data, pos).dps)
  BY <1>1, <1>2 DEF Splits
<1>4. LastOfId(reported) = {}
  BY <1>1 DEF LastOfId
<1>5. reported \in Seq({View(dp) : dp \in Decoded})
  BY <1>1
<1> QED BY <1>1, <1>3, <1>4, <1>5 DEF ParserInv

\* What the parser takes for a DP, the decoder does too.
LEMMA ParserAgrees ==
  ASSUME data \in Seq(Byte), pos \in 0..Len(data), HasHeader(Len(data) - pos)
  PROVE  /\ ~NoHeader(data, pos)
         /\ Breaks(data, pos) <=>
              BadType(Type) \/ ValueEnd > Len(data) \/ Undecodable(Type, RawValue)
         /\ ValueEnd = EndAt(data, pos)
         /\ DpAt(data, pos) = [id |-> data[pos + 1], type |-> Type, raw |-> RawValue,
                               value |-> DecodeValue(Type, RawValue)]
<1>1. Header \in {3, 4} /\ Len(data) - pos \in Int
  BY LengthAssumption DEF Header
<1>2. ~NoHeader(data, pos)
  BY <1>1 DEF HasHeader, NoHeader
<1> QED BY <1>2 DEF Breaks, BadType, Type, ValueEnd, RawValue, EndAt, RawAt, DpAt

\* One more DP is reported: it moves from the rest to what is done.
LEMMA SplitsMore ==
  ASSUME NEW dps \in Seq(Decoded), NEW rest \in Seq(Decoded), NEW dp \in Decoded,
         NEW done \in Seq({View(d) : d \in Decoded}), Splits(dps, done, <<dp>> \o rest)
  PROVE  Splits(dps, Append(done, View(dp)), rest)
<1> DEFINE all == <<dp>> \o rest
           more == Append(done, View(dp))
           n == Len(done)
<1>1. /\ Len(all) = 1 + Len(rest) /\ all[1] = dp
      /\ \A i \in 1..Len(rest) : all[i + 1] = rest[i]
  <2>1. <<dp>> \in Seq(Decoded) /\ Len(<<dp>>) = 1 /\ <<dp>>[1] = dp
    OBVIOUS
  <2>2. /\ Len(all) = 1 + Len(rest)
        /\ \A i \in 1..(1 + Len(rest)) : all[i] = IF i <= 1 THEN <<dp>>[i] ELSE rest[i - 1]
    BY <2>1, ConcatProperties
  <2> HIDE DEF all
  <2>3. all[1] = dp
    BY <2>1, <2>2
  <2>4. ASSUME NEW i \in 1..Len(rest) PROVE all[i + 1] = rest[i]
    BY <2>2
  <2> QED BY <2>2, <2>3, <2>4
<1>2. /\ n \in Nat /\ Len(more) = n + 1 /\ more[n + 1] = View(dp)
      /\ \A i \in 1..n : more[i] = done[i]
  OBVIOUS
<1> HIDE DEF all, more, n
<1>3. /\ Len(dps) = n + Len(all)
      /\ \A i \in 1..n : done[i] = View(dps[i])
      /\ \A i \in 1..Len(all) : dps[n + i] = all[i]
  BY DEF Splits, all, n
<1>4. dps[n + 1] = dp
  BY <1>1, <1>3
<1>5. ASSUME NEW i \in 1..(n + 1) PROVE more[i] = View(dps[i])
  <2>1. CASE i = n + 1
    BY <2>1, <1>2, <1>4
  <2>2. CASE i # n + 1
    <3>1. i \in 1..n
      BY <2>2, <1>2
    <3> QED BY <3>1, <1>2, <1>3
  <2> QED BY <2>1, <2>2
<1>6. ASSUME NEW i \in 1..Len(rest) PROVE dps[(n + 1) + i] = rest[i]
  <2>1. i + 1 \in 1..Len(all) /\ n + (i + 1) = (n + 1) + i
    BY <1>1, <1>2
  <2>2. dps[n + (i + 1)] = all[i + 1]
    BY <2>1, <1>3
  <2> QED BY <2>1, <2>2, <1>1
<1>7. Len(dps) = (n + 1) + Len(rest)
  BY <1>1, <1>2, <1>3
<1> QED BY <1>2, <1>5, <1>6, <1>7 DEF Splits, more

LEMMA ParserStep == ParserInv /\ [Next]_vars => ParserInv'
<1> SUFFICES ASSUME ParserInv, [Next]_vars PROVE ParserInv'
  OBVIOUS
<1>1. CASE UNCHANGED vars
  BY <1>1 DEF vars, ParserInv
<1>2. CASE EndReport
  <2>1. /\ UNCHANGED <<data, pos, store, reported>>
        /\ ~HasHeader(Len(data) - pos) /\ result' = "parsed"
    BY <1>2 DEF EndReport
  <2>2. LengthBytes = 2 => NoHeader(data, pos)
    BY <2>1 DEF ParserInv, HasHeader, NoHeader, Header
  <2> QED BY <2>1, <2>2 DEF ParserInv
<1>3. CASE ParseDatapoint
  <2>1. /\ data \in Seq(Byte) /\ pos \in 0..Len(data) /\ HasHeader(Len(data) - pos)
        /\ result = "parsing"
    BY <1>3 DEF ParserInv, ParseDatapoint
  <2>2. CASE Breaks(data, pos)
    <3>1. \E error \in {"FormatError", "LengthError", "UnicodeDecodeError"} : Raise(error)
      <4>1. BadType(Type) \/ ValueEnd > Len(data) \/ Undecodable(Type, RawValue)
        BY <2>1, <2>2, ParserAgrees
      <4>2. ValueEnd > Len(data) <=> ~(ValueEnd <= Len(data))
        BY <2>1, ParserAgrees, LengthAtBounds
      <4> QED BY <1>3, <4>1, <4>2 DEF ParseDatapoint
    <3>2. /\ UNCHANGED <<data, pos, store, reported>>
          /\ result' \in {"FormatError", "LengthError", "UnicodeDecodeError"}
      BY <3>1 DEF Raise
    <3>3. ~NoHeader(data, pos)
      BY <2>1, ParserAgrees
    <3> QED BY <3>2, <3>3, <2>2 DEF ParserInv
  <2>3. CASE ~Breaks(data, pos)
    <3> DEFINE dp == DpAt(data, pos)
               found == [id |-> data[pos + 1], type |-> Type,
                         value |-> DecodeValue(Type, RawValue)]
    <3>1. found = View(dp) /\ ~NoHeader(data, pos) /\ ValueEnd = EndAt(data, pos)
      BY <2>1, ParserAgrees DEF View
    <3>2. /\ store' = Update(found) /\ reported' = Append(reported, found)
          /\ pos' = ValueEnd /\ UNCHANGED <<data, result>>
      <4>1. ~BadType(Type) /\ ~(ValueEnd > Len(data)) /\ ~Undecodable(Type, RawValue)
        BY <2>1, <2>3, ParserAgrees
      <4> QED BY <1>3, <4>1 DEF ParseDatapoint
    <3> HIDE DEF found
    <3>3. dp \in Decoded
      BY <2>1, <2>3, <3>1, DpAtDecoded
    <3>4. /\ pos' \in 0..Len(data)
          /\ DecodeFrom(data, pos).raises = DecodeFrom(data, pos').raises
          /\ DecodeFrom(data, pos).dps = <<dp>> \o DecodeFrom(data, pos').dps
      <4> DEFINE e == EndAt(data, pos)
      <4>1. /\ e \in 0..Len(data)
            /\ DecodeFrom(data, pos) = [raises |-> DecodeFrom(data, e).raises,
                                       dps |-> <<dp>> \o DecodeFrom(data, e).dps]
        BY <2>1, <2>3, <3>1, DecodeNext
      <4>2. pos' = e
        BY <3>1, <3>2
      <4> HIDE DEF e, dp
      <4>3. /\ DecodeFrom(data, pos).raises = DecodeFrom(data, e).raises
            /\ DecodeFrom(data, pos).dps = <<dp>> \o DecodeFrom(data, e).dps
        BY <4>1
      <4> QED BY <4>1, <4>2, <4>3
    <3> HIDE DEF dp
    <3>5. /\ DecodeFrom(data, 0).dps \in Seq(Decoded)
          /\ DecodeFrom(data, pos').dps \in Seq(Decoded)
      BY <2>1, <3>4, DecodeType
    <3>6. Splits(DecodeFrom(data, 0).dps, reported', DecodeFrom(data, pos').dps)
      BY <3>1, <3>2, <3>3, <3>4, <3>5, SplitsMore DEF ParserInv
    <3>7. reported' \in Seq({View(d) : d \in Decoded})
      BY <3>1, <3>2, <3>3 DEF ParserInv
    <3>8. store' = LastOfId(reported')
      <4>1. found \in {View(d) : d \in Decoded}
        BY <3>1, <3>3
      <4>2. store' = {old \in LastOfId(reported) : old.id # found.id} \cup {found}
        BY <3>2 DEF Update, ParserInv
      <4> QED BY <3>2, <4>1, <4>2, LastAppend DEF ParserInv
    <3>9. DecodeFrom(data, 0).raises = DecodeFrom(data, pos').raises
      BY <3>4 DEF ParserInv
    <3> QED BY <2>1, <3>2, <3>4, <3>6, <3>7, <3>8, <3>9 DEF ParserInv
  <2> QED BY <2>2, <2>3
<1> QED BY <1>1, <1>2, <1>3 DEF Next

THEOREM ParserInvariant == Spec => []ParserInv
<1> QED BY ParserInit, ParserStep, PTL DEF Spec

\* A report that was parsed or raised has nothing left that decodes.
LEMMA NothingLeft ==
  ASSUME ParserInv, result # "parsing", LengthBytes = 2
  PROVE  /\ DecodeDatapoints(data).dps \in Seq(Decoded)
         /\ Len(DecodeDatapoints(data).dps) = Len(reported)
         /\ \A i \in 1..Len(reported) : reported[i] = View(DecodeDatapoints(data).dps[i])
         /\ DecodeDatapoints(data).raises = (result # "parsed")
<1>1. data \in Seq(Byte) /\ pos \in 0..Len(data)
  BY DEF ParserInv
<1>2. DecodeFrom(data, pos) = [raises |-> result # "parsed", dps |-> <<>>]
  <2>1. CASE result = "parsed"
    <3>1. DecodeFrom(data, pos) = [raises |-> FALSE, dps |-> <<>>]
      BY <2>1, <1>1, DecodeEnd DEF ParserInv
    <3> QED BY <2>1, <3>1
  <2>2. CASE result # "parsed"
    <3>1. DecodeFrom(data, pos) = [raises |-> TRUE, dps |-> <<>>]
      BY <2>2, <1>1, DecodeBreak DEF ParserInv
    <3> QED BY <2>2, <3>1
  <2> QED BY <2>1, <2>2
<1>3. Len(DecodeFrom(data, pos).dps) = 0 /\ DecodeFrom(data, pos).raises = (result # "parsed")
  BY <1>2
<1>4. DecodeFrom(data, 0).dps \in Seq(Decoded)
  BY <1>1, DecodeType
<1>5. reported \in Seq({View(dp) : dp \in Decoded})
  BY DEF ParserInv
<1> QED BY <1>3, <1>4, <1>5 DEF ParserInv, Splits, DecodeDatapoints

\* What is stored and reported of any stream of bytes has an id, a type and one
\* entry an id (_parse_datapoints_v3, _v4 and _update_from_device).
THEOREM DatapointsTypeCorrect == Spec => []TypeOK
<1>1. ASSUME ParserInv PROVE TypeOK
  <2>1. \A dp \in {View(d) : d \in Decoded} : [id |-> dp.id, type |-> dp.type] \in Stored
    BY DecodedFields DEF View, Stored
  <2>2. reported \in Seq({View(dp) : dp \in Decoded}) /\ store = LastOfId(reported)
    BY <1>1 DEF ParserInv
  <2>3. /\ store \subseteq {View(dp) : dp \in Decoded}
        /\ \A dp, other \in store : dp.id = other.id => dp = other
    BY <2>2, LastUnique
  <2>4. ToSet(reported) \subseteq {View(dp) : dp \in Decoded}
    BY <2>2 DEF ToSet
  <2>5. \A dp \in store \cup ToSet(reported) : [id |-> dp.id, type |-> dp.type] \in Stored
    BY <2>1, <2>3, <2>4
  <2> QED BY <1>1, <2>3, <2>5 DEF ParserInv, TypeOK
<1> QED BY <1>1, ParserInvariant, PTL

\* For v4 reports of any length the parser of the session and decode_datapoints
\* find the same DPs with the same values, or both raise (protocol.py:3-6).
THEOREM ParserMirrorsProtocol ==
  ASSUME LengthBytes = 2 PROVE Spec => []MirrorsProtocol
<1>1. ASSUME ParserInv PROVE MirrorsProtocol
  <2> SUFFICES ASSUME result # "parsing" PROVE MirrorsProtocol
    BY DEF MirrorsProtocol
  <2> DEFINE reference == DecodeDatapoints(data)
             shown == [i \in 1..Len(reference.dps) |->
               [id |-> reference.dps[i].id, type |-> reference.dps[i].type,
                value |-> reference.dps[i].value]]
  <2>1. /\ Len(reference.dps) = Len(reported)
        /\ \A i \in 1..Len(reported) : reported[i] = View(reference.dps[i])
        /\ reference.raises = (result # "parsed")
    BY <1>1, NothingLeft
  <2>2. reported \in Seq({View(dp) : dp \in Decoded})
    BY <1>1 DEF ParserInv
  <2>3. reported = shown
    <3>1. reported = [i \in 1..Len(reported) |-> reported[i]]
      BY <2>2
    <3> HIDE DEF reference
    <3> QED BY <2>1, <3>1 DEF View
  <2> QED BY <2>1, <2>3 DEF MirrorsProtocol
<1> QED BY <1>1, ParserInvariant, PTL

LEMMA StoreIsLatest ==
  ASSUME ParserInv, result # "parsing", LengthBytes = 2
  PROVE  Latest \subseteq Decoded /\ store = {View(dp) : dp \in Latest}
<1> DEFINE found == DecodeDatapoints(data).dps
<1>1. /\ found \in Seq(Decoded) /\ Len(found) = Len(reported) /\ Len(reported) \in Nat
      /\ \A i \in 1..Len(reported) : reported[i] = View(found[i])
  <2>1. reported \in Seq({View(dp) : dp \in Decoded})
    BY DEF ParserInv
  <2> HIDE DEF found
  <2> QED BY <2>1, NothingLeft DEF found
<1>2. Latest = LastOfId(found)
  BY DEF Latest, LastOfId
<1>3. store = LastOfId(reported)
  BY DEF ParserInv
<1> HIDE DEF found
<1>4. ASSUME NEW i \in 1..Len(reported)
      PROVE  (\A j \in i+1..Len(reported) : reported[j].id # reported[i].id)
             <=> (\A j \in i+1..Len(found) : found[j].id # found[i].id)
  <2>1. ASSUME NEW j \in 1..Len(reported) PROVE reported[j].id = found[j].id
    <3>1. reported[j] = View(found[j])
      BY <1>1
    <3>2. View(found[j]).id = found[j].id
      BY DEF View
    <3> QED BY <3>1, <3>2
  <2>2. \A j \in i+1..Len(reported) : j \in 1..Len(reported)
    BY <1>1
  <2> QED BY <1>1, <2>1, <2>2
<1>5. LastOfId(reported) = {View(dp) : dp \in LastOfId(found)}
  <2> DEFINE LastAt(s) == {k \in 1..Len(s) : \A j \in k+1..Len(s) : s[j].id # s[k].id}
  <2>1. LastAt(reported) = LastAt(found)
    BY <1>1, <1>4
  <2>2. \A i \in LastAt(found) : reported[i] = View(found[i])
    BY <1>1
  <2>3. LastOfId(reported) = {reported[i] : i \in LastAt(reported)}
    BY DEF LastOfId
  <2>4. LastOfId(found) = {found[i] : i \in LastAt(found)}
    BY DEF LastOfId
  <2> HIDE DEF LastAt
  <2> QED BY <2>1, <2>2, <2>3, <2>4
<1>6. LastOfId(found) \subseteq Decoded
  BY <1>1, LastUnique
<1> QED BY <1>2, <1>3, <1>5, <1>6

\* After a v4 report, broken off or not, the store holds the last value of each
\* DP before the break and nothing else (_update_from_device).
THEOREM StoreKeepsLatest ==
  ASSUME LengthBytes = 2 PROVE Spec => []StoresUpToBreak
<1>1. ASSUME ParserInv PROVE StoresUpToBreak
  BY <1>1, StoreIsLatest DEF StoresUpToBreak, View
<1> QED BY <1>1, ParserInvariant, PTL

-----------------------------------------------------------------------------
(* Encoding what was decoded. *)

LEMMA ConcatThree ==
  ASSUME NEW S, NEW a \in Seq(S), NEW b \in Seq(S), NEW c \in Seq(S)
  PROVE  /\ a \o b \o c \in Seq(S)
         /\ Len(a \o b \o c) = Len(a) + Len(b) + Len(c)
         /\ \A i \in 1..Len(a) : (a \o b \o c)[i] = a[i]
         /\ \A i \in 1..Len(b) : (a \o b \o c)[Len(a) + i] = b[i]
         /\ \A i \in 1..Len(c) : (a \o b \o c)[Len(a) + Len(b) + i] = c[i]
<1> DEFINE ab == a \o b
           all == ab \o c
<1>1. /\ ab \in Seq(S) /\ Len(ab) = Len(a) + Len(b)
      /\ \A i \in 1..(Len(a) + Len(b)) : ab[i] = IF i <= Len(a) THEN a[i] ELSE b[i - Len(a)]
  BY ConcatProperties
<1> HIDE DEF ab
<1>0. ab \in Seq(S)
  BY <1>1
<1>2. /\ all \in Seq(S) /\ Len(all) = Len(ab) + Len(c)
      /\ \A i \in 1..(Len(ab) + Len(c)) : all[i] = IF i <= Len(ab) THEN ab[i] ELSE c[i - Len(ab)]
  BY <1>0, ConcatProperties
<1> HIDE DEF all
<1>3. Len(a) \in Nat /\ Len(b) \in Nat /\ Len(c) \in Nat
  OBVIOUS
<1>4. ASSUME NEW i \in 1..Len(a) PROVE all[i] = a[i]
  <2>1. i \in 1..(Len(a) + Len(b)) /\ i \in 1..(Len(ab) + Len(c)) /\ i <= Len(a) /\ i <= Len(ab)
    BY <1>1, <1>3
  <2> QED BY <2>1, <1>1, <1>2
<1>5. ASSUME NEW i \in 1..Len(b) PROVE all[Len(a) + i] = b[i]
  <2> DEFINE k == Len(a) + i
  <2>1. /\ k \in 1..(Len(a) + Len(b)) /\ k \in 1..(Len(ab) + Len(c))
        /\ ~(k <= Len(a)) /\ k <= Len(ab) /\ k - Len(a) = i
    BY <1>1, <1>3
  <2> HIDE DEF k
  <2>2. all[k] = b[i]
    BY <2>1, <1>1, <1>2
  <2> QED BY <2>2 DEF k
<1>6. ASSUME NEW i \in 1..Len(c) PROVE all[Len(a) + Len(b) + i] = c[i]
  <2> DEFINE k == Len(a) + Len(b) + i
  <2>1. k \in 1..(Len(ab) + Len(c)) /\ ~(k <= Len(ab)) /\ k - Len(ab) = i
    BY <1>1, <1>3
  <2> HIDE DEF k
  <2>2. all[k] = c[i]
    BY <2>1, <1>2
  <2> QED BY <2>2 DEF k
<1> QED BY <1>1, <1>2, <1>4, <1>5, <1>6 DEF all, ab

LEMMA LengthFieldSeq ==
  ASSUME NEW n \in Nat
  PROVE  LengthField(n) \in Seq(Int) /\ Len(LengthField(n)) = LengthBytes
<1>1. n \div 256 \in Int /\ n % 256 \in Int
  OBVIOUS
<1>2. CASE LengthBytes = 1
  BY <1>2 DEF LengthField
<1>3. CASE LengthBytes = 2
  BY <1>1, <1>3 DEF LengthField
<1> QED BY <1>2, <1>3, LengthAssumption

LEMMA EncodedSeq ==
  ASSUME NEW dp \in Decoded
  PROVE  /\ Encoded(dp) \in Seq(Int)
         /\ Len(Encoded(dp)) = Header + Len(dp.raw)
         /\ Encoded(dp)[1] = dp.id /\ Encoded(dp)[2] = dp.type
         /\ \A i \in 1..LengthBytes : Encoded(dp)[2 + i] = LengthField(Len(dp.raw))[i]
         /\ \A i \in 1..Len(dp.raw) : Encoded(dp)[Header + i] = dp.raw[i]
<1>1. dp.raw \in Seq(Byte) /\ dp.id \in Int /\ dp.type \in Int
  BY DecodedFields, ByteRange DEF DataPointType, DT_RAW, DT_BITMAP
<1>3. dp.raw \in Seq(Int) /\ Len(dp.raw) \in Nat
  BY <1>1, BytesAreInts
<1> DEFINE a == <<dp.id, dp.type>>  b == LengthField(Len(dp.raw))  c == dp.raw
<1>4. a \in Seq(Int) /\ Len(a) = 2 /\ a[1] = dp.id /\ a[2] = dp.type
  BY <1>1
<1>5. b \in Seq(Int) /\ Len(b) = LengthBytes
  BY <1>3, LengthFieldSeq
<1>6. Encoded(dp) = a \o b \o c
  BY DEF Encoded
<1>7. Header = 2 + LengthBytes /\ 1 \in 1..2 /\ 2 \in 1..2
  BY DEF Header
<1> HIDE DEF a, b, c
<1>8. c \in Seq(Int)
  BY <1>3 DEF c
<1> DEFINE S == Int
<1> HIDE DEF S
<1>10. a \in Seq(S) /\ b \in Seq(S) /\ c \in Seq(S)
  BY <1>4, <1>5, <1>8 DEF S
<1> DEFINE all == a \o b \o c
<1>9. all \in Seq(S) /\ Len(all) = Len(a) + Len(b) + Len(c)
  BY <1>10, ConcatThree
<1>11. \A i \in 1..Len(a) : all[i] = a[i]
  BY <1>10, ConcatThree
<1>12. \A i \in 1..Len(b) : all[Len(a) + i] = b[i]
  BY <1>10, ConcatThree
<1>13. \A i \in 1..Len(c) : all[Len(a) + Len(b) + i] = c[i]
  BY <1>10, ConcatThree
<1> HIDE DEF all
<1>14. Encoded(dp) = all
  BY <1>6 DEF all
<1>15. all[1] = dp.id /\ all[2] = dp.type
  BY <1>4, <1>7, <1>11
<1>16. Len(all) = Header + Len(dp.raw)
  BY <1>4, <1>5, <1>7, <1>9 DEF c
<1>17. all \in Seq(Int)
  BY <1>9 DEF S
<1>18. \A i \in 1..LengthBytes : all[2 + i] = LengthField(Len(dp.raw))[i]
  BY <1>4, <1>5, <1>12 DEF b
<1>19. \A i \in 1..Len(dp.raw) : all[Header + i] = dp.raw[i]
  BY <1>4, <1>5, <1>7, <1>13 DEF c
<1> QED BY <1>14, <1>15, <1>16, <1>17, <1>18, <1>19

LEMMA EncodeDef ==
  ASSUME NEW dps \in Seq(Decoded)
  PROVE  \E f \in [0..Len(dps) -> Seq(Int)] :
           /\ EncodeDatapoints(dps) = f[Len(dps)]
           /\ f[0] = <<>>
           /\ \A n \in 1..Len(dps) : f[n] = f[n - 1] \o Encoded(dps[n])
<1> DEFINE N == Len(dps)
           h == [n \in 1..N |-> [x \in Seq(Int) |-> x \o Encoded(dps[n])]]
           Eq(f) == [n \in 0..N |-> IF n = 0 THEN <<>> ELSE f[n - 1] \o Encoded(dps[n])]
           g == CHOOSE f : f = Eq(f)
<1>1. N \in Nat
  OBVIOUS
<1>2. ASSUME NEW n \in 1..N PROVE Encoded(dps[n]) \in Seq(Int)
  <2>1. dps[n] \in Decoded
    OBVIOUS
  <2> QED BY <2>1, EncodedSeq
<1>3. h \in [1..N -> [Seq(Int) -> Seq(Int)]]
  <2>1. ASSUME NEW n \in 1..N, NEW x \in Seq(Int) PROVE x \o Encoded(dps[n]) \in Seq(Int)
    BY <1>2, ConcatProperties
  <2> QED BY <2>1
<1>4. PICK f : Solves(f, N, Seq(Int), <<>>, h)
  <2>1. <<>> \in Seq(Int)
    OBVIOUS
  <2>2. Recursion(N, Seq(Int), <<>>, h)
    <3> HIDE DEF h, N
    <3> QED BY <1>1, <1>3, <2>1 DEF Recursion
  <2> HIDE DEF h, N
  <2> QED BY <2>2, PrimRec
<1>5. f \in [0..N -> Seq(Int)] /\ f[0] = <<>> /\ \A n \in 1..N : f[n] = h[n][f[n - 1]]
  <2> HIDE DEF h, N
  <2> QED BY <1>4 DEF Solves
<1>6. ASSUME NEW n \in 1..N PROVE f[n] = f[n - 1] \o Encoded(dps[n])
  <2>1. n - 1 \in 0..N
    BY <1>1
  <2>2. f[n - 1] \in Seq(Int)
    <3> HIDE DEF h, N
    <3> QED BY <1>5, <2>1
  <2>3. h[n][f[n - 1]] = f[n - 1] \o Encoded(dps[n])
    BY <2>2
  <2> HIDE DEF h, N
  <2> QED BY <1>5, <2>3
<1> HIDE DEF h
<1>7. f = Eq(f)
  <2>1. f = [n \in 0..N |-> f[n]]
    BY <1>5
  <2>2. ASSUME NEW n \in 0..N
        PROVE  f[n] = IF n = 0 THEN <<>> ELSE f[n - 1] \o Encoded(dps[n])
    <3> HIDE DEF N
    <3>1. CASE n = 0
      BY <3>1, <1>5
    <3>2. CASE n # 0
      <4>1. n \in 1..N
        BY <3>2, <1>1
      <4>2. f[n] = f[n - 1] \o Encoded(dps[n])
        BY <4>1, <1>6
      <4> QED BY <3>2, <4>2
    <3> QED BY <3>1, <3>2
  <2> HIDE DEF N
  <2> QED BY <2>1, <2>2
<1>8. g = Eq(g)
  <2> HIDE DEF Eq
  <2> QED BY <1>7
<1>9. EncodeDatapoints(dps) = g[N]
  BY DEF EncodeDatapoints
<1> HIDE DEF g, N
<1>10. g[0] = <<>> /\ g = [n \in 0..N |-> g[n]]
  BY <1>1, <1>8
<1>11. ASSUME NEW n \in 1..N PROVE g[n] = g[n - 1] \o Encoded(dps[n])
  <2>1. n \in 0..N /\ n # 0
    BY <1>1
  <2> QED BY <2>1, <1>8
<1>12. \A n \in 0..N : g[n] \in Seq(Int)
  <2> DEFINE T == {n \in Nat : n <= N => g[n] \in Seq(Int)}
  <2>1. 0 \in T
    <3>1. g[0] \in Seq(Int)
      BY <1>10
    <3> QED BY <3>1
  <2>2. ASSUME NEW n \in Nat, n \in T PROVE n + 1 \in T
    <3> SUFFICES ASSUME n + 1 <= N PROVE g[n + 1] \in Seq(Int)
      OBVIOUS
    <3>1. g[n] \in Seq(Int) /\ n + 1 \in 1..N /\ (n + 1) - 1 = n
      BY <2>2, <1>1
    <3>2. g[n + 1] = g[n] \o Encoded(dps[n + 1])
      BY <3>1, <1>11
    <3> QED BY <3>1, <3>2, <1>2, ConcatProperties
  <2> HIDE DEF T
  <2>3. Nat \subseteq T
    BY <2>1, <2>2, NatInduct
  <2> QED BY <2>3, <1>1 DEF T
<1> QED BY <1>9, <1>10, <1>11, <1>12 DEF N

LEMMA LengthFieldAt ==
  ASSUME NEW stream \in Seq(Byte), NEW p \in 0..Len(stream), ~NoHeader(stream, p)
  PROVE  \A i \in 1..LengthBytes : LengthField(LengthAt(stream, p))[i] = stream[p + 2 + i]
<1>1. CASE LengthBytes = 1
  <2>1. LengthField(LengthAt(stream, p))[1] = stream[p + 3]
    BY <1>1, LengthAtBounds DEF LengthField
  <2> QED BY <1>1, <2>1
<1>2. CASE LengthBytes = 2
  <2> DEFINE a == stream[p + 3]  b == stream[p + 4]  n == LengthAt(stream, p)
  <2>1. p + 3 \in 1..Len(stream) /\ p + 4 \in 1..Len(stream)
    BY <1>2 DEF NoHeader, Header
  <2>2. a \in Int /\ a >= 0 /\ a < 256 /\ b \in Int /\ b >= 0 /\ b < 256
    BY <2>1, ByteSeq
  <2>3. n = a * 256 + b
    BY <1>2, LengthAtBounds
  <2> HIDE DEF a, b, n
  <2>4. n \div 256 = a /\ n % 256 = b
    BY <2>2, <2>3
  <2>5. LengthField(n)[1] = a /\ LengthField(n)[2] = b
    BY <1>2, <2>4 DEF LengthField
  <2> QED BY <1>2, <2>5 DEF a, b, n
<1> QED BY <1>1, <1>2, LengthAssumption

\* A DP encodes to the bytes it was decoded from.
LEMMA EncodedAt ==
  ASSUME NEW stream \in Seq(Byte), NEW p \in 0..Len(stream),
         ~NoHeader(stream, p), ~Breaks(stream, p)
  PROVE  Encoded(DpAt(stream, p)) = SubSeq(stream, p + 1, EndAt(stream, p))
<1> DEFINE dp == DpAt(stream, p)  e == EndAt(stream, p)  n == LengthAt(stream, p)
           bytes == SubSeq(stream, p + 1, e)
<1>1. /\ dp \in Decoded /\ dp.raw = RawAt(stream, p) /\ Len(dp.raw) = n
      /\ dp.id = stream[p + 1] /\ dp.type = stream[p + 2]
      /\ \A i \in 1..n : dp.raw[i] = stream[p + Header + i]
  <2>1. dp.raw = RawAt(stream, p) /\ dp.id = stream[p + 1] /\ dp.type = stream[p + 2]
    BY DEF DpAt
  <2> HIDE DEF dp
  <2>2. dp \in Decoded
    BY DpAtDecoded DEF dp
  <2> QED BY <2>1, <2>2, DpAtDecoded
<1>2. /\ Header \in {3, 4} /\ n \in Nat /\ e = p + Header + n /\ e \in 0..Len(stream)
      /\ Header = 2 + LengthBytes
  BY LengthAtBounds DEF EndAt, Breaks, Header
<1>9. p \in Int /\ LengthBytes \in Int
  BY LengthAssumption
<1>10. Header \in Int /\ Header > 0 /\ n \in Int
  BY <1>2
<1>3. \A i \in 1..LengthBytes : LengthField(n)[i] = stream[p + 2 + i]
  BY LengthFieldAt
<1> HIDE DEF dp, e, n
<1>4. /\ Encoded(dp) \in Seq(Int) /\ Len(Encoded(dp)) = Header + n
      /\ Encoded(dp)[1] = dp.id /\ Encoded(dp)[2] = dp.type
      /\ \A i \in 1..LengthBytes : Encoded(dp)[2 + i] = LengthField(n)[i]
      /\ \A i \in 1..n : Encoded(dp)[Header + i] = dp.raw[i]
  BY <1>1, EncodedSeq
<1>5. /\ bytes \in Seq(Byte) /\ Len(bytes) = Header + n
      /\ \A i \in 1..(Header + n) : bytes[i] = stream[p + i]
  <2> DEFINE m == p + 1
  <2>1. m \in Int /\ e \in Int /\ m <= e /\ e - m + 1 = Header + n
        /\ \A i \in m..e : stream[i] \in Byte
    BY <1>2
  <2>2. /\ bytes \in Seq(Byte) /\ Len(bytes) = IF m <= e THEN e - m + 1 ELSE 0
        /\ \A i \in 1..(e - m + 1) : bytes[i] = stream[m + i - 1]
    <3> HIDE DEF m
    <3>1. bytes = SubSeq(stream, m, e)
      BY DEF m
    <3> HIDE DEF bytes
    <3> QED BY <2>1, <3>1, SubSeqProperties
  <2>3. \A i \in 1..(Header + n) : m + i - 1 = p + i
    BY <1>2
  <2> HIDE DEF m, bytes
  <2>4. Len(bytes) = Header + n
    BY <2>1, <2>2
  <2>5. \A i \in 1..(Header + n) : bytes[i] = stream[m + i - 1]
    BY <2>1, <2>2
  <2> QED BY <2>2, <2>3, <2>4, <2>5
<1> HIDE DEF bytes
<1>6. ASSUME NEW i \in 1..(Header + n) PROVE Encoded(dp)[i] = bytes[i]
  <2>1. bytes[i] = stream[p + i]
    BY <1>5
  <2>2. CASE i = 1
    BY <2>1, <2>2, <1>1, <1>4
  <2>3. CASE i = 2
    BY <2>1, <2>3, <1>1, <1>4
  <2>4. CASE i > 2 /\ i <= Header
    <3> DEFINE k == i - 2
    <3>1. k \in 1..LengthBytes /\ 2 + k = i /\ p + 2 + k = p + i
      BY <2>4, <1>2, <1>9, LengthAssumption
    <3> HIDE DEF k
    <3>2. Encoded(dp)[2 + k] = stream[p + 2 + k]
      BY <3>1, <1>3, <1>4
    <3> QED BY <2>1, <3>1, <3>2
  <2>5. CASE i > Header
    <3> DEFINE k == i - Header
    <3>1. k \in 1..n /\ Header + k = i /\ p + Header + k = p + i
      BY <2>5, <1>9, <1>10
    <3> HIDE DEF k
    <3>2. Encoded(dp)[Header + k] = stream[p + Header + k]
      BY <3>1, <1>1, <1>4
    <3> QED BY <2>1, <3>1, <3>2
  <2> QED BY <2>2, <2>3, <2>4, <2>5, <1>2
<1>7. bytes \in Seq(Int)
  BY <1>5, BytesAreInts
<1>8. Encoded(dp) = bytes
  BY <1>4, <1>5, <1>6, <1>7, SeqEqual
<1> QED BY <1>8 DEF dp, e, bytes

\* After the first k DPs of a stream, which encode to its first p bytes, the
\* others are what is decoded from p on.
Reaches(stream, f, k, p) ==
  LET dps == DecodeFrom(stream, 0).dps
      rest == DecodeFrom(stream, p)
  IN  /\ p \in 0..Len(stream) /\ f[k] = SubSeq(stream, 1, p)
      /\ Len(dps) = k + Len(rest.dps)
      /\ \A i \in 1..Len(rest.dps) : dps[k + i] = rest.dps[i]
      /\ rest.raises = DecodeFrom(stream, 0).raises

LEMMA ReachesNext ==
  ASSUME NEW stream \in Seq(Byte), NEW f, NEW k \in Nat, NEW p, Reaches(stream, f, k, p),
         k + 1 <= Len(DecodeFrom(stream, 0).dps),
         f[k + 1] = f[k] \o Encoded(DecodeFrom(stream, 0).dps[k + 1])
  PROVE  \E e : Reaches(stream, f, k + 1, e)
<1> DEFINE dps == DecodeFrom(stream, 0).dps
           rest == DecodeFrom(stream, p)
           dp == DpAt(stream, p)
           e == EndAt(stream, p)
           after == DecodeFrom(stream, e)
<1>1. /\ p \in 0..Len(stream) /\ f[k] = SubSeq(stream, 1, p)
      /\ Len(dps) = k + Len(rest.dps)
      /\ \A i \in 1..Len(rest.dps) : dps[k + i] = rest.dps[i]
      /\ rest.raises = DecodeFrom(stream, 0).raises
  BY DEF Reaches
<1>2. rest.dps \in Seq(Decoded) /\ Len(rest.dps) \in Nat /\ Len(rest.dps) >= 1
  <2>1. rest.dps \in Seq(Decoded)
    BY <1>1, DecodeType
  <2> HIDE DEF rest
  <2>2. Len(rest.dps) \in Nat
    BY <2>1
  <2> QED BY <1>1, <2>1, <2>2
<1>3. ~NoHeader(stream, p) /\ ~Breaks(stream, p)
  <2>1. NoHeader(stream, p) => rest.dps = <<>>
    BY <1>1, DecodeEnd
  <2>2. ~NoHeader(stream, p) /\ Breaks(stream, p) => rest.dps = <<>>
    BY <1>1, DecodeBreak
  <2> HIDE DEF rest
  <2> QED BY <1>2, <2>1, <2>2
<1>4. /\ e \in 0..Len(stream) /\ e > p
      /\ rest = [raises |-> after.raises, dps |-> <<dp>> \o after.dps]
  BY <1>1, <1>3, DecodeNext
<1>5. dp \in Decoded /\ Encoded(dp) = SubSeq(stream, p + 1, e)
  BY <1>1, <1>3, DpAtDecoded, EncodedAt
<1> HIDE DEF dp, e
<1>6. after.dps \in Seq(Decoded)
  BY <1>4, DecodeType
<1> HIDE DEF after, rest, dps
<1>7. rest.raises = after.raises /\ rest.dps = <<dp>> \o after.dps
  BY <1>4
<1>8. /\ Len(rest.dps) = 1 + Len(after.dps) /\ rest.dps[1] = dp
      /\ \A i \in 1..Len(after.dps) : rest.dps[i + 1] = after.dps[i]
  BY <1>5, <1>6, <1>7
<1>9. dps[k + 1] = dp
  <2>1. 1 \in 1..Len(rest.dps)
    BY <1>2
  <2> QED BY <2>1, <1>1, <1>8
<1>10. f[k + 1] = SubSeq(stream, 1, e)
  <2>1. f[k + 1] = SubSeq(stream, 1, p) \o SubSeq(stream, p + 1, e)
    BY <1>1, <1>5, <1>9 DEF dps
  <2>2. SubSeq(stream, 1, p) \o SubSeq(stream, p + 1, e) = SubSeq(stream, 1, e)
    <3>1. 1 \in 1..(Len(stream) + 1) /\ p \in (1 - 1)..Len(stream) /\ e \in p..Len(stream)
      BY <1>1, <1>4
    <3> QED BY <3>1, ConcatAdjacentSubSeq
  <2> QED BY <2>1, <2>2
<1>11. ASSUME NEW i \in 1..Len(after.dps) PROVE dps[(k + 1) + i] = after.dps[i]
  <2>1. i + 1 \in 1..Len(rest.dps) /\ k + (i + 1) = (k + 1) + i
    BY <1>6, <1>8
  <2>2. dps[k + (i + 1)] = rest.dps[i + 1]
    BY <2>1, <1>1
  <2> QED BY <2>1, <2>2, <1>8
<1>12. Len(dps) = (k + 1) + Len(after.dps)
  <2>1. Len(after.dps) \in Nat /\ Len(rest.dps) = 1 + Len(after.dps)
    BY <1>6, <1>8
  <2>2. Len(dps) = k + Len(rest.dps)
    BY <1>1
  <2> DEFINE a == Len(after.dps)  r == Len(rest.dps)  d == Len(dps)
  <2>3. a \in Nat /\ r = 1 + a /\ d = k + r
    BY <2>1, <2>2
  <2> HIDE DEF a, r, d
  <2>4. d = (k + 1) + a
    BY <2>3
  <2> QED BY <2>4 DEF a, d
<1>13. Reaches(stream, f, k + 1, e)
  BY <1>1, <1>4, <1>7, <1>10, <1>11, <1>12 DEF Reaches, dps, after
<1> QED BY <1>13

\* What decodes encodes to itself again, up to a rest too short for a header.
LEMMA RoundTrip ==
  ASSUME NEW stream \in Seq(Byte)
  PROVE  LET decoded == DecodeDatapoints(stream)
             encoded == EncodeDatapoints(decoded.dps)
         IN  /\ IsPrefix(encoded, stream)
             /\ ~decoded.raises => Len(stream) - Len(encoded) < Header
<1> DEFINE all == DecodeFrom(stream, 0)
           dps == all.dps
           N == Len(dps)
<1>1. 0 \in 0..Len(stream) /\ dps \in Seq(Decoded) /\ N \in Nat
  <2>1. 0 \in 0..Len(stream)
    OBVIOUS
  <2>2. dps \in Seq(Decoded)
    BY <2>1, DecodeType
  <2> HIDE DEF dps
  <2> QED BY <2>1, <2>2
<1>2. PICK f \in [0..N -> Seq(Int)] :
        /\ EncodeDatapoints(dps) = f[N]
        /\ f[0] = <<>>
        /\ \A n \in 1..N : f[n] = f[n - 1] \o Encoded(dps[n])
  <2> HIDE DEF dps
  <2> QED BY <1>1, EncodeDef
<1> DEFINE T == {k \in Nat : k <= N => \E p : Reaches(stream, f, k, p)}
<1>3. 0 \in T
  <2>1. SubSeq(stream, 1, 0) = <<>>
    BY SubSeqEmpty
  <2>2. N = 0 + N /\ \A i \in 1..N : dps[0 + i] = dps[i]
    <3> HIDE DEF dps
    <3> QED BY <1>1
  <2>3. Reaches(stream, f, 0, 0)
    BY <1>1, <1>2, <2>1, <2>2 DEF Reaches
  <2> QED BY <2>3
<1>4. ASSUME NEW k \in Nat, k \in T PROVE k + 1 \in T
  <2> SUFFICES ASSUME k + 1 <= N PROVE \E p : Reaches(stream, f, k + 1, p)
    OBVIOUS
  <2>1. PICK p : Reaches(stream, f, k, p)
    <3> HIDE DEF dps
    <3>1. k <= N
      BY <1>1
    <3> QED BY <1>4, <3>1
  <2>2. f[k + 1] = f[k] \o Encoded(dps[k + 1])
    <3> HIDE DEF dps
    <3>1. k + 1 \in 1..N /\ (k + 1) - 1 = k
      BY <1>1
    <3> QED BY <1>2, <3>1
  <2> QED BY <2>1, <2>2, ReachesNext
<1>5. PICK p : Reaches(stream, f, N, p)
  <2> HIDE DEF T
  <2>1. N \in T
    BY <1>1, <1>3, <1>4, NatInduct
  <2> HIDE DEF dps
  <2> QED BY <2>1, <1>1 DEF T
<1> DEFINE rest == DecodeFrom(stream, p)
<1>6. /\ p \in 0..Len(stream) /\ f[N] = SubSeq(stream, 1, p)
      /\ N = N + Len(rest.dps) /\ rest.raises = all.raises
  BY <1>5 DEF Reaches
<1>7. rest.dps = <<>>
  <2>1. rest.dps \in Seq(Decoded)
    BY <1>6, DecodeType
  <2> HIDE DEF rest, dps
  <2> QED BY <2>1, <1>1, <1>6, EmptySeq
<1>8. ~all.raises => NoHeader(stream, p)
  <2>1. Breaks(stream, p) /\ ~NoHeader(stream, p) => rest.raises
    BY <1>6, DecodeBreak
  <2>2. ~Breaks(stream, p) /\ ~NoHeader(stream, p) => rest.dps # <<>>
    <3> SUFFICES ASSUME ~Breaks(stream, p), ~NoHeader(stream, p) PROVE rest.dps # <<>>
      OBVIOUS
    <3> DEFINE more == DecodeFrom(stream, EndAt(stream, p)).dps
    <3>1. EndAt(stream, p) \in 0..Len(stream) /\ rest.dps = <<DpAt(stream, p)>> \o more
      <4>1. /\ EndAt(stream, p) \in 0..Len(stream)
            /\ rest = [raises |-> DecodeFrom(stream, EndAt(stream, p)).raises,
                       dps |-> <<DpAt(stream, p)>> \o more]
        BY <1>6, DecodeNext
      <4> HIDE DEF rest, more
      <4> QED BY <4>1
    <3>2. more \in Seq(Decoded) /\ DpAt(stream, p) \in Decoded
      BY <1>6, <3>1, DecodeType, DpAtDecoded
    <3> HIDE DEF more, rest
    <3> QED BY <3>1, <3>2
  <2> HIDE DEF rest, all
  <2> QED BY <1>6, <1>7, <2>1, <2>2
<1>9. EncodeDatapoints(dps) = SubSeq(stream, 1, p)
  BY <1>2, <1>6
<1>10. Len(SubSeq(stream, 1, p)) = p /\ IsPrefix(SubSeq(stream, 1, p), stream)
  <2>1. /\ SubSeq(stream, 1, p) \in Seq(Byte) /\ Len(SubSeq(stream, 1, p)) = p
        /\ p <= Len(stream)
    BY <1>6
  <2> DEFINE s == SubSeq(stream, 1, p)
  <2>2. SubSeq(s, 1, p) = s
    <3> HIDE DEF s
    <3>1. s \in Seq(Byte) /\ Len(s) = p
      BY <2>1 DEF s
    <3> QED BY <3>1, SubSeqFull
  <2> HIDE DEF s
  <2> QED BY <2>1, <2>2 DEF IsPrefix, s
<1> QED BY <1>8, <1>9, <1>10 DEF NoHeader, DecodeDatapoints

\* Whatever the board reports, v3 or v4: re-encoding what was decoded gives the
\* report again up to where decoding stopped (encode_datapoints).
THEOREM CodecRoundTrips == Spec => []RoundTrips
<1>1. ASSUME ParserInv PROVE RoundTrips
  <2>1. data \in Seq(Byte)
    BY <1>1 DEF ParserInv
  <2> QED BY <2>1, RoundTrip DEF RoundTrips
<1> QED BY <1>1, ParserInvariant, PTL

-----------------------------------------------------------------------------
(* Numbers that are encoded and decoded again. *)

\* What struct.pack takes for ">i" and for four bytes without a sign.
Int32 == {n \in Int : -2147483648 <= n /\ n <= 2147483647}
Word32 == {n \in Nat : n <= 4294967295}

LEMMA Power3 == 256^2 = 65536 /\ 256^3 = 16777216
BY SMT

LEMMA ToBytesSeq ==
  ASSUME NEW n \in Int, NEW w \in {1, 2, 4}
  PROVE  ToBytes(n, w) \in Seq(Byte) /\ Len(ToBytes(n, w)) = w
<1>1. ASSUME NEW k \in 0..3 PROVE 256^k \in Nat /\ 256^k > 0
  <2>1. CASE k = 0
    BY <2>1
  <2>2. CASE k = 1
    BY <2>2
  <2>3. CASE k = 2
    BY <2>3
  <2>4. CASE k = 3
    BY <2>4
  <2> QED BY <2>1, <2>2, <2>3, <2>4
<1>2. ASSUME NEW i \in 1..w PROVE (n \div 256^(w - i)) % 256 \in Byte
  <2> DEFINE k == w - i
             d == 256^k
  <2>1. k \in 0..3
    OBVIOUS
  <2>2. d \in Nat /\ d > 0
    <3> HIDE DEF k
    <3> QED BY <1>1, <2>1
  <2> HIDE DEF d
  <2>3. n \div d \in Int
    BY <2>2
  <2>4. (n \div d) % 256 \in 0..255
    BY <2>3
  <2> QED BY <2>4 DEF d, Byte
<1> QED BY <1>2 DEF ToBytes

LEMMA ToBytesAt ==
  ASSUME NEW n \in Int
  PROVE  /\ ToBytes(n, 1) = <<n % 256>>
         /\ ToBytes(n, 2) = <<(n \div 256) % 256, n % 256>>
         /\ ToBytes(n, 4) = <<(n \div 256^3) % 256, (n \div 256^2) % 256,
                              (n \div 256) % 256, n % 256>>
<1>1. 256^0 = 1 /\ 256^1 = 256 /\ n \div 1 = n
  OBVIOUS
<1>2. ToBytes(n, 1) = <<n % 256>>
  BY <1>1 DEF ToBytes
<1>3. ToBytes(n, 2) = <<(n \div 256) % 256, n % 256>>
  BY <1>1 DEF ToBytes
<1>4. ToBytes(n, 4) = <<(n \div 256^3) % 256, (n \div 256^2) % 256,
                        (n \div 256) % 256, n % 256>>
  BY <1>1 DEF ToBytes
<1> QED BY <1>2, <1>3, <1>4

LEMMA OneByte ==
  ASSUME NEW b \in Byte PROVE Unsigned(<<b>>) = b
<1>1. <<b>> \in Seq(Byte) /\ Len(<<b>>) = 1 /\ <<b>> # <<>> /\ Head(<<b>>) = b /\ b \in Int
  BY ByteRange
<1>2. FromBytes(b, <<b>>) = b
  BY <1>1, FromBytesUpTo4, ZenonT(60)
<1> QED BY <1>1, <1>2 DEF Unsigned

\* The sign and, of up to four bytes, the range of a signed number.
LEMMA SignedRange ==
  ASSUME NEW raw \in Seq(Byte)
  PROVE  /\ Signed(raw) \in Int
         /\ TopBit(raw) => Signed(raw) < 0
         /\ ~TopBit(raw) => Signed(raw) >= 0 /\ Signed(raw) = Unsigned(raw)
         /\ Len(raw) <= 4 => Signed(raw) \in Int32
<1>1. CASE raw = <<>>
  <2>1. Signed(raw) = 0 /\ Unsigned(raw) = 0 /\ ~TopBit(raw)
    BY <1>1 DEF Signed, Unsigned, TopBit
  <2>2. 0 \in Int32
    BY SMT DEF Int32
  <2> QED BY <2>1, <2>2
<1>2. CASE raw # <<>>
  <2> DEFINE a == raw[1]  first == IF a >= 128 THEN a - 256 ELSE a
  <2>1. Head(raw) = a /\ Len(raw) \in Nat /\ Len(raw) >= 1
    BY <1>2, ByteSeq
  <2>2. a \in Int /\ a >= 0 /\ a < 256
    BY <2>1, ByteSeq
  <2>3. first \in Int /\ first >= -128 /\ first <= 127
    BY <2>2
  <2>4. TopBit(raw) <=> first < 0
    BY <1>2, <2>1, <2>2 DEF TopBit
  <2>5. Signed(raw) = FromBytes(first, raw)
    BY <1>2, <2>1, <2>2 DEF Signed, Unsigned
  <2>6. ~TopBit(raw) => Signed(raw) = Unsigned(raw)
    BY <1>2 DEF TopBit, Signed
  <2> HIDE DEF first
  <2>7. Signed(raw) \in Int /\ (first < 0 => Signed(raw) < 0) /\ (first >= 0 => Signed(raw) >= 0)
    BY <1>2, <2>3, <2>5, FromBytesSign
  <2>8. Len(raw) <= 4 => Signed(raw) \in Int32
    <3> DEFINE b == raw[2]  c == raw[3]  d == raw[4]
    <3>1. /\ Len(raw) >= 2 => b \in Int /\ b >= 0 /\ b < 256
          /\ Len(raw) >= 3 => c \in Int /\ c >= 0 /\ c < 256
          /\ Len(raw) >= 4 => d \in Int /\ d >= 0 /\ d < 256
      BY <2>1, ByteSeq
    <3> HIDE DEF b, c, d
    <3>2. CASE Len(raw) = 1
      <4>1. Signed(raw) = first
        BY <3>2, <2>3, <2>5, FromBytesUpTo4
      <4> QED BY <4>1, <2>3, SMT DEF Int32
    <3>3. CASE Len(raw) = 2
      <4>1. Signed(raw) = first * 256 + b
        BY <3>3, <2>3, <2>5, FromBytesUpTo4 DEF b
      <4> QED BY <3>1, <3>3, <4>1, <2>3, SMT DEF Int32
    <3>4. CASE Len(raw) = 3
      <4>1. Signed(raw) = (first * 256 + b) * 256 + c
        BY <3>4, <2>3, <2>5, FromBytesUpTo4 DEF b, c
      <4> QED BY <3>1, <3>4, <4>1, <2>3, SMT DEF Int32
    <3>5. CASE Len(raw) = 4
      <4>1. Signed(raw) = ((first * 256 + b) * 256 + c) * 256 + d
        BY <3>5, <2>3, <2>5, FromBytesUpTo4 DEF b, c, d
      <4> QED BY <3>1, <3>5, <4>1, <2>3, SMT DEF Int32
    <3>6. Len(raw) <= 4 => Len(raw) \in {1, 2, 3, 4}
      <4> DEFINE n == Len(raw)
      <4>1. n \in Nat /\ n >= 1
        BY <2>1
      <4> HIDE DEF n
      <4>2. n <= 4 => n \in {1, 2, 3, 4}
        BY <4>1
      <4> QED BY <4>2 DEF n
    <3> QED BY <3>2, <3>3, <3>4, <3>5, <3>6
  <2> QED BY <2>3, <2>4, <2>6, <2>7, <2>8
<1> QED BY <1>1, <1>2

\* Four bytes keep every number of 32 bits, with its sign.
LEMMA FourBytes ==
  ASSUME NEW n \in Int32
  PROVE  Signed(ToBytes(n, 4)) = n
<1> DEFINE raw == ToBytes(n, 4)
           q == n \div 256^3
           b == (n \div 256^2) % 256
           c == (n \div 256) % 256
           d == n % 256
           first == IF q % 256 >= 128 THEN (q % 256) - 256 ELSE q % 256
<1>0. n \in Int
  BY SMT DEF Int32
<1>1. /\ raw \in Seq(Byte) /\ Len(raw) = 4
      /\ raw[1] = q % 256 /\ raw[2] = b /\ raw[3] = c /\ raw[4] = d
  <2>1. raw \in Seq(Byte) /\ Len(raw) = 4
    BY <1>0, ToBytesSeq
  <2>2. raw = <<q % 256, b, c, d>>
    BY <1>0, ToBytesAt
  <2> HIDE DEF raw, q, b, c, d
  <2> QED BY <2>1, <2>2
<1>2. q \in Int /\ q >= -128 /\ q <= 127
  BY Power3, SMT DEF Int32
<1>3. first = q
  BY <1>2
<1>4. n = ((q * 256 + b) * 256 + c) * 256 + d
  BY <1>0, Power3, SMT
<1> HIDE DEF raw
<1>5. raw # <<>> /\ Head(raw) = q % 256
  <2>1. raw \in Seq(Byte) /\ Len(raw) = 4 /\ raw[1] = q % 256
    BY <1>1
  <2> HIDE DEF q
  <2>2. raw # <<>>
    <3>1. Len(raw) = 4
      BY <2>1
    <3>2. Len(<<>>) = 0
      OBVIOUS
    <3> QED BY <3>1, <3>2
  <2> QED BY <2>1, <2>2, ByteSeq
<1>6. Signed(raw) = FromBytes(first, raw)
  BY <1>5 DEF Signed, Unsigned
<1> HIDE DEF q, b, c, d, first
<1>7. FromBytes(q, raw) = ((q * 256 + b) * 256 + c) * 256 + d
  BY <1>1, <1>2, FromBytesUpTo4
<1> QED BY <1>3, <1>4, <1>6, <1>7 DEF raw

\* An enum keeps its value in the one, two or four bytes it needs.
LEMMA EnumBytes ==
  ASSUME NEW n \in Nat
  PROVE  /\ n <= 255 => Unsigned(ToBytes(n, 1)) = n
         /\ n <= 65535 => Unsigned(ToBytes(n, 2)) = n
         /\ n \in Word32 => Unsigned(ToBytes(n, 4)) = n
<1>1. n \in Int
  OBVIOUS
<1>2. ASSUME NEW w \in {1, 2, 4}
      PROVE  /\ ToBytes(n, w) \in Seq(Byte) /\ Len(ToBytes(n, w)) = w
             /\ ToBytes(n, w)[1] \in Int
             /\ Unsigned(ToBytes(n, w)) = FromBytes(ToBytes(n, w)[1], ToBytes(n, w))
  <2> DEFINE raw == ToBytes(n, w)
  <2>1. raw \in Seq(Byte) /\ Len(raw) = w
    BY <1>1, ToBytesSeq
  <2> HIDE DEF raw
  <2>2. raw # <<>> /\ Head(raw) = raw[1] /\ raw[1] \in Int
    BY <2>1, ByteSeq
  <2>3. Unsigned(raw) = FromBytes(raw[1], raw)
    BY <2>2 DEF Unsigned
  <2> QED BY <2>1, <2>2, <2>3 DEF raw
<1>3. ASSUME n <= 255 PROVE Unsigned(ToBytes(n, 1)) = n
  <2>1. Unsigned(ToBytes(n, 1)) = ToBytes(n, 1)[1]
    BY <1>2, FromBytesUpTo4
  <2>2. n % 256 = n
    BY <1>3
  <2>3. ToBytes(n, 1)[1] = n % 256
    <3>1. ToBytes(n, 1) = <<n % 256>>
      BY <1>1, ToBytesAt, ZenonT(60)
    <3> QED BY <3>1
  <2> QED BY <2>1, <2>2, <2>3
<1>4. ASSUME n <= 65535 PROVE Unsigned(ToBytes(n, 2)) = n
  <2>1. Unsigned(ToBytes(n, 2)) = ToBytes(n, 2)[1] * 256 + ToBytes(n, 2)[2]
    BY <1>2, FromBytesUpTo4
  <2>2. ToBytes(n, 2)[1] = (n \div 256) % 256 /\ ToBytes(n, 2)[2] = n % 256
    <3>1. ToBytes(n, 2) = <<(n \div 256) % 256, n % 256>>
      BY <1>1, ToBytesAt
    <3> QED BY <3>1
  <2>3. n = ((n \div 256) % 256) * 256 + (n % 256)
    BY <1>4
  <2> QED BY <2>1, <2>2, <2>3
<1>5. ASSUME n \in Word32 PROVE Unsigned(ToBytes(n, 4)) = n
  <2> DEFINE raw == ToBytes(n, 4)
  <2>1. Unsigned(raw) = ((raw[1] * 256 + raw[2]) * 256 + raw[3]) * 256 + raw[4]
    <3>1. raw \in Seq(Byte) /\ Len(raw) = 4 /\ raw[1] \in Int
          /\ Unsigned(raw) = FromBytes(raw[1], raw)
      BY <1>2
    <3> HIDE DEF raw
    <3> QED BY <3>1, FromBytesUpTo4
  <2>2. /\ raw[1] = (n \div 256^3) % 256 /\ raw[2] = (n \div 256^2) % 256
        /\ raw[3] = (n \div 256) % 256 /\ raw[4] = n % 256
    <3>1. raw = <<(n \div 256^3) % 256, (n \div 256^2) % 256, (n \div 256) % 256, n % 256>>
      BY <1>1, ToBytesAt
    <3> HIDE DEF raw
    <3> QED BY <3>1
  <2> HIDE DEF raw
  <2>3. n = ((((n \div 256^3) % 256) * 256 + ((n \div 256^2) % 256)) * 256
             + ((n \div 256) % 256)) * 256 + (n % 256)
    BY <1>5, Power3, SMT DEF Word32
  <2>4. Unsigned(raw) = n
    BY <2>1, <2>2, <2>3
  <2> QED BY <2>4 DEF raw
<1> QED BY <1>3, <1>4, <1>5

\* decode_value undoes encode_value for every number of 32 bits, every truth
\* value and all other bytes (protocol.py:60).
THEOREM DecodeUndoesEncode ==
  /\ \A type \in {DT_VALUE, DT_ENUM}, n \in Int32 : DecodeValue(type, EncodeValue(type, n)) = n
  /\ \A value \in BOOLEAN : DecodeValue(DT_BOOL, EncodeValue(DT_BOOL, value)) = value
  /\ \A type \in DataPointType \ {DT_BOOL, DT_VALUE, DT_ENUM}, raw \in Seq(Byte) :
       DecodeValue(type, EncodeValue(type, raw)) = raw
<1> USE DEF DT_RAW, DT_BOOL, DT_VALUE, DT_STRING, DT_ENUM, DT_BITMAP
<1>1. ASSUME NEW type \in {DT_VALUE, DT_ENUM}, NEW n \in Int32
      PROVE  DecodeValue(type, EncodeValue(type, n)) = n
  <2>1. EncodeValue(type, n) = ToBytes(n, 4)
    BY DEF EncodeValue
  <2>2. DecodeValue(type, ToBytes(n, 4)) = Signed(ToBytes(n, 4))
    BY DEF DecodeValue
  <2> QED BY <2>1, <2>2, FourBytes
<1>2. ASSUME NEW value \in BOOLEAN
      PROVE  DecodeValue(DT_BOOL, EncodeValue(DT_BOOL, value)) = value
  <2>1. EncodeValue(DT_BOOL, value) = IF value THEN <<1>> ELSE <<0>>
    BY DEF EncodeValue
  <2>2. Unsigned(<<1>>) = 1 /\ Unsigned(<<0>>) = 0
    <3>1. 0 \in Byte /\ 1 \in Byte
      BY DEF Byte
    <3> QED BY <3>1, OneByte
  <2>3. DecodeValue(DT_BOOL, <<1>>) = TRUE /\ DecodeValue(DT_BOOL, <<0>>) = FALSE
    <3>1. \A raw : DecodeValue(DT_BOOL, raw) = (Unsigned(raw) # 0)
      BY DEF DecodeValue
    <3>2. (Unsigned(<<1>>) # 0) = TRUE /\ (Unsigned(<<0>>) # 0) = FALSE
      BY <2>2
    <3> QED BY <3>1, <3>2
  <2>4. CASE value = TRUE
    <3>1. EncodeValue(DT_BOOL, value) = <<1>>
      BY <2>1, <2>4
    <3> QED BY <2>3, <2>4, <3>1
  <2>5. CASE value = FALSE
    <3>1. EncodeValue(DT_BOOL, value) = <<0>>
      BY <2>1, <2>5
    <3> QED BY <2>3, <2>5, <3>1
  <2> QED BY <2>4, <2>5
<1>3. ASSUME NEW type \in DataPointType \ {DT_BOOL, DT_VALUE, DT_ENUM}, NEW raw \in Seq(Byte)
      PROVE  DecodeValue(type, EncodeValue(type, raw)) = raw
  BY DEF DecodeValue, EncodeValue
<1> QED BY <1>1, <1>2, <1>3

-----------------------------------------------------------------------------
(* The snapshot. *)

\* The value of a DP that was decoded, by its type.
LEMMA ValueOf ==
  ASSUME NEW dp \in Decoded
  PROVE  /\ dp.type \in {DT_BOOL, DT_VALUE, DT_ENUM} \cup {DT_RAW, DT_STRING, DT_BITMAP}
         /\ dp.type = DT_BOOL => dp.value \in BOOLEAN
         /\ dp.type \in {DT_VALUE, DT_ENUM} => dp.value = Signed(dp.raw) /\ dp.value \in Int
         /\ dp.type \in {DT_RAW, DT_STRING, DT_BITMAP} => dp.value = dp.raw
<1> USE DEF DT_RAW, DT_BOOL, DT_VALUE, DT_STRING, DT_ENUM, DT_BITMAP
<1>1. /\ dp.type \in DataPointType /\ dp.raw \in Seq(Byte)
      /\ dp.value = DecodeValue(dp.type, dp.raw)
  BY DecodedFields
<1>2. dp.type \in 0..5
  BY <1>1 DEF DataPointType
<1>3. dp.type = DT_BOOL => dp.value \in BOOLEAN
  BY <1>1 DEF DecodeValue
<1>4. dp.type \in {DT_VALUE, DT_ENUM} => dp.value = Signed(dp.raw)
  BY <1>1 DEF DecodeValue
<1>5. Signed(dp.raw) \in Int
  BY <1>1, SignedRange
<1>6. dp.type \in {DT_RAW, DT_STRING, DT_BITMAP} => dp.value = dp.raw
  BY <1>1 DEF DecodeValue
<1> QED BY <1>2, <1>3, <1>4, <1>5, <1>6

\* Which values do not pack.
LEMMA PackableValues ==
  ASSUME NEW dp \in Decoded
  PROVE  /\ Negative(dp) => ~Packable(View(dp))
         /\ ~Packable(View(dp)) => Negative(dp) \/ Long(dp)
         /\ Packable(View(dp)) /\ dp.type = DT_VALUE => dp.value \in Int32
         /\ Packable(View(dp)) /\ dp.type = DT_ENUM => dp.value \in Word32
<1> USE DEF DT_VALUE, DT_ENUM
<1> DEFINE v == dp.value
<1>1. /\ View(dp).type = dp.type /\ View(dp).value = v
      /\ dp.raw \in Seq(Byte) /\ Len(dp.raw) \in Nat
  BY DecodedFields DEF View
<1>2. /\ Packable(View(dp)) <=>
           /\ dp.type = DT_VALUE => v \div 65536 >= -32768 /\ v \div 65536 < 32768
           /\ dp.type = DT_ENUM => v >= 0 /\ v \div 65536 < 65536
  BY <1>1 DEF Packable
<1>3. dp.type \in {DT_VALUE, DT_ENUM} =>
        /\ v \in Int
        /\ TopBit(dp.raw) => v < 0
        /\ ~TopBit(dp.raw) => v >= 0
        /\ Len(dp.raw) <= 4 => v \in Int32
  BY <1>1, ValueOf, SignedRange
<1>4. dp.type \in {DT_VALUE, DT_ENUM} /\ ~Long(dp) => Len(dp.raw) <= 4
  BY <1>1 DEF Long
<1>5. Negative(dp) <=> dp.type = DT_ENUM /\ TopBit(dp.raw)
  BY DEF Negative
<1> HIDE DEF v
<1>6. CASE dp.type = DT_VALUE
  <2>1. v \in Int32 <=> v \div 65536 >= -32768 /\ v \div 65536 < 32768
    BY <1>3, <1>6, SMT DEF Int32
  <2> QED BY <1>2, <1>3, <1>4, <1>5, <1>6, <2>1 DEF v
<1>7. CASE dp.type = DT_ENUM
  <2>1. v \in Int /\ (v >= 0 /\ v \div 65536 < 65536 => v \in Word32)
    BY <1>3, <1>7, SMT DEF Word32
  <2>2. v \in Int32 /\ v >= 0 => v \div 65536 < 65536
    BY <2>1, SMT DEF Int32
  <2> QED BY <1>2, <1>3, <1>4, <1>5, <1>7, <2>1, <2>2 DEF v
<1>8. CASE dp.type \notin {DT_VALUE, DT_ENUM}
  BY <1>2, <1>5, <1>8
<1> QED BY <1>6, <1>7, <1>8

\* What is packed decodes to the value, but for an enum whose first byte then
\* has its top bit set.
LEMMA GetValueDecodes ==
  ASSUME NEW dp \in Decoded, Packable(View(dp))
  PROVE  \/ DecodeValue(dp.type, GetValue(View(dp))) = dp.value
         \/ dp.type = DT_ENUM /\ TopBit(GetValue(View(dp)))
<1> USE DEF DT_RAW, DT_BOOL, DT_VALUE, DT_STRING, DT_ENUM, DT_BITMAP
<1> DEFINE v == dp.value  raw == GetValue(View(dp))
<1>1. View(dp).type = dp.type /\ View(dp).value = v
  BY DEF View
<1>2. CASE dp.type = DT_BOOL
  <2>1. v \in BOOLEAN
    BY <1>2, ValueOf
  <2>2. raw = EncodeValue(DT_BOOL, v)
    BY <1>1, <1>2 DEF GetValue, EncodeValue
  <2> QED BY <1>2, <2>1, <2>2, DecodeUndoesEncode
<1>3. CASE dp.type = DT_VALUE
  <2>1. v \in Int32
    BY <1>3, PackableValues
  <2>2. raw = ToBytes(v, 4)
    BY <1>1, <1>3 DEF GetValue
  <2>3. DecodeValue(dp.type, raw) = Signed(raw)
    BY <1>3 DEF DecodeValue
  <2> QED BY <2>1, <2>2, <2>3, FourBytes
<1>4. CASE dp.type = DT_ENUM
  <2> DEFINE w == IF v > 65535 THEN 4 ELSE IF v > 255 THEN 2 ELSE 1
  <2>1. v \in Word32 /\ v \in Nat /\ w \in {1, 2, 4}
    BY <1>4, PackableValues DEF Word32
  <2>2. raw = ToBytes(v, w)
    BY <1>1, <1>4 DEF GetValue
  <2>3. DecodeValue(dp.type, raw) = Signed(raw)
    BY <1>4 DEF DecodeValue
  <2>4. raw \in Seq(Byte)
    <3> HIDE DEF w, raw
    <3>1. v \in Int
      BY <2>1
    <3> QED BY <2>1, <2>2, <3>1, ToBytesSeq
  <2>5. Unsigned(raw) = v
    <3>1. CASE w = 1
      BY <2>1, <2>2, <3>1, EnumBytes
    <3>2. CASE w = 2
      BY <2>1, <2>2, <3>2, EnumBytes
    <3>3. CASE w = 4
      <4> HIDE DEF w
      <4> QED BY <2>1, <2>2, <3>3, EnumBytes
    <3> QED BY <2>1, <3>1, <3>2, <3>3
  <2> HIDE DEF raw, w
  <2>6. TopBit(raw) \/ Signed(raw) = Unsigned(raw)
    BY <2>4, SignedRange
  <2> QED BY <1>4, <2>3, <2>5, <2>6 DEF raw
<1>5. CASE dp.type \in {DT_RAW, DT_STRING, DT_BITMAP}
  <2>1. raw = v
    BY <1>1, <1>5 DEF GetValue
  <2>2. DecodeValue(dp.type, raw) = raw
    BY <1>5 DEF DecodeValue
  <2> QED BY <2>1, <2>2
<1> QED BY <1>2, <1>3, <1>4, <1>5, ValueOf

\* The snapshot of any v4 report fails as a whole if the latest value of an enum
\* begins with a top bit, or else only because of a number of more than four
\* bytes; otherwise it has the latest value of every DP, in bytes that decode to
\* it (_get_value, _snapshot).
THEOREM SnapshotOfLatest ==
  ASSUME LengthBytes = 2 PROVE Spec => []SnapshotDecodes
<1>1. ASSUME ParserInv PROVE SnapshotDecodes
  <2> SUFFICES ASSUME result # "parsing" PROVE SnapshotDecodes
    BY DEF SnapshotDecodes
  <2>1. Latest \subseteq Decoded /\ store = {View(dp) : dp \in Latest}
    BY <1>1, StoreIsLatest
  <2>2. ASSUME NEW dp \in Latest, Negative(dp) PROVE SnapshotRaises
    <3>1. ~Packable(View(dp)) /\ View(dp) \in store
      BY <2>1, <2>2, PackableValues
    <3> QED BY <3>1 DEF SnapshotRaises
  <2>3. ASSUME SnapshotRaises PROVE \E dp \in Latest : Negative(dp) \/ Long(dp)
    <3>1. PICK dp \in Latest : ~Packable(View(dp))
      BY <2>1, <2>3 DEF SnapshotRaises
    <3> QED BY <2>1, <3>1, PackableValues
  <2>4. ASSUME ~SnapshotRaises
        PROVE  /\ {dp.id : dp \in Snapshot} = {dp.id : dp \in Latest}
               /\ \A dp \in Snapshot :
                    DecodeValue(dp.type, dp.raw) = dp.value \/ Negative(dp)
    <3> DEFINE Shot(v) == [id |-> v.id, type |-> v.type, raw |-> GetValue(v), value |-> v.value]
    <3>1. Snapshot = {Shot(View(dp)) : dp \in Latest}
      BY <2>1 DEF Snapshot
    <3>2. ASSUME NEW dp \in Latest
          PROVE  /\ Shot(View(dp)).id = dp.id /\ Shot(View(dp)).type = dp.type
                 /\ Shot(View(dp)).raw = GetValue(View(dp)) /\ Shot(View(dp)).value = dp.value
      BY DEF View
    <3>3. ASSUME NEW dp \in Latest
          PROVE  \/ DecodeValue(Shot(View(dp)).type, Shot(View(dp)).raw) = Shot(View(dp)).value
                 \/ Negative(Shot(View(dp)))
      <4>1. dp \in Decoded /\ Packable(View(dp))
        BY <2>1, <2>4 DEF SnapshotRaises
      <4>2. \/ DecodeValue(dp.type, GetValue(View(dp))) = dp.value
            \/ dp.type = DT_ENUM /\ TopBit(GetValue(View(dp)))
        BY <4>1, GetValueDecodes
      <4> HIDE DEF Shot
      <4> QED BY <3>2, <4>2 DEF Negative
    <3> HIDE DEF Shot
    <3> QED BY <3>1, <3>2, <3>3
  <2> QED BY <2>2, <2>3, <2>4 DEF SnapshotDecodes
<1> QED BY <1>1, ParserInvariant, PTL

-----------------------------------------------------------------------------
(* Integers of seven bits a byte. *)

\* A number of at most four bytes, as _unpack_int takes them.
Low(n) == n % 128
Rest(n) == n \div 128
Fits(n) == n \in Nat /\ Rest(Rest(Rest(n))) < 128

LEMMA LowBits == \A m \in Nat : Low(m) \in Int /\ (m < 128 => Low(m) = m)
BY SMT DEF Low

LEMMA Digit ==
  ASSUME NEW n \in Nat
  PROVE  /\ Rest(n) \in Nat /\ Low(n) \in Nat /\ Low(n) < 128
         /\ n < 128 => Low(n) = n
         /\ n = Low(n) + 128 * Rest(n)
         /\ n < 128 <=> Rest(n) = 0
         /\ Rest(n) <= n
BY SMT DEF Low, Rest

LEMMA FitsBelow ==
  ASSUME NEW n, Fits(n), NEW k \in 0..n
  PROVE  Fits(k)
<1>1. /\ Rest(k) \in Nat /\ Rest(k) <= Rest(n) /\ Rest(n) \in Nat
  BY SMT DEF Rest, Fits
<1>2. Rest(Rest(k)) <= Rest(Rest(n)) /\ Rest(Rest(k)) \in Nat /\ Rest(Rest(n)) \in Nat
  BY <1>1, SMT DEF Rest
<1>3. Rest(Rest(Rest(k))) <= Rest(Rest(Rest(n)))
      /\ Rest(Rest(Rest(k))) \in Nat /\ Rest(Rest(Rest(n))) \in Nat
  BY <1>2, SMT DEF Rest
<1> QED BY <1>3 DEF Fits

\* What PackInt makes of numbers of one to four bytes.
Pack1(n) == <<n>>
Pack2(n) == IF n < 128 THEN <<n>> ELSE <<128 + Low(n)>> \o Pack1(Rest(n))
Pack3(n) == IF n < 128 THEN <<n>> ELSE <<128 + Low(n)>> \o Pack2(Rest(n))
Pack4(n) == IF n < 128 THEN <<n>> ELSE <<128 + Low(n)>> \o Pack3(Rest(n))

LEMMA PackMore ==
  ASSUME NEW n
  PROVE  /\ n < 128 => Pack1(n) = Pack2(n)
         /\ Rest(n) < 128 => Pack2(n) = Pack3(n)
         /\ Rest(Rest(n)) < 128 => Pack3(n) = Pack4(n)
BY DEF Pack1, Pack2, Pack3, Pack4

LEMMA PackIntIs ==
  ASSUME NEW n, Fits(n)
  PROVE  PackInt(n) = Pack4(n)
<1> DEFINE Eq(f) == [k \in 0..n |->
                       IF k < 128 THEN <<k>> ELSE <<128 + (k % 128)>> \o f[k \div 128]]
           pack == CHOOSE f : f = Eq(f)
           g == [k \in 0..n |-> Pack4(k)]
<1>1. ASSUME NEW k \in 0..n PROVE Fits(k) /\ Rest(k) \in 0..n
  <2>1. Fits(k)
    BY FitsBelow
  <2>2. Rest(k) \in Nat /\ Rest(k) <= k
    BY <2>1, Digit DEF Fits
  <2> QED BY <2>1, <2>2 DEF Fits
<1>2. g = Eq(g)
  <2>1. ASSUME NEW k \in 0..n
        PROVE  Pack4(k) = IF k < 128 THEN <<k>> ELSE <<128 + Low(k)>> \o g[k \div 128]
    <3>1. Rest(k) \in 0..n /\ Rest(Rest(Rest(k))) < 128 /\ Rest(k) = k \div 128
      BY <1>1 DEF Fits, Rest
    <3>2. Pack3(Rest(k)) = Pack4(Rest(k))
      BY <3>1, PackMore
    <3>3. g[k \div 128] = Pack3(Rest(k))
      BY <3>1, <3>2
    <3> HIDE DEF g
    <3> QED BY <3>3 DEF Pack4
  <2> QED BY <2>1 DEF Low
<1>3. pack = Eq(pack)
  <2> HIDE DEF g, Eq
  <2> QED BY <1>2
<1>4. PackInt(n) = pack[n]
  BY DEF PackInt
<1> HIDE DEF pack
<1>5. ASSUME NEW k \in 0..n
      PROVE  pack[k] = IF k < 128 THEN <<k>> ELSE <<128 + Low(k)>> \o pack[Rest(k)]
  BY <1>3 DEF Low, Rest
<1> HIDE DEF Eq, g
<1>6. ASSUME NEW k \in 0..n PROVE k < 128 => pack[k] = Pack1(k)
  BY <1>5 DEF Pack1
<1>7. ASSUME NEW k \in 0..n PROVE Rest(k) < 128 => pack[k] = Pack2(k)
  BY <1>1, <1>5, <1>6 DEF Pack2
<1>8. ASSUME NEW k \in 0..n PROVE Rest(Rest(k)) < 128 => pack[k] = Pack3(k)
  BY <1>1, <1>5, <1>7 DEF Pack3
<1>9. ASSUME NEW k \in 0..n PROVE Rest(Rest(Rest(k))) < 128 => pack[k] = Pack4(k)
  BY <1>1, <1>5, <1>8 DEF Pack4
<1>10. n \in 0..n /\ Rest(Rest(Rest(n))) < 128
  BY DEF Fits
<1> QED BY <1>4, <1>9, <1>10

\* Bytes that hold n: all but the last have the top bit.
Holds7(s, n) ==
  /\ s \in Seq(Nat) /\ Len(s) \in 1..4
  /\ s[Len(s)] < 128 /\ \A i \in 1..(Len(s) - 1) : s[i] >= 128
  /\ Len(s) = 1 => n = s[1]
  /\ Len(s) = 2 => n = Low(s[1]) + 128 * s[2]
  /\ Len(s) = 3 => n = Low(s[1]) + 128 * (Low(s[2]) + 128 * s[3])
  /\ Len(s) = 4 => n = Low(s[1]) + 128 * (Low(s[2]) + 128 * (Low(s[3]) + 128 * s[4]))

LEMMA Prepend ==
  ASSUME NEW s \in Seq(Nat), NEW x \in Nat
  PROVE  /\ <<x>> \o s \in Seq(Nat) /\ Len(<<x>> \o s) = 1 + Len(s)
         /\ (<<x>> \o s)[1] = x
         /\ \A i \in 1..Len(s) : (<<x>> \o s)[i + 1] = s[i]
<1> DEFINE a == <<x>>
<1>1. a \in Seq(Nat) /\ Len(a) = 1 /\ a[1] = x
  OBVIOUS
<1> HIDE DEF a
<1> DEFINE all == a \o s
<1>2. /\ all \in Seq(Nat) /\ Len(all) = Len(a) + Len(s)
      /\ \A i \in 1..(Len(a) + Len(s)) :
           all[i] = IF i <= Len(a) THEN a[i] ELSE s[i - Len(a)]
  BY <1>1, ConcatProperties
<1> HIDE DEF all
<1>3. Len(s) \in Nat
  OBVIOUS
<1>4. all[1] = x
  BY <1>1, <1>2, <1>3
<1>5. ASSUME NEW i \in 1..Len(s) PROVE all[i + 1] = s[i]
  <2>1. i + 1 \in 1..(Len(a) + Len(s)) /\ ~(i + 1 <= Len(a)) /\ (i + 1) - Len(a) = i
    BY <1>1, <1>3
  <2> QED BY <1>2, <2>1
<1> QED BY <1>1, <1>2, <1>4, <1>5 DEF all, a

LEMMA HoldsMore ==
  ASSUME NEW n \in Nat, NEW s, Holds7(s, Rest(n)), Len(s) <= 3, n >= 128
  PROVE  /\ Holds7(<<128 + Low(n)>> \o s, n)
         /\ Len(<<128 + Low(n)>> \o s) = 1 + Len(s)
<1> DEFINE x == 128 + Low(n)
           t == <<x>> \o s
<1>1. x \in Nat /\ x >= 128 /\ Low(x) = Low(n)
  BY SMT DEF Low
<1>2. n = Low(n) + 128 * Rest(n)
  BY Digit
<1>3. s \in Seq(Nat) /\ Len(s) \in 1..3
  BY DEF Holds7
<1> HIDE DEF x
<1>4. /\ t \in Seq(Nat) /\ Len(t) = 1 + Len(s) /\ t[1] = x
      /\ \A i \in 1..Len(s) : t[i + 1] = s[i]
  BY <1>1, <1>3, Prepend
<1> HIDE DEF t
<1>5. \A i \in 1..Len(s) : s[i] \in Nat
  BY <1>3
<1>6. n = Low(x) + 128 * Rest(n)
  BY <1>1, <1>2
<1>7. CASE Len(s) = 1
  <2>1. t[2] = s[1] /\ s[1] < 128 /\ Rest(n) = s[1]
    BY <1>4, <1>7 DEF Holds7
  <2> QED BY <1>1, <1>4, <1>6, <1>7, <2>1 DEF Holds7, t, x
<1>8. CASE Len(s) = 2
  <2>1. /\ t[2] = s[1] /\ t[3] = s[2] /\ s[1] >= 128 /\ s[2] < 128
        /\ Rest(n) = Low(s[1]) + 128 * s[2]
    BY <1>4, <1>8 DEF Holds7
  <2>2. n = Low(t[1]) + 128 * (Low(t[2]) + 128 * t[3])
    BY <1>4, <1>6, <2>1
  <2>3. \A i \in 1..2 : t[i] >= 128
    BY <1>1, <1>4, <2>1, SMTT(30)
  <2>4. Holds7(t, n)
    BY <1>4, <1>8, <2>1, <2>2, <2>3 DEF Holds7
  <2> QED BY <1>4, <2>4 DEF t, x
<1>9. CASE Len(s) = 3
  <2>1. /\ t[2] = s[1] /\ t[3] = s[2] /\ t[4] = s[3]
        /\ s[1] >= 128 /\ s[2] >= 128 /\ s[3] < 128
        /\ Rest(n) = Low(s[1]) + 128 * (Low(s[2]) + 128 * s[3])
    BY <1>4, <1>9 DEF Holds7
  <2>2. n = Low(t[1]) + 128 * (Low(t[2]) + 128 * (Low(t[3]) + 128 * t[4]))
    BY <1>4, <1>6, <2>1
  <2>3. \A i \in 1..3 : t[i] >= 128
    BY <1>1, <1>4, <2>1, SMTT(30)
  <2>4. Holds7(t, n)
    BY <1>4, <1>9, <2>1, <2>2, <2>3 DEF Holds7
  <2> QED BY <1>4, <2>4 DEF t, x
<1> QED BY <1>3, <1>7, <1>8, <1>9

LEMMA PackHolds ==
  ASSUME NEW n, Fits(n)
  PROVE  /\ Holds7(PackInt(n), n)
         /\ n < 128 => PackInt(n) = <<n>>
<1>1. n \in Nat /\ Rest(n) \in Nat /\ Rest(Rest(n)) \in Nat
      /\ Rest(Rest(Rest(n))) \in Nat
  BY Digit DEF Fits
<1>2. ASSUME NEW k \in Nat, k < 128 PROVE Holds7(<<k>>, k)
  BY <1>2 DEF Holds7
<1>3. ASSUME NEW k \in Nat, k < 128
      PROVE  Holds7(Pack1(k), k) /\ Len(Pack1(k)) <= 1
  BY <1>2, <1>3 DEF Pack1
<1>4. ASSUME NEW k \in Nat, Rest(k) < 128
      PROVE  Holds7(Pack2(k), k) /\ Len(Pack2(k)) <= 2
  <2>1. CASE k < 128
    BY <1>2, <2>1 DEF Pack2
  <2>2. CASE k >= 128
    <3>1. Rest(k) \in Nat
      BY Digit
    <3>2. Holds7(Pack1(Rest(k)), Rest(k)) /\ Len(Pack1(Rest(k))) <= 1
      BY <1>3, <1>4, <3>1
    <3>3. Pack2(k) = <<128 + Low(k)>> \o Pack1(Rest(k))
      BY <2>2 DEF Pack2
    <3>4. Len(Pack1(Rest(k))) \in Nat
      BY <3>2 DEF Holds7
    <3> QED BY <2>2, <3>2, <3>3, <3>4, HoldsMore
  <2> QED BY <2>1, <2>2
<1>5. ASSUME NEW k \in Nat, Rest(Rest(k)) < 128
      PROVE  Holds7(Pack3(k), k) /\ Len(Pack3(k)) <= 3
  <2>1. CASE k < 128
    BY <1>2, <2>1 DEF Pack3
  <2>2. CASE k >= 128
    <3>1. Rest(k) \in Nat
      BY Digit
    <3>2. Holds7(Pack2(Rest(k)), Rest(k)) /\ Len(Pack2(Rest(k))) <= 2
      BY <1>4, <1>5, <3>1
    <3>3. Pack3(k) = <<128 + Low(k)>> \o Pack2(Rest(k))
      BY <2>2 DEF Pack3
    <3>4. Len(Pack2(Rest(k))) \in Nat
      BY <3>2 DEF Holds7
    <3> QED BY <2>2, <3>2, <3>3, <3>4, HoldsMore
  <2> QED BY <2>1, <2>2
<1>6. ASSUME NEW k \in Nat, Rest(Rest(Rest(k))) < 128
      PROVE  Holds7(Pack4(k), k)
  <2>1. CASE k < 128
    BY <1>2, <2>1 DEF Pack4
  <2>2. CASE k >= 128
    <3>1. Rest(k) \in Nat
      BY Digit
    <3>2. Holds7(Pack3(Rest(k)), Rest(k)) /\ Len(Pack3(Rest(k))) <= 3
      BY <1>5, <1>6, <3>1
    <3>3. Pack4(k) = <<128 + Low(k)>> \o Pack3(Rest(k))
      BY <2>2 DEF Pack4
    <3> QED BY <2>2, <3>2, <3>3, HoldsMore
  <2> QED BY <2>1, <2>2
<1> QED BY <1>1, <1>6, PackIntIs DEF Fits, Pack4

\* The numbers that fit are those below 128^4; the length of every message is
\* one, since the field for the size of its data has 16 bits.
LEMMA FitsIs ==
  ASSUME NEW n \in Nat
  PROVE  Fits(n) <=> n < 128^4
<1>1. 128^4 = 128 * (128 * (128 * 128))
  BY SMT
<1>2. Rest(n) < 128 * (128 * 128) <=> n < 128 * (128 * (128 * 128))
  BY SMT DEF Rest
<1>3. Rest(Rest(n)) < 128 * 128 <=> Rest(n) < 128 * (128 * 128)
  BY SMT DEF Rest
<1>4. Rest(Rest(Rest(n))) < 128 <=> Rest(Rest(n)) < 128 * 128
  BY SMT DEF Rest
<1> QED BY <1>1, <1>2, <1>3, <1>4, SMT DEF Fits

LEMMA MessagesFit ==
  ASSUME NEW size \in Nat, size < 256 * 256
  PROVE  Fits(MessageLength(size)) /\ MessageLength(size) > 0
<1> DEFINE m == MessageLength(size)
<1>1. m \in Nat /\ m > 0 /\ m < 128 * (128 * 128)
  BY SMT DEF MessageLength
<1> HIDE DEF m
<1>2. Rest(m) \in Nat /\ Rest(m) < 128 * 128
  BY <1>1, SMT DEF Rest
<1>3. Rest(Rest(m)) \in Nat /\ Rest(Rest(m)) < 128
  BY <1>2, SMT DEF Rest
<1>4. Rest(Rest(Rest(m))) < 128
  BY <1>3, SMT DEF Rest
<1>5. Fits(m) /\ m > 0
  BY <1>1, <1>4 DEF Fits
<1> QED BY <1>5 DEF m

\* The bytes of s are in bytes from position p on, which counts from 0.
Has(bytes, p, s) ==
  /\ p + Len(s) <= Len(bytes)
  /\ \A i \in 1..Len(s) : bytes[p + i] = s[i]

LEMMA Powers7 ==
  128^0 = 1 /\ 128^1 = 128 /\ 128^2 = 128 * 128 /\ 128^3 = 128 * 128 * 128
BY SMT

\* _unpack_int undoes _pack_int, wherever the bytes are, and finds their end.
LEMMA UnpackHeld ==
  ASSUME NEW bytes \in Seq(Nat), NEW p \in Nat, NEW n \in Nat, NEW s,
         Holds7(s, n), Has(bytes, p, s)
  PROVE  UnpackInt(bytes, p) = <<n, p + Len(s)>>
<1> DEFINE EndsAfter(k) == /\ p + k <= Len(bytes) /\ bytes[p + k] < 128
                           /\ \A i \in 1..k-1 : bytes[p + i] >= 128
           Eq(f) == [k \in 0..4 |->
                       IF k = 0 THEN 0
                       ELSE f[k - 1] + (bytes[p + k] % 128) * 128^(k - 1)]
           value == CHOOSE f : f = Eq(f)
           end == CHOOSE k \in 1..4 : EndsAfter(k)
           L == Len(s)
<1>0. /\ s \in Seq(Nat) /\ L \in 1..4 /\ s[L] < 128
      /\ \A i \in 1..(L - 1) : s[i] >= 128
      /\ L = 1 => n = s[1]
      /\ L = 2 => n = Low(s[1]) + 128 * s[2]
      /\ L = 3 => n = Low(s[1]) + 128 * (Low(s[2]) + 128 * s[3])
      /\ L = 4 => n = Low(s[1]) + 128 * (Low(s[2]) + 128 * (Low(s[3]) + 128 * s[4]))
  BY DEF Holds7
<1>9. p + L <= Len(bytes) /\ \A i \in 1..L : bytes[p + i] = s[i]
  BY DEF Has
<1>10. \A i \in 1..L : s[i] \in Nat
  BY <1>0
<1> HIDE DEF L
<1>1. /\ L \in 1..4 /\ p + L <= Len(bytes)
      /\ \A i \in 1..L : bytes[p + i] = s[i] /\ s[i] \in Nat
  BY <1>0, <1>9, <1>10
<1>2. EndsAfter(L) /\ \A i \in 1..(L - 1) : bytes[p + i] >= 128
  <2>1. L \in 1..L /\ \A i \in 1..(L - 1) : i \in 1..L
    BY <1>1
  <2> QED BY <1>0, <1>1, <2>1
<1>3. ASSUME NEW k \in 1..4, EndsAfter(k) PROVE k = L
  <2>1. CASE k < L
    <3>1. k \in 1..(L - 1) /\ k \in 1..L
      BY <1>1, <2>1
    <3>2. bytes[p + k] >= 128 /\ bytes[p + k] \in Nat
      BY <1>1, <1>2, <3>1
    <3> QED BY <1>3, <3>2
  <2>2. CASE k > L
    <3>1. L \in 1..(k - 1) /\ L \in 1..L
      BY <1>1, <2>2
    <3>2. bytes[p + L] >= 128 /\ bytes[p + L] < 128 /\ bytes[p + L] \in Nat
      BY <1>1, <1>2, <1>3, <3>1
    <3> QED BY <3>2
  <2> QED BY <1>1, <2>1, <2>2
<1>4. end = L
  <2> HIDE DEF EndsAfter
  <2> QED BY <1>1, <1>2, <1>3
<1>5. value = Eq(value)
  <2> DEFINE a1 == 0 + (bytes[p + 1] % 128) * 128^(1 - 1)
             a2 == a1 + (bytes[p + 2] % 128) * 128^(2 - 1)
             a3 == a2 + (bytes[p + 3] % 128) * 128^(3 - 1)
             a4 == a3 + (bytes[p + 4] % 128) * 128^(4 - 1)
             f == [k \in 0..4 |-> IF k = 0 THEN 0 ELSE IF k = 1 THEN a1
                                  ELSE IF k = 2 THEN a2 ELSE IF k = 3 THEN a3 ELSE a4]
  <2>1. f[0] = 0 /\ f[1] = a1 /\ f[2] = a2 /\ f[3] = a3 /\ f[4] = a4
    <3> HIDE DEF a1, a2, a3, a4
    <3> QED OBVIOUS
  <2>2. ASSUME NEW k \in 0..4
        PROVE  f[k] = IF k = 0 THEN 0
                      ELSE f[k - 1] + (bytes[p + k] % 128) * 128^(k - 1)
    <3> DEFINE term(i) == (bytes[p + i] % 128) * 128^(i - 1)
    <3> HIDE DEF f
    <3>2. /\ a1 = 0 + term(1) /\ a2 = a1 + term(2) /\ a3 = a2 + term(3)
          /\ a4 = a3 + term(4)
      OBVIOUS
    <3> HIDE DEF a1, a2, a3, a4, term
    <3>1. k = 0 \/ k = 1 \/ k = 2 \/ k = 3 \/ k = 4
      OBVIOUS
    <3>3. f[k] = IF k = 0 THEN 0 ELSE f[k - 1] + term(k)
      BY <2>1, <3>1, <3>2, SMTT(30)
    <3> QED BY <3>3 DEF term
  <2>3. f = [k \in 0..4 |-> f[k]]
    <3> HIDE DEF a1, a2, a3, a4
    <3> QED OBVIOUS
  <2>4. f = Eq(f)
    <3> HIDE DEF f
    <3> QED BY <2>2, <2>3
  <2> HIDE DEF f, Eq
  <2> QED BY <2>4
<1>6. UnpackInt(bytes, p) = <<value[L], p + L>>
  <2>1. UnpackInt(bytes, p) = IF \E k \in 1..4 : EndsAfter(k)
                             THEN <<value[end], p + end>> ELSE FormatError
    BY DEF UnpackInt
  <2>2. \E k \in 1..4 : EndsAfter(k)
    <3> HIDE DEF EndsAfter
    <3> QED BY <1>1, <1>2
  <2> HIDE DEF value, EndsAfter, end, L
  <2> QED BY <1>4, <2>1, <2>2
<1>7. value[L] = n
  <2>1. /\ value[0] = 0
        /\ value[1] = value[0] + Low(bytes[p + 1]) * 1
        /\ value[2] = value[1] + Low(bytes[p + 2]) * 128
        /\ value[3] = value[2] + Low(bytes[p + 3]) * (128 * 128)
        /\ value[4] = value[3] + Low(bytes[p + 4]) * (128 * 128 * 128)
    <3>1. \A k \in 0..4 : value[k] = IF k = 0 THEN 0
                     ELSE value[k - 1] + Low(bytes[p + k]) * 128^(k - 1)
      <4> HIDE DEF value
      <4> QED BY <1>5 DEF Low
    <3> HIDE DEF value
    <3> QED BY <3>1, Powers7
  <2> HIDE DEF value
  <2>2. s[L] < 128 /\ s[L] \in Nat
    BY <1>0, <1>1, SMTT(30)
  <2>3. \A m \in Nat : Low(m) \in Int /\ (m < 128 => Low(m) = m)
    BY LowBits
  <2>8. Low(s[L]) = s[L]
    BY <2>2, <2>3
  <2>4. CASE L = 1
    <3>1. n = s[1] /\ bytes[p + 1] = s[1] /\ s[1] \in Nat
      BY <1>0, <1>1, <2>4
    <3> QED BY <2>1, <2>8, <2>4, <3>1, SMTT(30)
  <2>5. CASE L = 2
    <3>1. n = Low(s[1]) + 128 * s[2] /\ bytes[p + 1] = s[1] /\ bytes[p + 2] = s[2]
          /\ s[1] \in Nat /\ s[2] \in Nat
      BY <1>0, <1>1, <2>5
    <3> DEFINE x == Low(s[1])  y == s[2]
    <3>5. s[1] \in Nat /\ s[2] \in Nat
      BY <3>1
    <3>2. x \in Int /\ y \in Int
      BY <2>3, <3>5
    <3>3. value[1] = 0 + x * 1 /\ value[2] = value[1] + y * 128
      BY <2>1, <2>5, <2>8, <3>1, SMTT(30)
    <3>4. n = x + 128 * y
      BY <3>1
    <3> HIDE DEF x, y
    <3> QED BY <2>5, <3>2, <3>3, <3>4
  <2>6. CASE L = 3
    <3>1. /\ n = Low(s[1]) + 128 * (Low(s[2]) + 128 * s[3])
          /\ bytes[p + 1] = s[1] /\ bytes[p + 2] = s[2] /\ bytes[p + 3] = s[3]
          /\ s[1] \in Nat /\ s[2] \in Nat /\ s[3] \in Nat
      BY <1>0, <1>1, <2>6
    <3> DEFINE x == Low(s[1])  y == Low(s[2])  z == s[3]
    <3>5. s[1] \in Nat /\ s[2] \in Nat /\ s[3] \in Nat
      BY <3>1
    <3>2. x \in Int /\ y \in Int /\ z \in Int
      BY <2>3, <3>5, SMTT(30)
    <3>6. value[1] = 0 + x * 1
      BY <2>1, <3>1
    <3>7. value[2] = value[1] + y * 128
      BY <2>1, <3>1
    <3>8. z = Low(bytes[p + 3])
      BY <2>6, <2>8, <3>1
    <3>9. value[3] = value[2] + z * (128 * 128)
      BY <2>1, <3>8
    <3>3. /\ value[1] = 0 + x * 1 /\ value[2] = value[1] + y * 128
          /\ value[3] = value[2] + z * (128 * 128)
      BY <3>6, <3>7, <3>9
    <3>4. n = x + 128 * (y + 128 * z)
      BY <3>1
    <3> HIDE DEF x, y, z
    <3> QED BY <2>6, <3>2, <3>3, <3>4
  <2>7. CASE L = 4
    <3>1. /\ n = Low(s[1]) + 128 * (Low(s[2]) + 128 * (Low(s[3]) + 128 * s[4]))
          /\ bytes[p + 1] = s[1] /\ bytes[p + 2] = s[2] /\ bytes[p + 3] = s[3]
          /\ bytes[p + 4] = s[4]
          /\ s[1] \in Nat /\ s[2] \in Nat /\ s[3] \in Nat /\ s[4] \in Nat
      BY <1>0, <1>1, <2>7
    <3> DEFINE x == Low(s[1])  y == Low(s[2])  z == Low(s[3])  w == s[4]
    <3>5. s[1] \in Nat /\ s[2] \in Nat /\ s[3] \in Nat /\ s[4] \in Nat
      BY <3>1
    <3>6. x \in Int /\ y \in Int
      BY <2>3, <3>5
    <3>7. z \in Int /\ w \in Int
      BY <2>3, <3>5, SMTT(30)
    <3>8. value[1] = 0 + x * 1
      BY <2>1, <3>1
    <3>9. value[2] = value[1] + y * 128
      BY <2>1, <3>1
    <3>10. value[3] = value[2] + z * (128 * 128)
      BY <2>1, <3>1
    <3>11. w = Low(bytes[p + 4])
      BY <2>7, <2>8, <3>1
    <3>12. value[4] = value[3] + w * (128 * 128 * 128)
      BY <2>1, <3>11
    <3>3. /\ value[1] = 0 + x * 1 /\ value[2] = value[1] + y * 128
          /\ value[3] = value[2] + z * (128 * 128)
          /\ value[4] = value[3] + w * (128 * 128 * 128)
      BY <3>8, <3>9, <3>10, <3>12
    <3>4. n = x + 128 * (y + 128 * (z + 128 * w))
      BY <3>1
    <3> HIDE DEF x, y, z, w
    <3> QED BY <2>7, <3>3, <3>4, <3>6, <3>7
  <2> QED BY <1>1, <2>4, <2>5, <2>6, <2>7
<1> HIDE DEF value
<1> QED BY <1>6, <1>7 DEF L

\* Numbers of up to 28 bits survive _pack_int and _unpack_int, which finds where
\* their bytes end (tuya_ble.py:735).
THEOREM IntegersUnpacked ==
  ASSUME NEW bytes \in Seq(Nat), NEW p \in Nat, NEW n, Fits(n),
         Has(bytes, p, PackInt(n))
  PROVE  /\ UnpackInt(bytes, p) = <<n, p + Len(PackInt(n))>>
         /\ Len(PackInt(n)) \in 1..4
<1>1. n \in Nat /\ Holds7(PackInt(n), n)
  BY PackHolds DEF Fits
<1> QED BY <1>1, UnpackHeld DEF Holds7

-----------------------------------------------------------------------------
(* The header of a packet, and where the packets of a message end in it. *)

LEMMA Concat ==
  ASSUME NEW a \in Seq(Nat), NEW b \in Seq(Nat)
  PROVE  /\ a \o b \in Seq(Nat) /\ Len(a \o b) = Len(a) + Len(b)
         /\ \A i \in 1..Len(a) : (a \o b)[i] = a[i]
         /\ \A i \in 1..Len(b) : (a \o b)[Len(a) + i] = b[i]
<1> DEFINE ab == a \o b
<1>1. /\ ab \in Seq(Nat) /\ Len(ab) = Len(a) + Len(b)
      /\ \A i \in 1..(Len(a) + Len(b)) :
           ab[i] = IF i <= Len(a) THEN a[i] ELSE b[i - Len(a)]
  BY ConcatProperties
<1> HIDE DEF ab
<1>2. Len(a) \in Nat /\ Len(b) \in Nat
  OBVIOUS
<1>3. ASSUME NEW i \in 1..Len(a) PROVE ab[i] = a[i]
  BY <1>1, <1>2
<1>4. ASSUME NEW i \in 1..Len(b) PROVE ab[Len(a) + i] = b[i]
  <2> DEFINE k == Len(a) + i
  <2>1. k \in 1..(Len(a) + Len(b)) /\ ~(k <= Len(a)) /\ k - Len(a) = i
    BY <1>2
  <2> HIDE DEF k
  <2>2. ab[k] = b[i]
    BY <1>1, <2>1
  <2> QED BY <2>2 DEF k
<1> QED BY <1>1, <1>3, <1>4 DEF ab

LEMMA HeadIs ==
  ASSUME NEW num, Fits(num), NEW length, Fits(length), NEW version \in Nat
  PROVE  LET head == PacketHead(num, length, version)
         IN  /\ head \in Seq(Nat)
             /\ num # 0 => head = PackInt(num)
             /\ num = 0 => /\ Has(head, 0, <<0>>) /\ Has(head, 1, PackInt(length))
                           /\ Len(head) = Len(PackInt(length)) + 2
<1>1. /\ PackInt(num) \in Seq(Nat) /\ PackInt(length) \in Seq(Nat)
      /\ num < 128 => PackInt(num) = <<num>>
  BY PackHolds DEF Holds7
<1>2. CASE num # 0
  <2>1. PacketHead(num, length, version) = PackInt(num) \o <<>>
    BY <1>2 DEF PacketHead
  <2>2. PackInt(num) \o <<>> = PackInt(num)
    BY <1>1, ConcatEmptySeq
  <2> QED BY <1>1, <1>2, <2>1, <2>2
<1>3. CASE num = 0
  <2> DEFINE p == PackInt(length)
             a == <<0>>
             b == <<version * 16>>
             c == p \o b
             head == a \o c
  <2>1. PacketHead(num, length, version) = head
    <3>1. PackInt(num) = <<0>>
      BY <1>1, <1>3
    <3> QED BY <1>3, <3>1 DEF PacketHead
  <2>2. a \in Seq(Nat) /\ Len(a) = 1 /\ a[1] = 0 /\ b \in Seq(Nat) /\ Len(b) = 1
    <3>1. version * 16 \in Nat
      OBVIOUS
    <3> QED BY <3>1
  <2>3. p \in Seq(Nat) /\ Len(p) \in Nat
    BY <1>1
  <2> HIDE DEF p, a, b
  <2>4. /\ c \in Seq(Nat) /\ Len(c) = Len(p) + 1
        /\ \A i \in 1..Len(p) : c[i] = p[i]
    <3>1. c \in Seq(Nat) /\ Len(c) = Len(p) + Len(b)
      BY <2>2, <2>3, Concat
    <3>2. \A i \in 1..Len(p) : c[i] = p[i]
      BY <2>2, <2>3, Concat
    <3> QED BY <2>2, <3>1, <3>2
  <2> HIDE DEF c
  <2>5. /\ head \in Seq(Nat) /\ Len(head) = 1 + Len(c)
        /\ \A i \in 1..1 : head[i] = a[i]
        /\ \A i \in 1..Len(c) : head[1 + i] = c[i]
    <3>1. c \in Seq(Nat)
      BY <2>4
    <3>2. head \in Seq(Nat) /\ Len(head) = Len(a) + Len(c)
      BY <2>2, <3>1, Concat
    <3>3. /\ \A i \in 1..Len(a) : head[i] = a[i]
          /\ \A i \in 1..Len(c) : head[Len(a) + i] = c[i]
      BY <2>2, <3>1, Concat
    <3> HIDE DEF head
    <3> QED BY <2>2, <3>2, <3>3
  <2> HIDE DEF head
  <2>6. Len(head) = Len(p) + 2
    BY <2>3, <2>4, <2>5
  <2>7. Has(head, 1, p)
    <3>1. ASSUME NEW i \in 1..Len(p) PROVE head[1 + i] = p[i]
      <4>1. i \in 1..Len(c)
        BY <2>3, <2>4
      <4> QED BY <2>4, <2>5, <4>1
    <3> QED BY <2>3, <2>6, <3>1 DEF Has
  <2>8. Has(head, 0, a)
    <3>1. head[1] = a[1] /\ 0 + 1 = 1
      BY <2>5
    <3>2. \A i \in 1..Len(a) : i = 1
      BY <2>2
    <3>3. 0 + Len(a) <= Len(head)
      BY <2>2, <2>3, <2>6
    <3> QED BY <3>1, <3>2, <3>3 DEF Has
  <2> QED BY <1>3, <2>1, <2>5, <2>6, <2>7, <2>8 DEF a, p
<1> QED BY <1>2, <1>3

\* What is in a sequence is there too when more is appended.
LEMMA HasMore ==
  ASSUME NEW head \in Seq(Nat), NEW part \in Seq(Nat), NEW p \in Nat,
         NEW s \in Seq(Nat), Has(head, p, s)
  PROVE  Has(head \o part, p, s)
<1> DEFINE bytes == head \o part
<1>1. /\ bytes \in Seq(Nat) /\ Len(bytes) = Len(head) + Len(part)
      /\ \A i \in 1..Len(head) : bytes[i] = head[i]
  BY Concat
<1>2. Len(head) \in Nat /\ Len(part) \in Nat /\ Len(s) \in Nat
  OBVIOUS
<1> HIDE DEF bytes
<1>3. p + Len(s) <= Len(head) /\ \A i \in 1..Len(s) : head[p + i] = s[i]
  BY DEF Has
<1>4. ASSUME NEW i \in 1..Len(s) PROVE bytes[p + i] = s[i]
  <2>1. p + i \in 1..Len(head)
    BY <1>2, <1>3
  <2> QED BY <1>1, <1>3, <2>1
<1>5. p + Len(s) <= Len(bytes)
  BY <1>1, <1>2, <1>3
<1> QED BY <1>4, <1>5 DEF Has, bytes

\* _notification_handler reads of a packet the number, the length and the
\* position of the data that _build_packets put into it (tuya_ble.py:1299).
THEOREM HeadsAreRead ==
  ASSUME NEW num, Fits(num), NEW length, Fits(length), NEW version \in Nat,
         NEW part \in Seq(Nat)
  PROVE  ReadHead(PacketHead(num, length, version) \o part) =
           <<num, IF num = 0 THEN length ELSE 0,
             Len(PacketHead(num, length, version))>>
<1> DEFINE head == PacketHead(num, length, version)
           packet == head \o part
<1>1. /\ head \in Seq(Nat)
      /\ num # 0 => head = PackInt(num)
      /\ num = 0 => /\ Has(head, 0, <<0>>) /\ Has(head, 1, PackInt(length))
                    /\ Len(head) = Len(PackInt(length)) + 2
  BY HeadIs
<1>2. num \in Nat /\ PackInt(num) \in Seq(Nat) /\ PackInt(length) \in Seq(Nat)
      /\ (num < 128 => PackInt(num) = <<num>>)
      /\ Len(PackInt(length)) \in Nat
  BY PackHolds DEF Holds7, Fits
<1> HIDE DEF head
<1>3. packet \in Seq(Nat)
  BY <1>1, Concat
<1>4. ReadHead(packet) =
        IF UnpackInt(packet, 0)[1] = 0
        THEN <<0, UnpackInt(packet, UnpackInt(packet, 0)[2])[1],
               UnpackInt(packet, UnpackInt(packet, 0)[2])[2] + 1>>
        ELSE <<UnpackInt(packet, 0)[1], 0, UnpackInt(packet, 0)[2]>>
  BY DEF ReadHead
<1>5. CASE num = 0
  <2>1. PackInt(num) = <<0>> /\ Len(<<0>>) = 1
    BY <1>2, <1>5
  <2>2. Has(packet, 0, PackInt(num)) /\ Has(packet, 1, PackInt(length))
    BY <1>1, <1>2, <1>5, <2>1, HasMore
  <2> HIDE DEF packet
  <2>3. UnpackInt(packet, 0) = <<num, 0 + Len(PackInt(num))>>
    BY <1>3, <2>2, IntegersUnpacked
  <2>4. UnpackInt(packet, 1) = <<length, 1 + Len(PackInt(length))>>
    BY <1>3, <2>2, IntegersUnpacked
  <2>5. UnpackInt(packet, 0)[1] = 0 /\ UnpackInt(packet, 0)[2] = 1
    <3>1. 0 + Len(PackInt(num)) = 1
      BY <2>1
    <3>2. UnpackInt(packet, 0) = <<num, 1>>
      BY <2>3, <3>1
    <3> QED BY <1>5, <3>2
  <2>6. ReadHead(packet) = <<0, length, (1 + Len(PackInt(length))) + 1>>
    BY <1>4, <2>4, <2>5
  <2>7. (1 + Len(PackInt(length))) + 1 = Len(head)
    BY <1>1, <1>2, <1>5
  <2> QED BY <1>5, <2>6, <2>7 DEF packet, head
<1>6. CASE num # 0
  <2>1. Has(head, 0, PackInt(num))
    <3>1. \A i \in 1..Len(head) : 0 + i = i
      OBVIOUS
    <3>2. 0 + Len(head) <= Len(head)
      BY <1>1
    <3> QED BY <1>1, <1>6, <3>1, <3>2 DEF Has
  <2>2. Has(packet, 0, PackInt(num))
    BY <1>1, <1>2, <2>1, HasMore
  <2> HIDE DEF packet
  <2>3. UnpackInt(packet, 0) = <<num, 0 + Len(PackInt(num))>>
    BY <1>3, <2>2, IntegersUnpacked
  <2>4. 0 + Len(PackInt(num)) = Len(head)
    <3>1. Len(PackInt(num)) \in Nat
      BY <1>2
    <3> QED BY <1>1, <1>6, <3>1
  <2>5. UnpackInt(packet, 0)[1] = num /\ UnpackInt(packet, 0)[2] = Len(head)
    BY <2>3, <2>4
  <2> QED BY <1>4, <1>6, <2>5 DEF packet, head
<1> QED BY <1>5, <1>6

\* The room for data in the packet of a number: at least three bytes.
RoomIn(num, length) == GATT_MTU - Len(PacketHead(num, length, 0))

LEMMA RoomLeft ==
  ASSUME NEW num, Fits(num), NEW length, Fits(length), NEW version \in Nat
  PROVE  /\ Len(PacketHead(num, length, version)) = Len(PacketHead(num, length, 0))
         /\ Len(PacketHead(num, length, version)) \in Nat
         /\ RoomIn(num, length) \in Nat /\ RoomIn(num, length) > 0
<1>1. Len(PackInt(num)) \in 1..4 /\ Len(PackInt(length)) \in 1..4
  BY PackHolds DEF Holds7
<1>2. ASSUME NEW v \in Nat
      PROVE  Len(PacketHead(num, length, v)) =
               IF num = 0 THEN Len(PackInt(length)) + 2 ELSE Len(PackInt(num))
  BY HeadIs
<1> DEFINE p == Len(PackInt(num))
           q == Len(PackInt(length))
           size(v) == Len(PacketHead(num, length, v))
           s == IF num = 0 THEN q + 2 ELSE p
<1> HIDE DEF p, q, size
<1>3. \A v \in Nat : size(v) = s
  BY <1>2 DEF p, q, size
<1>4. s \in Nat /\ s <= 6
  <2>1. p \in 1..4 /\ q \in 1..4
    BY <1>1 DEF p, q
  <2> QED BY <2>1
<1> HIDE DEF s
<1>5. RoomIn(num, length) \in Nat /\ RoomIn(num, length) > 0
  <2>1. RoomIn(num, length) = GATT_MTU - s
    BY <1>3 DEF RoomIn, size
  <2> QED BY <1>4, <2>1, MtuAssumption
<1>6. /\ Len(PacketHead(num, length, version)) = Len(PacketHead(num, length, 0))
      /\ Len(PacketHead(num, length, version)) \in Nat
  BY <1>3, <1>4 DEF size
<1> QED BY <1>5, <1>6

\* DataEnds takes full packets as long as they leave something over: full[n] is
\* what n of them hold.
Fills(full, count, length) ==
  /\ full \in [0..length -> Nat] /\ full[0] = 0
  /\ \A n \in 1..length : full[n] = full[n - 1] + RoomIn(n - 1, length)
  /\ count \in 1..length /\ full[count - 1] < length /\ full[count] >= length
  /\ DataEnds(length) = [i \in 1..count |-> IF i < count THEN full[i] ELSE length]

LEMMA DataEndsIs ==
  ASSUME NEW length, Fits(length), length > 0
  PROVE  \E full, count : Fills(full, count, length)
<1> DEFINE room(num) == RoomIn(num, length)
           h == [n \in 1..length |-> [x \in Nat |-> x + room(n - 1)]]
           Eq(f) == [n \in 0..length |-> IF n = 0 THEN 0 ELSE f[n - 1] + room(n - 1)]
           full == CHOOSE f : f = Eq(f)
           Enough(n) == full[n - 1] < length /\ full[n] >= length
           count == CHOOSE n \in 1..length : Enough(n)
<1>1. length \in Nat \ {0}
  BY DEF Fits
<1>2. ASSUME NEW num \in 0..length PROVE room(num) \in Nat /\ room(num) > 0
  <2>1. Fits(num)
    BY <1>2, FitsBelow
  <2> QED BY <2>1, RoomLeft
<1> HIDE DEF room
<1>3. PICK f : Solves(f, length, Nat, 0, h)
  <2>1. ASSUME NEW n \in 1..length, NEW x \in Nat PROVE x + room(n - 1) \in Nat
    <3>1. n - 1 \in 0..length
      BY <1>1
    <3>2. room(n - 1) \in Nat
      BY <1>2, <3>1
    <3> QED BY <3>2
  <2>2. h \in [1..length -> [Nat -> Nat]]
    BY <2>1
  <2> HIDE DEF h
  <2>3. Recursion(length, Nat, 0, h)
    BY <1>1, <2>2 DEF Recursion
  <2> QED BY <2>3, PrimRec
<1>4. f = Eq(f)
  <2>1. ASSUME NEW n \in 0..length
        PROVE  f[n] = IF n = 0 THEN 0 ELSE f[n - 1] + room(n - 1)
    <3>1. CASE n = 0
      BY <1>3, <3>1 DEF Solves
    <3>2. CASE n # 0
      <4>1. n \in 1..length /\ n - 1 \in 0..length
        BY <1>1, <3>2
      <4>2. f[n] = h[n][f[n - 1]]
        BY <1>3, <4>1 DEF Solves
      <4>3. f[n - 1] \in Nat
        <5> HIDE DEF h
        <5> QED BY <1>3, <4>1 DEF Solves
      <4> QED BY <3>2, <4>1, <4>2, <4>3
    <3> QED BY <3>1, <3>2
  <2>2. f = [n \in 0..length |-> f[n]]
    <3> HIDE DEF h
    <3> QED BY <1>3 DEF Solves
  <2> HIDE DEF h
  <2> QED BY <2>1, <2>2
<1>5. full = Eq(full)
  <2> HIDE DEF Eq, h
  <2> QED BY <1>4
<1>6. DataEnds(length) = [i \in 1..count |-> IF i < count THEN full[i] ELSE length]
  BY DEF DataEnds, room, RoomIn
<1> HIDE DEF full
<1>7. /\ full[0] = 0
      /\ \A n \in 1..length : full[n] = full[n - 1] + room(n - 1)
  <2>1. 0 \in 0..length
    BY <1>1
  <2>2. \A n \in 0..length : full[n] = IF n = 0 THEN 0 ELSE full[n - 1] + room(n - 1)
    BY <1>5
  <2>3. \A n \in 1..length : n \in 0..length /\ n # 0
    BY <1>1
  <2> QED BY <2>1, <2>2, <2>3
<1>8. full = [n \in 0..length |-> full[n]]
  BY <1>5
<1> HIDE DEF Eq
<1>9. \A n \in 0..length : full[n] \in Nat /\ full[n] >= n
  <2> DEFINE T == {n \in Nat : n <= length => full[n] \in Nat /\ full[n] >= n}
  <2>1. 0 \in T
    BY <1>7
  <2>2. ASSUME NEW n \in Nat, n \in T PROVE n + 1 \in T
    <3> SUFFICES ASSUME n + 1 <= length
                 PROVE  full[n + 1] \in Nat /\ full[n + 1] >= n + 1
      OBVIOUS
    <3>1. full[n] \in Nat /\ full[n] >= n
      BY <1>1, <2>2
    <3>2. n + 1 \in 1..length /\ (n + 1) - 1 = n /\ n \in 0..length
      BY <1>1
    <3>3. full[n + 1] = full[n] + room(n)
      BY <1>7, <3>2
    <3>4. room(n) \in Nat /\ room(n) > 0
      BY <1>2, <3>2
    <3> QED BY <3>1, <3>3, <3>4
  <2> HIDE DEF T
  <2>3. Nat \subseteq T
    BY <2>1, <2>2, NatInduct
  <2> QED BY <1>1, <2>3 DEF T
<1>10. \E n \in 1..length : Enough(n)
  <2> DEFINE T == {n \in 0..length : full[n] >= length}
  <2>1. length \in T
    BY <1>1, <1>9
  <2>2. T \subseteq Nat
    BY <1>1
  <2>3. PICK n \in T : \A m \in T : n <= m
    <3> HIDE DEF T
    <3> QED BY <2>1, <2>2, LeastNat
  <2>4. n \in 1..length
    BY <1>1, <1>7, <2>3
  <2>5. n - 1 \in 0..length /\ ~(n <= n - 1)
    BY <1>1, <2>4
  <2>6. ~(full[n - 1] >= length)
    BY <2>3, <2>5
  <2>7. full[n - 1] < length
    BY <1>1, <1>9, <2>5, <2>6
  <2> QED BY <2>3, <2>4, <2>7
<1>11. count \in 1..length /\ Enough(count)
  <2> HIDE DEF Enough
  <2> QED BY <1>10
<1> HIDE DEF count
<1>12. full \in [0..length -> Nat]
  BY <1>8, <1>9
<1> QED BY <1>6, <1>7, <1>11, <1>12 DEF Fills, room

\* What full packets hold grows.
LEMMA FillsGrow ==
  ASSUME NEW length, Fits(length), NEW full, NEW count, Fills(full, count, length)
  PROVE  \A i, j \in 0..length : i < j => full[i] < full[j]
<1>1. length \in Nat /\ \A n \in 0..length : full[n] \in Nat
  BY DEF Fits, Fills
<1>2. ASSUME NEW n \in 1..length PROVE full[n - 1] < full[n] /\ n - 1 \in 0..length
  <2>1. full[n] = full[n - 1] + RoomIn(n - 1, length)
    BY DEF Fills
  <2>2. n - 1 \in 0..length
    BY <1>1
  <2>3. Fits(n - 1)
    BY <2>2, FitsBelow
  <2>4. RoomIn(n - 1, length) \in Nat /\ RoomIn(n - 1, length) > 0
    BY <2>3, RoomLeft
  <2>5. full[n - 1] \in Nat
    BY <1>1, <2>2
  <2> QED BY <2>1, <2>2, <2>4, <2>5
<1> DEFINE T == {j \in Nat : j <= length =>
                   \A i \in 0..length : i < j => full[i] < full[j]}
<1>3. 0 \in T
  BY <1>1
<1>4. ASSUME NEW j \in Nat, j \in T PROVE j + 1 \in T
  <2> SUFFICES ASSUME j + 1 <= length, NEW i \in 0..length, i < j + 1
               PROVE  full[i] < full[j + 1]
    OBVIOUS
  <2>1. j + 1 \in 1..length /\ (j + 1) - 1 = j /\ j \in 0..length /\ j + 1 \in 0..length
    BY <1>1
  <2>2. full[j] < full[j + 1]
    BY <1>2, <2>1
  <2>3. CASE i = j
    BY <2>2, <2>3
  <2>4. CASE i < j
    <3>1. full[i] < full[j]
      BY <1>1, <1>4, <2>1, <2>4
    <3>2. full[i] \in Nat /\ full[j] \in Nat /\ full[j + 1] \in Nat
      BY <1>1, <2>1
    <3> QED BY <2>2, <3>1, <3>2
  <2> QED BY <2>1, <2>3, <2>4
<1> HIDE DEF T
<1>5. Nat \subseteq T
  BY <1>3, <1>4, NatInduct
<1> QED BY <1>1, <1>5 DEF T

\* What the packets of a message hold, one after the other: parts of it, in
\* order, none empty, the last of which ends it.  So DataEnds is what Framing
\* takes Ends to be.
THEOREM MessagesAreCut ==
  ASSUME NEW length, Fits(length), length > 0
  PROVE  IsCut(DataEnds(length), length)
<1> DEFINE ends == DataEnds(length)
<1>1. PICK full, count : Fills(full, count, length)
  BY DataEndsIs
<1>2. /\ length \in Nat /\ count \in 1..length
      /\ \A n \in 0..length : full[n] \in Nat
      /\ full[0] = 0 /\ full[count - 1] < length
      /\ ends = [i \in 1..count |-> IF i < count THEN full[i] ELSE length]
  BY <1>1 DEF Fits, Fills
<1> HIDE DEF ends
<1>3. \A i, j \in 0..length : i < j => full[i] < full[j]
  BY <1>1, FillsGrow
<1>4. ASSUME NEW i \in 1..count
      PROVE  /\ ends[i] \in Nat /\ ends[i] > 0
             /\ i < count => ends[i] = full[i] /\ full[i] < length
             /\ i = count => ends[i] = length
  <2>1. /\ i \in 0..length /\ 0 \in 0..length
        /\ count - 1 \in 0..length /\ count \in 1..length
    BY <1>2
  <2>2. full[i] \in Nat /\ full[i] > 0 /\ full[count - 1] \in Nat
    BY <1>2, <1>3, <2>1
  <2>3. CASE i = count
    BY <1>2, <2>3
  <2>4. CASE i < count
    <3>1. full[i] <= full[count - 1]
      BY <1>3, <2>1, <2>2, <2>4
    <3>2. full[i] < length
      BY <1>2, <2>2, <3>1
    <3> QED BY <1>2, <2>2, <2>4, <3>2
  <2> QED BY <1>2, <2>3, <2>4
<1>5. ends \in Seq(Nat) /\ Len(ends) = count
  <2>1. ends = [i \in 1..count |-> ends[i]]
    BY <1>2
  <2>2. \A i \in 1..count : ends[i] \in Nat
    BY <1>4
  <2>3. count \in Nat
    BY <1>2
  <2>4. ends \in [1..count -> Nat]
    BY <2>1, <2>2
  <2> QED BY <2>3, <2>4
<1>6. ends # <<>>
  BY <1>2, <1>5
<1>7. ASSUME NEW i \in 1..count, NEW j \in 1..count, i < j PROVE ends[i] < ends[j]
  <2>1. i < count /\ i \in 0..length /\ j \in 0..length
    BY <1>2, <1>7
  <2>2. full[i] < full[j]
    BY <1>3, <1>7, <2>1
  <2> QED BY <1>2, <1>4, <2>1, <2>2
<1>8. ends[count] = length /\ ends[1] > 0
  BY <1>2, <1>4
<1> QED BY <1>5, <1>6, <1>7, <1>8 DEF IsCut, ends

\* Packets are filled, but for the last, and never beyond GATT_MTU.
THEOREM PacketsAreFilled ==
  ASSUME NEW length, Fits(length), length > 0, NEW version \in Nat,
         NEW i \in 1..Len(DataEnds(length))
  PROVE  LET ends == DataEnds(length)
             size == Len(PacketHead(i - 1, length, version))
                     + ends[i] - IF i = 1 THEN 0 ELSE ends[i - 1]
         IN  size <= GATT_MTU /\ (i < Len(ends) => size = GATT_MTU)
<1> DEFINE ends == DataEnds(length)
           head == Len(PacketHead(i - 1, length, version))
           before == IF i = 1 THEN 0 ELSE ends[i - 1]
<1>1. PICK full, count : Fills(full, count, length)
  BY DataEndsIs
<1>2. /\ length \in Nat /\ count \in 1..length
      /\ \A n \in 0..length : full[n] \in Nat
      /\ \A n \in 1..length : full[n] = full[n - 1] + RoomIn(n - 1, length)
      /\ full[0] = 0 /\ full[count] >= length
      /\ ends = [k \in 1..count |-> IF k < count THEN full[k] ELSE length]
  BY <1>1 DEF Fits, Fills
<1>3. Len(ends) = count
  <2>1. count \in Nat /\ ends \in [1..count -> Nat]
    <3>1. \A k \in 1..count : k \in 0..length
      BY <1>2
    <3> HIDE DEF ends
    <3> QED BY <1>2, <3>1
  <2> HIDE DEF ends
  <2> QED BY <2>1, LenProperties
<1> HIDE DEF ends
<1>4. i \in 1..count /\ i \in 1..length /\ i - 1 \in 0..length
  BY <1>2, <1>3 DEF ends
<1>5. before = full[i - 1]
  <2>1. CASE i = 1
    BY <1>2, <2>1
  <2>2. CASE i # 1
    <3>1. i - 1 \in 1..count /\ i - 1 < count
      BY <1>2, <1>4, <2>2
    <3> QED BY <1>2, <2>2, <3>1
  <2> QED BY <2>1, <2>2
<1>6. full[i] = full[i - 1] + RoomIn(i - 1, length)
      /\ full[i - 1] \in Nat /\ full[i] \in Nat
  BY <1>2, <1>4
<1>7. head \in Nat /\ RoomIn(i - 1, length) = GATT_MTU - head /\ GATT_MTU \in Nat
  <2>1. Fits(i - 1)
    BY <1>4, FitsBelow
  <2> QED BY <2>1, RoomLeft, MtuAssumption DEF RoomIn
<1> HIDE DEF before, head
<1>8. CASE i < count
  <2>1. ends[i] = full[i]
    BY <1>2, <1>4, <1>8
  <2>2. head + ends[i] - before = GATT_MTU
    BY <1>5, <1>6, <1>7, <2>1
  <2> QED BY <1>7, <2>2 DEF ends, head, before
<1>9. CASE i = count
  <2>1. ends[i] = length /\ length <= full[i]
    BY <1>2, <1>4, <1>9
  <2>2. head + ends[i] - before <= GATT_MTU
    BY <1>2, <1>5, <1>6, <1>7, <2>1, SMTT(30)
  <2>3. ~(i < Len(ends))
    BY <1>3, <1>4, <1>9
  <2> QED BY <2>2, <2>3 DEF ends, head, before
<1>10. i < count \/ i = count
  BY <1>2, <1>4
<1> QED BY <1>8, <1>9, <1>10

=============================================================================
