------------------------- MODULE ColumnsValueProofs -------------------------
(***************************************************************************)
(* What ColumnsValueDecoder reads of the values ColumnsValueBuilder wrote, *)
(* for values of every length and bytes of every size, the 256 of the code *)
(* included.                                                               *)
(***************************************************************************)
EXTENDS ColumnsValue, SequenceTheorems, TLAPS

\* Two bytes, the lower one first, hold every length below Base * Base.
LEMMA LengthRestored ==
    ASSUME NEW n \in Nat, n < Base * Base
    PROVE  /\ Length16(n) = n
           /\ n % Base \in Byte /\ n \div Base \in Byte
           /\ (n % Base) + (n \div Base) * Base = n
<1>1. Base \in Nat /\ Base > 1
      BY ByteAssumption
<1>2. n % Base \in 0 .. Base - 1 /\ n \div Base \in Int
      BY <1>1
<1>3. PICK b, q, r : b = Base /\ q = n \div b /\ r = n % b
      OBVIOUS
<1>4. b \in Nat /\ b > 1 /\ q \in Int /\ r \in 0 .. b - 1 /\ n = b * q + r
  <2>1. b \in Nat /\ b > 1 /\ q \in Int /\ r \in 0 .. b - 1
        BY <1>1, <1>2, <1>3
  <2>2. q = n \div b /\ r = n % b
        BY <1>3
  <2>3. n = b * q + r
        BY <2>1, <2>2
  <2> QED
        BY <2>1, <2>3
<1>5. q >= 0
  <2>1. ASSUME q < 0
        PROVE  FALSE
    <3>1. b * (q + 1) <= 0 /\ b * (q + 1) = b * q + b
          BY <1>4, <2>1
    <3> QED
          BY <1>4, <3>1
  <2> QED
        BY <1>4, <2>1
<1>6. q < b
  <2>1. ASSUME q >= b
        PROVE  FALSE
    <3>1. b * q >= b * b
          BY <1>4, <2>1
    <3>2. b * b \in Int /\ b * q \in Int
          BY <1>4
    <3> QED
          BY <1>3, <1>4, <3>1, <3>2
  <2> QED
        BY <1>4, <2>1
<1>7. Length16(n) = n
  <2>1. PICK c : c = Base * Base
        OBVIOUS
  <2>2. c \in Nat /\ n < c
        BY <1>1, <2>1
  <2>3. n % c = n
        BY <2>2
  <2> QED
        BY <2>1, <2>3 DEF Length16
<1>8. q * b = b * q
      BY <1>4
<1> QED
      BY <1>3, <1>4, <1>5, <1>6, <1>7, <1>8 DEF Byte

\* What the builder writes when the length fits: the two bytes of it, and the value.
LEMMA BytesOfValue ==
    ASSUME NEW v \in Seq(Byte), Len(v) < Base * Base, NEW junk \in Beyond(v)
    PROVE  PrependLength(v) \o junk = <<Len(v) % Base, Len(v) \div Base>> \o v
<1>1. Len(v) \in Nat /\ Length16(Len(v)) = Len(v)
      BY LengthRestored
<1>2. junk = <<>>
  <2>1. Len(v) - Length16(Len(v)) = 0
        BY <1>1
  <2>2. junk \in [1 .. 0 -> Symbols]
        BY <2>1 DEF Beyond
  <2> QED
        BY <2>2
<1>3. SubSeq(v, 1, Length16(Len(v))) = v
      BY <1>1
<1>4. PrependLength(v) = <<Len(v) % Base, Len(v) \div Base>> \o v
      BY <1>1, <1>3 DEF PrependLength, LengthBytes
<1>5. Len(v) % Base \in Byte /\ Len(v) \div Base \in Byte
      BY <1>1, LengthRestored
<1>6. PrependLength(v) \in Seq(Byte)
  <2>1. <<Len(v) % Base, Len(v) \div Base>> \in Seq(Byte)
        BY <1>5
  <2> QED
        BY <1>4, <2>1
<1> QED
      BY <1>2, <1>4, <1>6

\* A VARCHAR or VARBINARY of any length that fits in the two length bytes is read back
\* as it was written, with one zero byte after it (addVarCharColumn, getVarChar).
THEOREM VarCharRoundTrip ==
    ASSUME NEW v \in Seq(Byte), Len(v) < Base * Base, NEW junk \in Beyond(v)
    PROVE  GetVarChar(PrependLength(v) \o junk) = Append(v, 0)
<1>1. PICK lo, hi, L : lo = Len(v) % Base /\ hi = Len(v) \div Base /\ L = Len(v)
      OBVIOUS
<1>2. L \in Nat /\ lo \in Byte /\ hi \in Byte /\ lo + hi * Base = L
      BY <1>1, LengthRestored
<1>3. PICK bytes : bytes = <<lo, hi>> \o v
      OBVIOUS
<1>4. PrependLength(v) \o junk = bytes
      BY <1>1, <1>3, BytesOfValue
<1>5. 0 \in Byte
      BY ByteAssumption DEF Byte
<1>6. /\ bytes \in Seq(Byte) /\ Len(bytes) = L + 2
      /\ bytes[1] = lo /\ bytes[2] = hi
      /\ \A i \in 1 .. L : bytes[i + 2] = v[i]
  <2>1. <<lo, hi>> \in Seq(Byte) /\ Len(<<lo, hi>>) = 2
        BY <1>2
  <2>2. Len(v) = L
        BY <1>1
  <2> HIDE DEF Byte
  <2> QED
        BY <1>2, <1>3, <2>1, <2>2
<1>7. GetLength(bytes) + 3 = L + 3
      BY <1>2, <1>6 DEF GetLength
<1>8. PICK t : t = Append(bytes, 0)
      OBVIOUS
<1>9. /\ t \in Seq(Byte) /\ Len(t) = L + 3 /\ t[L + 3] = 0
      /\ \A i \in 1 .. L : t[i + 2] = v[i]
  <2> HIDE DEF Byte
  <2>1. t \in Seq(Byte) /\ Len(t) = L + 3 /\ t[L + 3] = 0
        BY <1>2, <1>5, <1>6, <1>8
  <2>2. \A i \in 1 .. L + 2 : t[i] = bytes[i]
        BY <1>2, <1>6, <1>8
  <2>3. \A i \in 1 .. L : i + 2 \in 1 .. L + 2
        BY <1>2
  <2> QED
        BY <1>6, <2>1, <2>2, <2>3
<1>10. PICK s : s = SubSeq(t, 3, L + 3)
      OBVIOUS
<1>11. s \in Seq(Byte) /\ Len(s) = L + 1 /\ \A i \in 1 .. L + 1 : s[i] = t[i + 2]
  <2> HIDE DEF Byte
  <2>1. \A i \in 3 .. L + 3 : t[i] \in Byte
        BY <1>2, <1>9
  <2> QED
        BY <1>2, <1>9, <1>10, <2>1
<1>12. \A i \in 1 .. L + 1 : s[i] = Append(v, 0)[i]
  <2>1. ASSUME NEW i \in 1 .. L
        PROVE  s[i] = v[i] /\ Append(v, 0)[i] = v[i]
    <3>1. i \in 1 .. L + 1
          BY <1>2
    <3>2. s[i] = t[i + 2] /\ t[i + 2] = v[i]
          BY <1>9, <1>11, <3>1
    <3>3. Append(v, 0)[i] = v[i]
          BY <1>1
    <3> QED
          BY <3>2, <3>3
  <2>2. s[L + 1] = 0
    <3>1. (L + 1) + 2 = L + 3 /\ L + 1 \in 1 .. L + 1
          BY <1>2
    <3> QED
          BY <1>9, <1>11, <3>1
  <2>3. Append(v, 0)[L + 1] = 0
        BY <1>1, <1>2
  <2>4. \A i \in 1 .. L + 1 : i \in 1 .. L \/ i = L + 1
        BY <1>2
  <2> QED
        BY <2>1, <2>2, <2>3, <2>4
<1>13. Append(v, 0) \in Seq(Byte) /\ Len(Append(v, 0)) = L + 1
      BY <1>1, <1>5
<1>14. s = Append(v, 0)
      BY <1>2, <1>11, <1>12, <1>13, SeqEqual
<1> QED
      BY <1>4, <1>7, <1>8, <1>10, <1>14 DEF GetVarChar
=============================================================================
