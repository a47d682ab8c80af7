----------------------------- MODULE Base64Proofs -----------------------------
(***************************************************************************)
(* What is encoded is decoded again, for byte strings of any length and    *)
(* buffers of any size, and decode of any text whatever writes no more     *)
(* than its length and one byte for every group of padding.                *)
(***************************************************************************)
EXTENDS Base64, SequenceTheorems, TLAPS

\* The bytes of group h, zero behind the end, and their four characters.
Triple(s, h) == [i \in 1..3 |-> IF 3*h + i <= Len(s) THEN s[3*h + i] ELSE 0]
Quad(s, h) == [j \in 1..4 |-> base64_alphabet(a3_to_a4(Triple(s, h))[j])]

\* The characters of the text in front of its padding.
contents(n) == 4 * (n \div 3) + (IF n % 3 = 0 THEN 0 ELSE (n % 3) + 1)

\* After g groups the text and the collected bytes are those of the data.
EncodingAt(g) ==
  /\ Len(group) < 3 /\ pos = 3*g + Len(group) /\ pos <= Len(data)
  /\ Len(out) = 4*g
  /\ \A j \in 1..Len(group) : group[j] = data[3*g + j]
  /\ \A h \in 0..(g - 1) : \A j \in 1..4 : out[4*h + j] = Quad(data, h)[j]
  /\ length = encoded_length(Len(data)) /\ length <= room

\* The text of the data, with all its padding or none.
TextInv ==
  /\ Len(text) \in {contents(Len(data)), encoded_length(Len(data))}
  /\ \A h \in Nat : \A j \in 1..4 : 4*h + j <= contents(Len(data)) => text[4*h + j] = Quad(data, h)[j]
  /\ \A k \in (contents(Len(data)) + 1)..Len(text) : text[k] = Equals

DecodingAt(g) ==
  /\ Len(group) < 4 /\ pos = 4*g + Len(group) /\ pos <= contents(Len(data))
  /\ Len(out) = 3*g /\ 3*g <= Len(data)
  /\ \A j \in 1..Len(group) : group[j] = Quad(data, g)[j]
  /\ \A i \in 1..(3*g) : out[i] = data[i]
  /\ length = Len(data) /\ length <= room

Inv ==
  /\ TypeOK
  /\ 6 * Len(text) + 8 < SizeMod
  /\ op = "encoding" => \E g \in Nat : EncodingAt(g)
  /\ op = "encoded" => /\ own /\ Len(text) = encoded_length(Len(data)) /\ result
                       /\ out = text /\ Len(out) <= room
  /\ own => TextInv
  /\ own /\ op = "decoding" => \E g \in Nat : DecodingAt(g)
  /\ own /\ op = "decoded" => out = data /\ result
  /\ op = "encode_refused" => room < encoded_length(Len(data))
  /\ own /\ op = "decode_refused" => (data # <<>> => room < Len(data))
  /\ own /\ op = "thrown" => data = <<>>
  /\ op = "crashed" => ~own

\* After g groups of any text, none of whose characters was '='.
TakenAt(g) ==
  /\ Len(group) < 4 /\ pos = 4*g + Len(group) /\ pos <= Len(text) /\ Len(out) = 3*g
  /\ \A k \in 1..pos : text[k] # Equals
  /\ length \in decoded_length(text) /\ length <= SizeMod \div 2 /\ length <= room

\* What is known of a call of decode whatever its text is.
AnyTextInv ==
  /\ op = "decoding" => \E g \in Nat : TakenAt(g)
  /\ op \in {"decoded", "crashed"} => length <= room /\ Len(out) <= length + PaddingGroups(text)
  /\ op = "decode_refused" => length \in decoded_length(text) /\ room < length
  /\ op = "thrown" => \E l \in decoded_length(text) : l > SizeMod \div 2

------------------------------------------------------------------------------
(* The alphabet and the shifts.                                            *)

LEMMA Alphabet ==
  ASSUME NEW k \in 0..63
  PROVE  /\ base64_alphabet(k) \in Byte /\ base64_alphabet(k) # Equals
         /\ b64_lookup(base64_alphabet(k)) = k
  BY DEF base64_alphabet, b64_lookup, Byte, Equals

LEMMA Lookup == ASSUME NEW c \in Byte PROVE b64_lookup(c) \in Byte
  BY DEF b64_lookup, Byte

LEMMA Split ==
  ASSUME NEW a \in Byte, NEW b \in Byte, NEW c \in Byte
  PROVE  /\ a \div 4 \in 0..63 /\ (a % 4) * 16 + (b \div 16) \in 0..63
         /\ (b % 16) * 4 + (c \div 64) \in 0..63 /\ c % 64 \in 0..63
  BY DEF Byte

\* Each byte comes back from the two sextets that have its bits.
LEMMA Joined ==
  ASSUME NEW a \in Byte, NEW b \in Byte, NEW c \in Byte
  PROVE  /\ ((a \div 4) * 4 + ((((a % 4) * 16 + (b \div 16)) \div 16) % 4)) % 256 = a
         /\ ((((a % 4) * 16 + (b \div 16)) % 16) * 16 + ((((b % 16) * 4 + (c \div 64)) \div 4) % 16)) % 256 = b
         /\ ((((b % 16) * 4 + (c \div 64)) % 4) * 64 + (c % 64)) % 256 = c
<1>1. PICK a1 \in 0..63, a0 \in 0..3 : a = 4*a1 + a0
  <2>1. a \div 4 \in 0..63 /\ a % 4 \in 0..3 /\ a = 4 * (a \div 4) + (a % 4)
    BY DEF Byte
  <2> QED
    BY <2>1
<1>2. PICK b1 \in 0..15, b0 \in 0..15 : b = 16*b1 + b0
  <2>1. b \div 16 \in 0..15 /\ b % 16 \in 0..15 /\ b = 16 * (b \div 16) + (b % 16)
    BY DEF Byte
  <2> QED
    BY <2>1
<1>3. PICK c1 \in 0..3, c0 \in 0..63 : c = 64*c1 + c0
  <2>1. c \div 64 \in 0..3 /\ c % 64 \in 0..63 /\ c = 64 * (c \div 64) + (c % 64)
    BY DEF Byte
  <2> QED
    BY <2>1
<1>4. /\ a \div 4 = a1 /\ a % 4 = a0 /\ b \div 16 = b1 /\ b % 16 = b0 /\ c \div 64 = c1 /\ c % 64 = c0
  BY <1>1, <1>2, <1>3
<1>5. /\ (a0 * 16 + b1) \div 16 = a0 /\ (a0 * 16 + b1) % 16 = b1
      /\ (b0 * 4 + c1) \div 4 = b0 /\ (b0 * 4 + c1) % 4 = c1
  BY <1>1, <1>2, <1>3
<1>6. a0 % 4 = a0 /\ b0 % 16 = b0
  BY <1>1, <1>2
<1>7. (a1 * 4 + a0) % 256 = a /\ (b1 * 16 + b0) % 256 = b /\ (c1 * 64 + c0) % 256 = c
  BY <1>1, <1>2, <1>3 DEF Byte
<1> QED
  BY <1>4, <1>5, <1>6, <1>7

LEMMA SextetsJoined ==
  ASSUME NEW w \in Byte, NEW x \in Byte, NEW y \in Byte, NEW z \in Byte
  PROVE  /\ (w * 4 + ((x \div 16) % 4)) % 256 \in Byte
         /\ ((x % 16) * 16 + ((y \div 4) % 16)) % 256 \in Byte
         /\ ((y % 4) * 64 + z) % 256 \in Byte
  BY DEF Byte

LEMMA ThreeBytes ==
  ASSUME NEW x \in Byte, NEW y \in Byte, NEW z \in Byte
  PROVE  <<x, y, z>> \in Seq(Byte) /\ Len(<<x, y, z>>) = 3
  OBVIOUS

LEMMA TripleType ==
  ASSUME NEW s \in Seq(Byte), NEW h \in Nat
  PROVE  \A i \in 1..3 : Triple(s, h)[i] \in Byte
<1> SUFFICES ASSUME NEW i \in 1..3 PROVE Triple(s, h)[i] \in Byte
  OBVIOUS
<1>1. 3*h + i <= Len(s) => s[3*h + i] \in Byte
  BY ElementOfSeq
<1> QED
  BY <1>1 DEF Triple, Byte

\* The characters of a group are letters of the alphabet, and looked up they are
\* its sextets.
LEMMA QuadType ==
  ASSUME NEW s \in Seq(Byte), NEW h \in Nat
  PROVE  \A j \in 1..4 : /\ Quad(s, h)[j] \in Byte /\ Quad(s, h)[j] # Equals
                         /\ b64_lookup(Quad(s, h)[j]) = a3_to_a4(Triple(s, h))[j]
<1> DEFINE a == a3_to_a4(Triple(s, h))
<1>1. \A j \in 1..4 : a[j] \in 0..63
  <2>1. /\ Triple(s, h)[1] \in Byte /\ Triple(s, h)[2] \in Byte /\ Triple(s, h)[3] \in Byte
    BY TripleType
  <2>2. a[1] \in 0..63 /\ a[2] \in 0..63 /\ a[3] \in 0..63 /\ a[4] \in 0..63
    BY <2>1, Split DEF a3_to_a4
  <2>3. \A j \in 1..4 : j \in {1, 2, 3, 4}
    OBVIOUS
  <2> HIDE DEF a
  <2> QED
    BY <2>2, <2>3
<1> HIDE DEF a
<1>2. \A j \in 1..4 : Quad(s, h)[j] = base64_alphabet(a[j])
  BY DEF Quad, a
<1> QED
  BY <1>1, <1>2, Alphabet DEF a

\* Three bytes come of any characters, those outside the alphabet included.
LEMMA OctetsType ==
  ASSUME NEW g \in Seq(Byte)
  PROVE  Octets(g) \in Seq(Byte) /\ Len(Octets(g)) = 3
<1> DEFINE a4 == [j \in 1..4 |-> b64_lookup(Filled(g, j))]
<1>1. \A j \in 1..4 : a4[j] \in Byte
  <2>1. ASSUME NEW j \in 1..4 PROVE Filled(g, j) \in Byte
    <3>1. Len(g) \in Nat /\ (j <= Len(g) => j \in 1..Len(g))
      OBVIOUS
    <3>2. j <= Len(g) => g[j] \in Byte
      BY <3>1, ElementOfSeq
    <3>3. 0 \in Byte
      BY DEF Byte
    <3> QED
      BY <3>2, <3>3 DEF Filled
  <2> QED
    BY <2>1, Lookup
<1>2. Octets(g) = a4_to_a3(a4)
  BY DEF Octets
<1> HIDE DEF a4
<1>3. a4[1] \in Byte /\ a4[2] \in Byte /\ a4[3] \in Byte /\ a4[4] \in Byte
  BY <1>1
<1>4. a4_to_a3(a4) \in Seq(Byte) /\ Len(a4_to_a3(a4)) = 3
  <2>1. /\ (a4[1] * 4 + ((a4[2] \div 16) % 4)) % 256 \in Byte
        /\ ((a4[2] % 16) * 16 + ((a4[3] \div 4) % 16)) % 256 \in Byte
        /\ ((a4[3] % 4) * 64 + a4[4]) % 256 \in Byte
    BY <1>3, SextetsJoined
  <2> QED
    BY <2>1, ThreeBytes DEF a4_to_a3
<1> QED
  BY <1>2, <1>4

\* A byte of a group needs two of its characters.
LEMMA OctetsBack ==
  ASSUME NEW s \in Seq(Byte), NEW h \in Nat, NEW g \in Seq(Byte), Len(g) \in 1..4,
         \A j \in 1..Len(g) : g[j] = Quad(s, h)[j]
  PROVE  /\ Octets(g) \in Seq(Byte) /\ Len(Octets(g)) = 3
         /\ \A i \in 1..(Len(g) - 1) : Octets(g)[i] = Triple(s, h)[i]
<1> DEFINE a4 == [j \in 1..4 |-> b64_lookup(Filled(g, j))]
           a3 == Triple(s, h)
<1>2. \A j \in 1..Len(g) : a4[j] = a3_to_a4(a3)[j]
  <2> SUFFICES ASSUME NEW j \in 1..Len(g) PROVE a4[j] = a3_to_a4(a3)[j]
    OBVIOUS
  <2>1. j \in 1..4 /\ Filled(g, j) = Quad(s, h)[j]
    BY DEF Filled
  <2> QED
    BY <2>1, QuadType
<1>3. Octets(g) = a4_to_a3(a4)
  BY DEF Octets
<1> HIDE DEF a4
<1>4. Octets(g) \in Seq(Byte) /\ Len(Octets(g)) = 3
  BY OctetsType
<1>5. a3[1] \in Byte /\ a3[2] \in Byte /\ a3[3] \in Byte
  BY TripleType
<1> HIDE DEF a3
<1>6. Len(g) >= 2 => a4_to_a3(a4)[1] = a3[1]
  BY <1>2, <1>5, Joined DEF a3_to_a4, a4_to_a3
<1>7. Len(g) >= 3 => a4_to_a3(a4)[2] = a3[2]
  BY <1>2, <1>5, Joined DEF a3_to_a4, a4_to_a3
<1>8. Len(g) = 4 => a4_to_a3(a4)[3] = a3[3]
  BY <1>2, <1>5, Joined DEF a3_to_a4, a4_to_a3
<1> QED
  BY <1>3, <1>4, <1>6, <1>7, <1>8 DEF a3

------------------------------------------------------------------------------
(* Lengths and sequences.                                                  *)

LEMMA Lengths ==
  ASSUME NEW n \in Nat
  PROVE  /\ n \div 3 \in Nat /\ n % 3 \in 0..2 /\ n = 3 * (n \div 3) + (n % 3)
         /\ contents(n) \in Nat /\ encoded_length(n) \in Nat
         /\ n % 3 = 0 => contents(n) = 4 * (n \div 3) /\ encoded_length(n) = 4 * (n \div 3)
         /\ n % 3 # 0 => /\ contents(n) = 4 * (n \div 3) + (n % 3) + 1
                         /\ encoded_length(n) = 4 * (n \div 3) + 4
<1>1. PICK q \in Nat, r \in 0..2 : n = 3*q + r
  <2>1. n \div 3 \in Nat /\ n % 3 \in 0..2 /\ n = 3 * (n \div 3) + (n % 3)
    OBVIOUS
  <2> QED
    BY <2>1
<1>2. n \div 3 = q /\ n % 3 = r
  BY <1>1
<1>3. contents(n) = 4*q + (IF r = 0 THEN 0 ELSE r + 1)
  BY <1>2 DEF contents
<1>4. encoded_length(n) = IF r = 0 THEN 4*q ELSE 4*q + 4
  <2>1. CASE r = 0
    <3>1. n + 2 = 3*q + 2 /\ (n + 2) % 3 = 2
      BY <1>1, <2>1
    <3>2. (n + 2 - ((n + 2) % 3)) = 3*q
      BY <3>1
    <3> QED
      BY <2>1, <3>2 DEF encoded_length
  <2>2. CASE r # 0
    <3>1. (n + 2) % 3 = r - 1
      BY <1>1, <2>2
    <3>2. (n + 2 - ((n + 2) % 3)) = 3 * (q + 1)
      BY <1>1, <3>1
    <3> QED
      BY <2>2, <3>2 DEF encoded_length
  <2> QED
    BY <2>1, <2>2
<1> QED
  BY <1>1, <1>2, <1>3, <1>4

LEMMA FunctionSeq ==
  ASSUME NEW S, NEW n \in Nat, NEW f \in [1..n -> S]
  PROVE  f \in Seq(S) /\ Len(f) = n
<1>1. f \in Seq(S)
  <2>1. [1..n -> S] \in {[1..k -> S] : k \in Nat}
    OBVIOUS
  <2> QED
    BY <2>1, SeqDef
<1>2. Len(f) \in Nat /\ DOMAIN f = 1..Len(f) /\ DOMAIN f = 1..n
  BY <1>1, LenProperties
<1> DEFINE l == Len(f)
<1>3. l \in Nat /\ 1..l = 1..n
  BY <1>2
<1> HIDE DEF l
<1>4. \A x : x \in 1..l <=> x \in 1..n
  BY <1>3
<1>5. ~(l < n) /\ ~(n < l)
  <2>1. ASSUME l < n PROVE FALSE
    <3>1. n \in 1..n
      BY <1>3, <2>1
    <3>2. n \in 1..l
      BY <1>4, <3>1
    <3> QED
      BY <1>3, <2>1, <3>2
  <2>2. ASSUME n < l PROVE FALSE
    <3>1. l \in 1..l
      BY <1>3, <2>2
    <3>2. l \in 1..n
      BY <1>4, <3>1
    <3> QED
      BY <1>3, <2>2, <3>2
  <2> QED
    BY <2>1, <2>2
<1>6. l = n
  BY <1>3, <1>5
<1> QED
  BY <1>1, <1>6 DEF l

LEMMA QuadSeq ==
  ASSUME NEW s \in Seq(Byte), NEW h \in Nat
  PROVE  Quad(s, h) \in Seq(Byte) /\ Len(Quad(s, h)) = 4
<1>1. Quad(s, h) \in [1..4 -> Byte]
  BY QuadType DEF Quad
<1> QED
  BY <1>1, FunctionSeq

LEMMA BehindTheEnd ==
  ASSUME NEW h \in Nat, NEW m \in 0..3, NEW n \in Nat, m = 3 \/ 3*h + m = n,
         NEW j \in 1..3, ~(j <= m)
  PROVE  ~(3*h + j <= n)
  OBVIOUS

\* What has been collected is the group it is taken from.
LEMMA SextetsOf ==
  ASSUME NEW s \in Seq(Byte), NEW h \in Nat, NEW g \in Seq(Byte), Len(g) \in 0..3,
         3*h + Len(g) <= Len(s), Len(g) = 3 \/ 3*h + Len(g) = Len(s),
         \A j \in 1..Len(g) : g[j] = s[3*h + j]
  PROVE  Sextets(g) = Quad(s, h)
<1>1. ASSUME NEW j \in 1..3 PROVE Filled(g, j) = Triple(s, h)[j]
  <2>1. CASE j <= Len(g)
    <3>1. j \in 1..Len(g) /\ 3*h + j <= Len(s)
      BY <2>1
    <3> QED
      BY <2>1, <3>1 DEF Filled, Triple
  <2>2. CASE ~(j <= Len(g))
    <3>1. Len(s) \in Nat
      OBVIOUS
    <3>2. ~(3*h + j <= Len(s))
      BY <2>2, <3>1, BehindTheEnd
    <3> QED
      BY <2>2, <3>2 DEF Filled, Triple
  <2> QED
    BY <2>1, <2>2
<1>2. [j \in 1..3 |-> Filled(g, j)] = Triple(s, h)
  BY <1>1 DEF Triple
<1> QED
  BY <1>2 DEF Sextets, Quad

LEMMA Types ==
  ASSUME TypeOK
  PROVE  /\ data \in Seq(Byte) /\ Len(data) \in Nat /\ Len(text) \in Nat /\ Len(out) \in Nat
         /\ Len(group) \in Nat /\ room \in Nat /\ length \in Nat
  BY Base64Assumption DEF TypeOK

\* No character in front of the padding is '='.
LEMMA NotEquals ==
  ASSUME TypeOK, TextInv, NEW k \in 1..contents(Len(data)) PROVE text[k] # Equals
<1>1. contents(Len(data)) \in Nat
  BY Types, Lengths
<1>2. PICK h \in Nat, j \in 1..4 : k = 4*h + j
  <2>1. k - 1 \in Nat
    BY <1>1
  <2>2. (k - 1) \div 4 \in Nat /\ ((k - 1) % 4) + 1 \in 1..4
        /\ k = 4 * ((k - 1) \div 4) + (((k - 1) % 4) + 1)
    BY <2>1
  <2> QED
    BY <2>2
<1>3. text[k] = Quad(data, h)[j]
  <2>1. 4*h + j <= contents(Len(data))
    BY <1>1, <1>2
  <2> QED
    BY <1>2, <2>1 DEF TextInv
<1> QED
  BY <1>3, Types, QuadType

LEMMA EqualsCount ==
  ASSUME TypeOK, TextInv, NEW e \in 0..Len(text), EqualsAtEnd(text, e)
  PROVE  e = Len(text) - contents(Len(data))
<1>1. /\ contents(Len(data)) \in Nat /\ Len(text) \in Nat /\ contents(Len(data)) <= Len(text)
  <2>1. Len(data) \in Nat /\ Len(text) \in Nat
    BY Types
  <2>2. contents(Len(data)) \in Nat /\ contents(Len(data)) <= encoded_length(Len(data))
    <3>1. /\ contents(Len(data)) \in Nat /\ Len(data) \div 3 \in Nat /\ Len(data) % 3 \in 0..2
          /\ Len(data) % 3 = 0 => encoded_length(Len(data)) = contents(Len(data))
          /\ Len(data) % 3 # 0 => /\ contents(Len(data)) = 4 * (Len(data) \div 3) + (Len(data) % 3) + 1
                                  /\ encoded_length(Len(data)) = 4 * (Len(data) \div 3) + 4
      BY <2>1, Lengths
    <3> QED
      BY <3>1
  <2> QED
    BY <2>1, <2>2 DEF TextInv
<1>2. ASSUME Len(text) - e > contents(Len(data)) PROVE FALSE
  BY <1>1, <1>2 DEF EqualsAtEnd, TextInv
<1>3. ASSUME Len(text) - e < contents(Len(data)) PROVE FALSE
  <2>1. text[contents(Len(data))] = Equals
    BY <1>1, <1>3 DEF EqualsAtEnd
  <2> QED
    BY <1>1, <1>3, <2>1, NotEquals
<1> QED
  BY <1>1, <1>2, <1>3

\* The length is that of the data; only in front of an empty text it may wrap round.
LEMMA DecodedLength ==
  ASSUME TypeOK, TextInv, NEW l \in decoded_length(text)
  PROVE  l \in Nat /\ (l = Len(data) \/ (data = <<>> /\ l > SizeMod \div 2))
<1> DEFINE n == Len(data)
           q == n \div 3
           r == n % 3
           t == Len(text)
<1>1. /\ n \in Nat /\ q \in Nat /\ r \in 0..2 /\ n = 3*q + r /\ t \in Nat
      /\ contents(n) = IF r = 0 THEN 4*q ELSE 4*q + r + 1
      /\ t = contents(n) \/ t = IF r = 0 THEN 4*q ELSE 4*q + 4
  BY Types, Lengths DEF TextInv
<1>2. SizeMod \in Nat /\ 8 * (n + 3) < SizeMod
  BY Base64Assumption DEF TypeOK
<1>3. PICK e \in numEq(text) : l = ((((6 * t) % SizeMod) \div 8) - e) % SizeMod
  BY DEF decoded_length
<1>4. \/ e = t - contents(n) /\ e \in Nat
      \/ e = t + 1 /\ n = 0
  <2>1. CASE e \in 0..Len(text) /\ EqualsAtEnd(text, e)
    BY <2>1, EqualsCount, Types
  <2>2. CASE e = t + 1 /\ \A k \in 1..Len(text) : text[k] = Equals
    <3>1. ~(1 <= contents(n))
      <4>1. contents(n) <= t /\ contents(n) \in Nat
        BY <1>1
      <4> QED
        BY <1>1, <2>2, <4>1, NotEquals
    <3> QED
      BY <1>1, <2>2, <3>1
  <2> QED
    BY <2>1, <2>2 DEF numEq
<1>5. n = 0 <=> data = <<>>
  BY Types, EmptySeq
<1> HIDE DEF n, q, r, t
<1>6. 6 * t < SizeMod
  BY <1>1, <1>2
<1>7. (6 * t) % SizeMod = 6 * t
  BY <1>1, <1>2, <1>6
<1>8. CASE e = t - contents(n) /\ e \in Nat
  <2>1. ((6 * t) \div 8) - e = n
    <3>1. CASE r = 0
      <4>1. t = 4*q /\ e = 0 /\ (6 * t) = 8 * (3*q)
        BY <1>1, <1>8, <3>1
      <4> QED
        BY <1>1, <3>1, <4>1
    <3>2. CASE r = 1 /\ e = 0
      <4>1. 6 * t = 8 * (3*q + 1) + 4
        BY <1>1, <1>8, <3>2
      <4>2. (6 * t) \div 8 = 3*q + 1
        BY <1>1, <4>1
      <4> QED
        BY <1>1, <3>2, <4>2
    <3>3. CASE r = 2 /\ e = 0
      <4>1. 6 * t = 8 * (3*q + 2) + 2
        BY <1>1, <1>8, <3>3
      <4>2. (6 * t) \div 8 = 3*q + 2
        BY <1>1, <4>1
      <4> QED
        BY <1>1, <3>3, <4>2
    <3>4. CASE r # 0 /\ e # 0
      <4>1. 6 * t = 8 * (3*q + 3) /\ e = 3 - r
        BY <1>1, <1>8, <3>4
      <4>2. (6 * t) \div 8 = 3*q + 3
        BY <1>1, <4>1
      <4> QED
        BY <1>1, <3>4, <4>1, <4>2
    <3> QED
      BY <1>1, <3>1, <3>2, <3>3, <3>4
  <2>2. n % SizeMod = n
    BY <1>1, <1>2
  <2>3. l = n
    BY <1>3, <1>7, <2>1, <2>2
  <2> QED
    BY <1>1, <2>3 DEF n
<1>9. CASE e = t + 1 /\ n = 0
  <2>1. t = 0 /\ e = 1 /\ SizeMod > 24
    BY <1>1, <1>2, <1>9
  <2>2. l = (0 - 1) % SizeMod
    BY <1>3, <1>7, <2>1
  <2>3. l = SizeMod - 1
    BY <1>2, <2>1, <2>2
  <2>4. l > SizeMod \div 2
    BY <1>2, <2>1, <2>3
  <2> QED
    BY <1>2, <1>5, <1>9, <2>1, <2>3, <2>4
<1> QED
  BY <1>4, <1>8, <1>9

------------------------------------------------------------------------------
(* The steps.                                                              *)

LEMMA EncodeStep == ASSUME Inv, encode PROVE Inv'
<1> DEFINE l == encoded_length(Len(data))
<1>1. l \in Nat /\ Len(data) \in Nat /\ op = "start" /\ TypeOK
  BY Types, Lengths DEF Inv, encode
<1>2. ASSUME NEW n \in Nat, l <= n, Begin("encoding", l, n) PROVE Inv'
  <2>1. /\ UNCHANGED <<data, text, own, result>> /\ op' = "encoding" /\ length' = l /\ room' = n
        /\ pos' = 0 /\ group' = <<>> /\ out' = <<>>
    BY <1>2 DEF Begin
  <2>2. TypeOK'
    BY <1>1, <1>2, <2>1 DEF TypeOK, Ops
  <2>3. EncodingAt(0)'
    BY <1>1, <1>2, <2>1, EmptySeq DEF EncodingAt
  <2>4. (own => TextInv)'
    BY <2>1 DEF Inv, TextInv
  <2> QED
    BY <1>1, <2>1, <2>2, <2>3, <2>4 DEF Inv
<1>3. ASSUME NEW n \in Nat, n < l, Refuse("encode_refused", l, n) PROVE Inv'
  <2>1. /\ UNCHANGED <<data, text, own, pos, group, out>> /\ op' = "encode_refused"
        /\ length' = l /\ room' = n
        /\ result' = FALSE
    BY <1>3 DEF Refuse
  <2>2. TypeOK'
    BY <1>1, <2>1 DEF TypeOK, Ops
  <2>3. (own => TextInv)'
    BY <2>1 DEF Inv, TextInv
  <2> QED
    BY <1>1, <1>3, <2>1, <2>2, <2>3 DEF Inv
<1>4. \A n \in Rooms : n \in Nat
  BY Base64Assumption
<1>5. \/ Begin("encoding", l, l)
      \/ \E n \in Rooms : IF n < l THEN Refuse("encode_refused", l, n) ELSE Begin("encoding", l, n)
  BY DEF encode
<1>6. l <= l
  BY <1>1
<1> HIDE DEF l
<1> QED
  BY <1>1, <1>2, <1>3, <1>4, <1>5, <1>6

LEMMA EncodeByteStep == ASSUME Inv, encode_byte PROVE Inv'
<1>1. PICK g \in Nat : EncodingAt(g)
  BY DEF Inv, encode_byte
<1> DEFINE a3 == Append(group, data[pos + 1])
           m == Len(group)
<1>2. /\ TypeOK /\ op = "encoding" /\ pos < Len(data) /\ pos' = pos + 1
      /\ UNCHANGED <<data, text, own, op, length, room, result>>
      /\ IF Len(a3) = 3 THEN group' = <<>> /\ out' = out \o Sextets(a3)
                        ELSE group' = a3 /\ UNCHANGED out
  BY DEF Inv, encode_byte
<1>3. /\ data \in Seq(Byte) /\ Len(data) \in Nat /\ m \in Nat /\ Len(out) \in Nat /\ pos \in Nat
      /\ group \in Seq(Byte) /\ out \in Seq(Byte)
  BY <1>2, Types DEF TypeOK
<1>4. m < 3 /\ pos = 3*g + m /\ \A j \in 1..m : group[j] = data[3*g + j]
  BY <1>1 DEF EncodingAt
<1>5. data[pos + 1] \in Byte
  BY <1>2, <1>3, ElementOfSeq
<1>6. /\ a3 \in Seq(Byte) /\ Len(a3) = m + 1 /\ a3[m + 1] = data[pos + 1]
      /\ \A j \in 1..m : a3[j] = group[j]
  BY <1>3, <1>5
<1>7. \A j \in 1..Len(a3) : a3[j] = data[3*g + j]
  <2> SUFFICES ASSUME NEW j \in 1..Len(a3) PROVE a3[j] = data[3*g + j]
    OBVIOUS
  <2>1. j \in 1..m \/ (j = m + 1 /\ 3*g + j = pos + 1)
    BY <1>3, <1>4, <1>6
  <2> QED
    BY <1>4, <1>6, <2>1
<1>10. (own => TextInv)' /\ (6 * Len(text) + 8 < SizeMod)'
  BY <1>2 DEF Inv, TextInv
<1> HIDE DEF a3, m
<1>8. CASE Len(a3) = 3
  <2>0. pos < Len(data) /\ m + 1 = 3
    BY <1>2, <1>6, <1>8
  <2>1. m = 2 /\ pos + 1 = 3*g + 3 /\ 3*g + 3 <= Len(data)
    BY <1>3, <1>4, <2>0
  <2>2. Sextets(a3) = Quad(data, g) /\ Quad(data, g) \in Seq(Byte) /\ Len(Quad(data, g)) = 4
    <3>1. Len(a3) \in 0..3 /\ 3*g + Len(a3) <= Len(data) /\ Len(a3) = 3
      BY <1>8, <2>1
    <3> QED
      BY <1>3, <1>6, <1>7, <3>1, SextetsOf, QuadSeq
  <2>3. /\ out' \in Seq(Byte) /\ Len(out') = 4*g + 4 /\ Len(out) = 4*g
        /\ \A i \in 1..(4*g + 4) : out'[i] = IF i <= 4*g THEN out[i] ELSE Quad(data, g)[i - 4*g]
    <3>1. Len(out) = 4*g /\ out' = out \o Quad(data, g)
      BY <1>1, <1>2, <1>8, <2>2 DEF EncodingAt
    <3> DEFINE c == Quad(data, g)
               oc == out \o c
    <3>2. c \in Seq(Byte) /\ Len(c) = 4 /\ out' = oc
      BY <2>2, <3>1
    <3> HIDE DEF c
    <3>3. /\ oc \in Seq(Byte) /\ Len(oc) = Len(out) + Len(c)
          /\ \A i \in 1..(Len(out) + Len(c)) : oc[i] = IF i <= Len(out) THEN out[i] ELSE c[i - Len(out)]
      BY <1>3, <3>2, ConcatProperties
    <3>4. Len(out) + Len(c) = 4*g + 4
      BY <3>1, <3>2
    <3> HIDE DEF oc
    <3> QED
      BY <3>1, <3>2, <3>3, <3>4 DEF c
  <2>4. \A h \in 0..g : \A j \in 1..4 : out'[4*h + j] = Quad(data, h)[j]
    <3> SUFFICES ASSUME NEW h \in 0..g, NEW j \in 1..4 PROVE out'[4*h + j] = Quad(data, h)[j]
      OBVIOUS
    <3>1. CASE h \in 0..(g - 1)
      <4>1. 4*h + j \in 1..(4*g + 4) /\ 4*h + j <= 4*g
        BY <3>1
      <4> QED
        BY <1>1, <2>3, <3>1, <4>1 DEF EncodingAt
    <3>2. CASE h = g
      <4>1. 4*h + j \in 1..(4*g + 4) /\ ~(4*h + j <= 4*g) /\ 4*h + j - 4*g = j
        BY <3>2
      <4> QED
        BY <2>3, <3>2, <4>1
    <3> QED
      BY <3>1, <3>2
  <2>5. group' = <<>> /\ Len(<<>>) = 0 /\ g + 1 \in Nat /\ (g + 1) - 1 = g /\ 3 * (g + 1) = 3*g + 3
        /\ 4 * (g + 1) = 4*g + 4
    BY <1>2, <1>8, EmptySeq
  <2>6. EncodingAt(g + 1)'
    BY <1>1, <1>2, <2>1, <2>3, <2>4, <2>5 DEF EncodingAt
  <2>7. TypeOK'
    BY <1>2, <1>3, <2>3, <2>5 DEF TypeOK
  <2> QED
    BY <1>2, <1>10, <2>5, <2>6, <2>7 DEF Inv
<1>9. CASE Len(a3) # 3
  <2>1. group' = a3 /\ UNCHANGED out /\ Len(a3) < 3 /\ pos + 1 = 3*g + Len(a3) /\ pos + 1 <= Len(data)
    BY <1>2, <1>3, <1>4, <1>6, <1>9
  <2>2. EncodingAt(g)'
    BY <1>1, <1>2, <1>7, <2>1 DEF EncodingAt
  <2>3. TypeOK'
    BY <1>2, <1>3, <1>6, <2>1 DEF TypeOK
  <2> QED
    BY <1>2, <1>10, <2>2, <2>3 DEF Inv
<1> QED
  BY <1>8, <1>9

LEMMA PaddingSeq ==
  ASSUME NEW i \in 1..2
  PROVE  /\ Padding(i) \in Seq(Byte) /\ Len(Padding(i)) = 3 - i
         /\ \A k \in 1..(3 - i) : Padding(i)[k] = Equals
<1>1. 3 - i \in Nat /\ Equals \in Byte
  BY DEF Equals, Byte
<1>2. Padding(i) \in [1..(3 - i) -> Byte]
  BY <1>1 DEF Padding
<1>3. \A k \in 1..(3 - i) : Padding(i)[k] = Equals
  BY DEF Padding
<1> QED
  BY <1>1, <1>2, <1>3, FunctionSeq

\* The text of a last group that is not full.
LEMMA RestText ==
  ASSUME NEW s \in Seq(Byte), NEW g \in Nat, NEW i \in 1..2, NEW o \in Seq(Byte), Len(o) = 4*g
  PROVE  LET t == o \o SubSeq(Quad(s, g), 1, i + 1) \o Padding(i)
         IN  /\ t \in Seq(Byte) /\ Len(t) = 4*g + 4
             /\ \A k \in 1..(4*g) : t[k] = o[k]
             /\ \A j \in 1..(i + 1) : t[4*g + j] = Quad(s, g)[j]
             /\ \A k \in (4*g + i + 2)..(4*g + 4) : t[k] = Equals
<1> DEFINE u == SubSeq(Quad(s, g), 1, i + 1)
           p == Padding(i)
           ou == o \o u
           t == ou \o p
<1>1. /\ u \in Seq(Byte) /\ Len(u) = i + 1 /\ \A j \in 1..(i + 1) : u[j] = Quad(s, g)[j]
  <2>1. \A j \in 1..(i + 1) : Quad(s, g)[j] \in Byte
    BY QuadType
  <2>2. 1 \in Int /\ i + 1 \in Int /\ 1 <= i + 1 /\ i + 1 - 1 + 1 = i + 1
    OBVIOUS
  <2>3. /\ u \in Seq(Byte) /\ Len(u) = IF 1 <= i + 1 THEN (i + 1) - 1 + 1 ELSE 0
        /\ \A j \in 1..((i + 1) - 1 + 1) : u[j] = Quad(s, g)[1 + j - 1]
    BY <2>1, <2>2, SubSeqProperties
  <2>4. \A j \in 1..(i + 1) : 1 + j - 1 = j
    OBVIOUS
  <2> HIDE DEF u
  <2> QED
    BY <2>2, <2>3, <2>4
<1>2. p \in Seq(Byte) /\ Len(p) = 3 - i /\ \A k \in 1..(3 - i) : p[k] = Equals
  BY PaddingSeq
<1> HIDE DEF u, p
<1>3. /\ ou \in Seq(Byte) /\ Len(ou) = 4*g + i + 1
      /\ \A k \in 1..(4*g + i + 1) : ou[k] = IF k <= 4*g THEN o[k] ELSE u[k - 4*g]
  <2>1. /\ ou \in Seq(Byte) /\ Len(ou) = Len(o) + Len(u)
        /\ \A k \in 1..(Len(o) + Len(u)) : ou[k] = IF k <= Len(o) THEN o[k] ELSE u[k - Len(o)]
    BY <1>1, ConcatProperties
  <2>2. Len(o) + Len(u) = 4*g + i + 1
    BY <1>1
  <2> HIDE DEF ou
  <2> QED
    BY <2>1, <2>2
<1> HIDE DEF ou
<1>4. /\ t \in Seq(Byte) /\ Len(t) = 4*g + 4
      /\ \A k \in 1..(4*g + 4) : t[k] = IF k <= 4*g + i + 1 THEN ou[k] ELSE p[k - (4*g + i + 1)]
  <2>1. /\ t \in Seq(Byte) /\ Len(t) = Len(ou) + Len(p)
        /\ \A k \in 1..(Len(ou) + Len(p)) : t[k] = IF k <= Len(ou) THEN ou[k] ELSE p[k - Len(ou)]
    BY <1>2, <1>3, ConcatProperties
  <2>2. Len(ou) + Len(p) = 4*g + 4
    BY <1>2, <1>3
  <2> HIDE DEF t
  <2> QED
    BY <1>3, <2>1, <2>2
<1> HIDE DEF t
<1>5. \A k \in 1..(4*g) : t[k] = o[k]
  <2> SUFFICES ASSUME NEW k \in 1..(4*g) PROVE t[k] = o[k]
    OBVIOUS
  <2>1. k \in 1..(4*g + 4) /\ k \in 1..(4*g + i + 1) /\ k <= 4*g /\ k <= 4*g + i + 1
    OBVIOUS
  <2> QED
    BY <1>3, <1>4, <2>1
<1>6. \A j \in 1..(i + 1) : t[4*g + j] = Quad(s, g)[j]
  <2> SUFFICES ASSUME NEW j \in 1..(i + 1) PROVE t[4*g + j] = Quad(s, g)[j]
    OBVIOUS
  <2>1. /\ 4*g + j \in 1..(4*g + 4) /\ 4*g + j \in 1..(4*g + i + 1) /\ ~(4*g + j <= 4*g)
        /\ 4*g + j <= 4*g + i + 1 /\ 4*g + j - 4*g = j
    OBVIOUS
  <2> QED
    BY <1>1, <1>3, <1>4, <2>1
<1>7. \A k \in (4*g + i + 2)..(4*g + 4) : t[k] = Equals
  <2> SUFFICES ASSUME NEW k \in (4*g + i + 2)..(4*g + 4) PROVE t[k] = Equals
    OBVIOUS
  <2>1. k \in 1..(4*g + 4) /\ ~(k <= 4*g + i + 1) /\ k - (4*g + i + 1) \in 1..(3 - i)
    OBVIOUS
  <2> QED
    BY <1>2, <1>4, <2>1
<1> QED
  BY <1>4, <1>5, <1>6, <1>7 DEF t, ou, u, p

LEMMA EncodeRestStep == ASSUME Inv, encode_rest PROVE Inv'
<1>1. PICK g \in Nat : EncodingAt(g)
  BY DEF Inv, encode_rest
<1> DEFINE n == Len(data)
           i == Len(group)
<1>2. /\ TypeOK /\ op = "encoding" /\ pos = n /\ op' = "encoded" /\ text' = out' /\ own' = TRUE
      /\ result' = (Len(out') = length) /\ UNCHANGED <<data, pos, group, length, room>>
      /\ out' = IF group = <<>> THEN out ELSE out \o SubSeq(Quad(data, g), 1, i + 1) \o Padding(i)
  <2>1. Sextets(group) = Quad(data, g)
    <3>1. i \in 0..3 /\ 3*g + i = n /\ 3*g + i <= n
      <4>1. i < 3 /\ pos = 3*g + i /\ pos = n
        BY <1>1 DEF EncodingAt, encode_rest
      <4>2. i \in Nat /\ n \in Nat
        BY Types DEF Inv
      <4> HIDE DEF n, i
      <4> QED
        BY <4>1, <4>2
    <3> QED
      BY <1>1, <3>1, Types, SextetsOf DEF EncodingAt, Inv, TypeOK
  <2> QED
    BY <2>1 DEF encode_rest, Inv
<1>3. /\ data \in Seq(Byte) /\ n \in Nat /\ i \in 0..2 /\ n = 3*g + i /\ Len(out) = 4*g
      /\ out \in Seq(Byte) /\ length = encoded_length(n) /\ length <= room
      /\ \A h \in 0..(g - 1) : \A j \in 1..4 : out[4*h + j] = Quad(data, h)[j]
      /\ (i = 0 <=> group = <<>>)
  <2>1. /\ i < 3 /\ pos = 3*g + i /\ pos = n /\ Len(out) = 4*g
        /\ length = encoded_length(n) /\ length <= room
        /\ \A h \in 0..(g - 1) : \A j \in 1..4 : out[4*h + j] = Quad(data, h)[j]
    BY <1>1, <1>2 DEF EncodingAt
  <2>2. /\ data \in Seq(Byte) /\ n \in Nat /\ i \in Nat /\ out \in Seq(Byte) /\ group \in Seq(Byte)
    BY <1>2, Types DEF TypeOK
  <2>3. i = 0 <=> group = <<>>
    BY <2>2, EmptySeq
  <2> HIDE DEF n, i
  <2>4. i \in 0..2 /\ n = 3*g + i
    BY <2>1, <2>2
  <2> QED
    BY <2>1, <2>2, <2>3, <2>4
<1>4. n \div 3 = g /\ n % 3 = i
  <2>1. n \in Nat /\ i \in 0..2 /\ n = 3*g + i
    BY <1>3
  <2> HIDE DEF n, i
  <2> QED
    BY <2>1
<1>5. /\ contents(n) = IF i = 0 THEN 4*g ELSE 4*g + i + 1
      /\ encoded_length(n) = IF i = 0 THEN 4*g ELSE 4*g + 4
  BY <1>3, <1>4, Lengths
<1> HIDE DEF n, i
<1>6. /\ out' \in Seq(Byte) /\ Len(out') = encoded_length(n)
      /\ \A k \in 1..(4*g) : out'[k] = out[k]
      /\ i # 0 => \A j \in 1..(i + 1) : out'[4*g + j] = Quad(data, g)[j]
      /\ i # 0 => \A k \in (4*g + i + 2)..(4*g + 4) : out'[k] = Equals
  <2>1. CASE i = 0
    BY <1>2, <1>3, <1>5, <2>1
  <2>2. CASE i # 0
    <3>1. i \in 1..2 /\ out' = out \o SubSeq(Quad(data, g), 1, i + 1) \o Padding(i)
      <4>1. i \in 1..2 /\ group # <<>>
        BY <1>3, <2>2
      <4> QED
        BY <1>2, <4>1
    <3> QED
      <4>1. /\ data \in Seq(Byte) /\ out \in Seq(Byte) /\ Len(out) = 4*g
            /\ encoded_length(n) = 4*g + 4
        BY <1>3, <1>5, <2>2
      <4> DEFINE t == out \o SubSeq(Quad(data, g), 1, i + 1) \o Padding(i)
      <4>2. /\ t \in Seq(Byte) /\ Len(t) = 4*g + 4
            /\ \A k \in 1..(4*g) : t[k] = out[k]
            /\ \A j \in 1..(i + 1) : t[4*g + j] = Quad(data, g)[j]
            /\ \A k \in (4*g + i + 2)..(4*g + 4) : t[k] = Equals
        BY <3>1, <4>1, RestText
      <4>3. out' = t
        BY <3>1
      <4> HIDE DEF t
      <4> QED
        BY <4>1, <4>2, <4>3
  <2> QED
    BY <2>1, <2>2
<1>7. \A h \in Nat : \A j \in 1..4 : 4*h + j <= contents(n) => out'[4*h + j] = Quad(data, h)[j]
  <2> SUFFICES ASSUME NEW h \in Nat, NEW j \in 1..4, 4*h + j <= contents(n)
               PROVE  out'[4*h + j] = Quad(data, h)[j]
    OBVIOUS
  <2>1. CASE h \in 0..(g - 1)
    <3>1. 4*h + j \in 1..(4*g)
      BY <2>1
    <3> QED
      BY <1>3, <1>6, <2>1, <3>1
  <2>2. CASE ~(h \in 0..(g - 1))
    <3>1. h = g /\ i # 0 /\ j \in 1..(i + 1)
      <4> DEFINE c == contents(n)
      <4>1. i \in 0..2 /\ c = (IF i = 0 THEN 4*g ELSE 4*g + i + 1) /\ 4*h + j <= c
        BY <1>3, <1>5
      <4> HIDE DEF c
      <4> QED
        BY <2>2, <4>1
    <3> QED
      BY <1>6, <3>1
  <2> QED
    BY <2>1, <2>2
<1>8. \A k \in (contents(n) + 1)..Len(out') : out'[k] = Equals
  <2> SUFFICES ASSUME NEW k \in (contents(n) + 1)..Len(out') PROVE out'[k] = Equals
    OBVIOUS
  <2>1. i # 0 /\ k \in (4*g + i + 2)..(4*g + 4)
    BY <1>3, <1>5, <1>6
  <2> QED
    BY <1>6, <2>1
<1>9. TextInv'
  BY <1>2, <1>6, <1>7, <1>8 DEF TextInv, n
<1>10. result' = TRUE /\ Len(out') <= room'
  BY <1>2, <1>3, <1>6
<1>11. TypeOK'
  BY <1>2, <1>6, <1>10 DEF TypeOK, Ops
<1>12. 6 * Len(text') + 8 < SizeMod
  <2>1. 8 * (n + 3) < SizeMod /\ SizeMod \in Nat
    BY <1>2, Base64Assumption DEF TypeOK, n
  <2>2. Len(text') = IF i = 0 THEN 4*g ELSE 4*g + 4
    BY <1>2, <1>5, <1>6
  <2>3. n \in Nat /\ i \in 0..2 /\ n = 3*g + i
    BY <1>3
  <2> QED
    BY <2>1, <2>2, <2>3
<1> QED
  BY <1>2, <1>6, <1>9, <1>10, <1>11, <1>12 DEF Inv, n

LEMMA Prefix ==
  ASSUME NEW t \in Seq(Byte), NEW c \in 0..Len(t)
  PROVE  /\ SubSeq(t, 1, c) \in Seq(Byte) /\ Len(SubSeq(t, 1, c)) = c
         /\ \A k \in 1..c : SubSeq(t, 1, c)[k] = t[k]
<1> DEFINE u == SubSeq(t, 1, c)
<1>1. Len(t) \in Nat /\ c \in Nat /\ \A k \in 1..c : k \in 1..Len(t)
  OBVIOUS
<1>2. \A k \in 1..c : t[k] \in Byte
  BY <1>1, ElementOfSeq
<1>3. /\ u \in Seq(Byte) /\ Len(u) = IF 1 <= c THEN c - 1 + 1 ELSE 0
      /\ \A k \in 1..(c - 1 + 1) : u[k] = t[1 + k - 1]
  BY <1>1, <1>2, SubSeqProperties
<1> HIDE DEF u
<1>4. c - 1 + 1 = c /\ \A k \in 1..c : 1 + k - 1 = k
  BY <1>1
<1>5. Len(u) = c
  BY <1>1, <1>3, <1>4
<1> QED
  BY <1>3, <1>4, <1>5 DEF u

\* A text that encode has written loses its padding.
LEMMA StripOwn ==
  ASSUME TypeOK, TextInv, NEW e \in 0..Len(text), EqualsAtEnd(text, e),
         text' = SubSeq(text, 1, Len(text) - e), UNCHANGED data
  PROVE  TextInv'
<1> DEFINE c == contents(Len(data))
<1>3. e = Len(text) - c
  BY EqualsCount
<1>4. text \in Seq(Byte) /\ Len(text) \in Nat /\ c \in Nat /\ c <= Len(text)
  <2>1. text \in Seq(Byte) /\ Len(text) \in Nat /\ Len(data) \in Nat
    BY Types DEF TypeOK
  <2>2. c \in Nat
    BY <2>1, Lengths
  <2> HIDE DEF c
  <2> QED
    BY <1>3, <2>1, <2>2
<1> HIDE DEF c
<1>5. text' = SubSeq(text, 1, c)
  BY <1>3, <1>4
<1>6. Len(text') = c /\ \A k \in 1..c : text'[k] = text[k]
  BY <1>4, <1>5, Prefix
<1>7. \A h \in Nat : \A j \in 1..4 : 4*h + j <= c => text'[4*h + j] = Quad(data, h)[j]
  <2> SUFFICES ASSUME NEW h \in Nat, NEW j \in 1..4, 4*h + j <= c
               PROVE  text'[4*h + j] = Quad(data, h)[j]
    OBVIOUS
  <2>1. 4*h + j \in 1..c
    BY <1>4
  <2>2. text[4*h + j] = Quad(data, h)[j]
    BY DEF TextInv, c
  <2> QED
    BY <1>6, <2>1, <2>2
<1>8. \A k \in (c + 1)..Len(text') : text'[k] = Equals
  BY <1>4, <1>6
<1> QED
  BY <1>6, <1>7, <1>8 DEF TextInv, c

LEMMA StripStep == ASSUME Inv, strip_padding PROVE Inv'
<1>1. PICK e \in 0..Len(text) : EqualsAtEnd(text, e) /\ text' = SubSeq(text, 1, Len(text) - e)
  BY DEF strip_padding
<1>2. /\ TypeOK /\ 6 * Len(text) + 8 < SizeMod /\ op' = "stripped"
      /\ UNCHANGED <<data, own, pos, group, out, length, room, result>>
  BY DEF strip_padding, Inv
<1>3. text \in Seq(Byte) /\ Len(text) \in Nat /\ SizeMod \in Nat
  BY <1>2, Types, Base64Assumption DEF TypeOK
<1>4. Len(text) - e \in 0..Len(text)
  BY <1>3
<1>5. text' \in Seq(Byte) /\ Len(text') = Len(text) - e
  BY <1>1, <1>3, <1>4, Prefix
<1>6. 6 * Len(text') + 8 < SizeMod
  BY <1>2, <1>3, <1>4, <1>5
<1>7. (own => TextInv)'
  <2> SUFFICES ASSUME own PROVE TextInv'
    BY <1>2
  <2> QED
    BY <1>1, <1>2, StripOwn DEF Inv
<1>8. TypeOK'
  BY <1>2, <1>5 DEF TypeOK, Ops
<1> QED
  BY <1>2, <1>6, <1>7, <1>8 DEF Inv

LEMMA DecodedLengthType ==
  ASSUME SizeMod \in Nat, SizeMod # 0, NEW t, Len(t) \in Nat, NEW l \in decoded_length(t)
  PROVE  l \in Nat
<1>1. PICK e \in numEq(t) : l = ((((6 * Len(t)) % SizeMod) \div 8) - e) % SizeMod
  BY DEF decoded_length
<1>2. e \in Int
  BY DEF numEq
<1>3. (6 * Len(t)) % SizeMod \in Nat
  OBVIOUS
<1>4. (((6 * Len(t)) % SizeMod) \div 8) - e \in Int
  BY <1>2, <1>3
<1> QED
  BY <1>1, <1>4

LEMMA DecodeStep == ASSUME Inv, decode PROVE Inv'
<1>1. PICK l \in decoded_length(text) :
        \/ l <= SizeMod \div 2 /\ Begin("decoding", l, l)
        \/ /\ l > SizeMod \div 2 /\ op' = "thrown"
           /\ UNCHANGED <<data, text, own, pos, group, out, length, room, result>>
        \/ \E n \in Rooms : IF n < l THEN Refuse("decode_refused", l, n)
                              ELSE Begin("decoding", l, n)
  BY DEF decode
<1>2. TypeOK /\ 6 * Len(text) + 8 < SizeMod /\ (own => TextInv)
  BY DEF Inv
<1>3. /\ l \in Nat /\ SizeMod \in Nat /\ Len(data) \in Nat
      /\ own => l = Len(data) \/ (data = <<>> /\ l > SizeMod \div 2)
  <2>1. SizeMod \in Nat /\ SizeMod # 0 /\ Len(text) \in Nat /\ Len(data) \in Nat
    BY <1>2, Types, Base64Assumption
  <2>2. l \in Nat
    BY <1>2, <2>1, DecodedLengthType
  <2> QED
    BY <1>2, <2>1, <2>2, DecodedLength
<1>4. \A n \in Rooms : n \in Nat /\ n <= SizeMod \div 2
  BY <1>3, Base64Assumption
<1>5. ASSUME NEW n \in Nat, l <= n, n <= SizeMod \div 2, Begin("decoding", l, n) PROVE Inv'
  <2>1. /\ UNCHANGED <<data, text, own, result>> /\ op' = "decoding" /\ length' = l /\ room' = n
        /\ pos' = 0 /\ group' = <<>> /\ out' = <<>>
    BY <1>5 DEF Begin
  <2>2. (own => l = Len(data)) /\ contents(Len(data)) \in Nat
    BY <1>3, <1>5, Lengths
  <2>3. TypeOK'
    BY <1>2, <1>3, <2>1, <1>5 DEF TypeOK, Ops
  <2>4. (own => DecodingAt(0))'
    <3> SUFFICES ASSUME own PROVE DecodingAt(0)'
      BY <2>1
    <3> QED
      BY <1>3, <1>5, <2>1, <2>2, EmptySeq DEF DecodingAt
  <2>5. (own => TextInv)'
    BY <1>2, <2>1 DEF TextInv
  <2> QED
    BY <1>2, <2>1, <2>3, <2>4, <2>5 DEF Inv
<1>6. ASSUME NEW n \in Nat, n < l, Refuse("decode_refused", l, n) PROVE Inv'
  <2>1. /\ UNCHANGED <<data, text, own, pos, group, out>> /\ op' = "decode_refused"
        /\ length' = l /\ room' = n
        /\ result' = FALSE
    BY <1>6 DEF Refuse
  <2>2. TypeOK'
    BY <1>2, <1>3, <2>1 DEF TypeOK, Ops
  <2>3. own => (data # <<>> => n < Len(data))
    BY <1>3, <1>6
  <2>4. (own => TextInv)'
    BY <1>2, <2>1 DEF TextInv
  <2> QED
    BY <1>2, <2>1, <2>2, <2>3, <2>4 DEF Inv
<1>7. ASSUME l > SizeMod \div 2, op' = "thrown",
             UNCHANGED <<data, text, own, pos, group, out, length, room, result>>
      PROVE  Inv'
  <2>1. 8 * (Len(data) + 3) < SizeMod
    BY <1>2, Base64Assumption DEF TypeOK
  <2>2. own => data = <<>>
    BY <1>3, <1>7, <2>1
  <2>3. TypeOK'
    BY <1>2, <1>7 DEF TypeOK, Ops
  <2>4. (own => TextInv)'
    BY <1>2, <1>7 DEF TextInv
  <2> QED
    BY <1>2, <1>7, <2>2, <2>3, <2>4 DEF Inv
<1>8. l <= l
  BY <1>3
<1>9. ASSUME NEW n \in Rooms, IF n < l THEN Refuse("decode_refused", l, n) ELSE Begin("decoding", l, n)
      PROVE  Inv'
  <2>1. n \in Nat /\ n <= SizeMod \div 2 /\ (~(n < l) => l <= n)
    BY <1>3, <1>4
  <2> QED
    BY <1>5, <1>6, <1>9, <2>1
<1> QED
  BY <1>1, <1>3, <1>5, <1>7, <1>8, <1>9

\* The characters in front of the padding are taken, and no other.
LEMMA AtContents ==
  ASSUME TypeOK, TextInv, pos <= contents(Len(data)) PROVE AtEnd <=> pos = contents(Len(data))
<1> DEFINE c == contents(Len(data))
<1>1. c \in Nat /\ pos \in Nat /\ Len(text) \in Nat /\ c <= Len(text)
  <2>1. /\ TypeOK /\ Len(text) \in Nat /\ Len(data) \in Nat
    BY Types
  <2>2. c \in Nat /\ c <= encoded_length(Len(data)) /\ encoded_length(Len(data)) \in Nat
    <3>1. /\ contents(Len(data)) \in Nat /\ Len(data) \div 3 \in Nat /\ Len(data) % 3 \in 0..2
          /\ encoded_length(Len(data)) \in Nat
          /\ Len(data) % 3 = 0 => encoded_length(Len(data)) = contents(Len(data))
          /\ Len(data) % 3 # 0 => /\ contents(Len(data)) = 4 * (Len(data) \div 3) + (Len(data) % 3) + 1
                                  /\ encoded_length(Len(data)) = 4 * (Len(data) \div 3) + 4
      BY <2>1, Lengths
    <3> QED
      BY <3>1
  <2> QED
    BY <2>1, <2>2 DEF TextInv, TypeOK
<1> HIDE DEF c
<1>2. ASSUME pos < c PROVE ~AtEnd
  <2>1. pos + 1 \in 1..c /\ pos < Len(text)
    BY <1>1, <1>2
  <2>2. text[pos + 1] # Equals
    BY <2>1, NotEquals DEF c
  <2> QED
    BY <2>1, <2>2 DEF AtEnd
<1>3. ASSUME pos = c, pos < Len(text) PROVE text[pos + 1] = Equals
  <2>1. pos + 1 \in (c + 1)..Len(text)
    BY <1>1, <1>3
  <2> QED
    BY <2>1 DEF TextInv, c
<1>4. pos < c \/ pos = c
  BY <1>1 DEF c
<1> QED
  BY <1>2, <1>3, <1>4, <1>1 DEF AtEnd, c

\* What a turn of the loop collects and writes, of any text.
LEMMA CharacterWrites ==
  ASSUME TypeOK, decode_character
  PROVE  /\ group' \in Seq(Byte) /\ out' \in Seq(Byte)
         /\ Len(group) = 3 => Len(group') = 0 /\ Len(out') = Len(out) + 3
         /\ Len(group) # 3 => Len(group') = Len(group) + 1 /\ out' = out
<1> DEFINE c == text[pos + 1]
           a4 == Append(group, c)
           o == Octets(a4)
<1>1. /\ group \in Seq(Byte) /\ out \in Seq(Byte) /\ text \in Seq(Byte) /\ pos \in Nat
      /\ Len(text) \in Nat /\ Len(group) \in Nat /\ Len(out) \in Nat
  BY Types DEF TypeOK
<1>2. c \in Byte
  <2>1. pos + 1 \in 1..Len(text)
    BY <1>1 DEF decode_character, AtEnd
  <2> QED
    BY <1>1, <2>1, ElementOfSeq
<1>3. IF Len(a4) = 4 THEN group' = <<>> /\ out' = out \o o ELSE group' = a4 /\ out' = out
  BY DEF decode_character
<1> HIDE DEF c
<1>4. a4 \in Seq(Byte) /\ Len(a4) = Len(group) + 1
  BY <1>1, <1>2
<1> HIDE DEF a4
<1>5. o \in Seq(Byte) /\ Len(o) = 3
  BY <1>4, OctetsType
<1> HIDE DEF o
<1>6. out \o o \in Seq(Byte) /\ Len(out \o o) = Len(out) + Len(o)
  <2>1. out \in Seq(Byte) /\ o \in Seq(Byte)
    BY <1>1, <1>5
  <2> QED
    BY <2>1, ConcatProperties
<1>7. Len(a4) = 4 <=> Len(group) = 3
  <2> DEFINE k == Len(a4)
             m == Len(group)
  <2>1. m \in Nat /\ k = m + 1
    BY <1>1, <1>4
  <2> HIDE DEF k, m
  <2>2. k = 4 <=> m = 3
    BY <2>1
  <2> QED
    BY <2>2 DEF k, m
<1> QED
  BY <1>1, <1>3, <1>4, <1>5, <1>6, <1>7, EmptySeq

LEMMA RestWrites ==
  ASSUME TypeOK, decode_rest, Len(group) < 4
  PROVE  /\ out' \in Seq(Byte)
         /\ Len(out') = IF Len(group) = 0 THEN Len(out) ELSE Len(out) + Len(group) - 1
<1> DEFINE m == Len(group)
           o == Octets(group)
           u == SubSeq(o, 1, m - 1)
<1>1. group \in Seq(Byte) /\ out \in Seq(Byte) /\ Len(group) \in Nat /\ Len(out) \in Nat
  BY Types DEF TypeOK
<1>2. out' = IF group = <<>> THEN out ELSE out \o u
  BY DEF decode_rest
<1>3. Len(group) = 0 <=> group = <<>>
  BY <1>1, EmptySeq
<1>4. o \in Seq(Byte) /\ Len(o) = 3
  BY <1>1, OctetsType
<1> HIDE DEF o
<1>5. CASE group = <<>>
  BY <1>1, <1>2, <1>3, <1>5
<1>6. CASE group # <<>>
  <2>1. m - 1 \in 0..Len(o)
    <3>1. m \in Nat /\ m # 0 /\ m < 4 /\ Len(o) = 3
      BY <1>1, <1>3, <1>4, <1>6
    <3> HIDE DEF m
    <3> QED
      BY <3>1
  <2>2. u \in Seq(Byte) /\ Len(u) = m - 1
    BY <1>4, <2>1, Prefix
  <2> HIDE DEF u
  <2>3. out \o u \in Seq(Byte) /\ Len(out \o u) = Len(out) + Len(u)
    BY <1>1, <2>2, ConcatProperties
  <2>4. Len(out) + (m - 1) = Len(out) + m - 1
    BY <1>1
  <2> QED
    BY <1>2, <1>3, <1>6, <2>2, <2>3, <2>4
<1> QED
  BY <1>5, <1>6

LEMMA DecodeOwnCharacter ==
  ASSUME Inv, decode_character, own PROVE Inv'
<1>1. PICK g \in Nat : DecodingAt(g)
  BY DEF Inv, decode_character
<1> DEFINE a4 == Append(group, text[pos + 1])
           m == Len(group)
           n == Len(data)
           c == contents(n)
<1>2. /\ TypeOK /\ TextInv /\ op = "decoding" /\ ~AtEnd /\ UNCHANGED <<data, text, own, length, room, result>>
      /\ pos' = pos + 1 /\ 6 * Len(text) + 8 < SizeMod
  BY DEF Inv, decode_character
<1>13. op' = "decoding" \/ Len(out') > room
  BY DEF decode_character, Ends
<1>3. IF Len(a4) = 4 THEN group' = <<>> /\ out' = out \o Octets(a4) ELSE group' = a4 /\ UNCHANGED out
  BY DEF decode_character
<1>4. /\ data \in Seq(Byte) /\ n \in Nat /\ m \in Nat /\ group \in Seq(Byte) /\ out \in Seq(Byte)
      /\ text \in Seq(Byte) /\ pos \in Nat /\ room \in Nat
      /\ m < 4 /\ pos = 4*g + m /\ pos <= c /\ Len(out) = 3*g /\ 3*g <= n
      /\ \A j \in 1..m : group[j] = Quad(data, g)[j]
      /\ \A i \in 1..(3*g) : out[i] = data[i]
      /\ length = n /\ length <= room
  BY <1>1, <1>2, Types DEF DecodingAt, TypeOK
<1>5. /\ c \in Nat /\ n \div 3 \in Nat /\ n % 3 \in 0..2 /\ n = 3 * (n \div 3) + (n % 3)
      /\ c = IF n % 3 = 0 THEN 4 * (n \div 3) ELSE 4 * (n \div 3) + (n % 3) + 1
  <2>1. n \in Nat
    BY <1>4
  <2> QED
    BY <2>1, Lengths
<1>6. /\ pos \in Nat /\ c \in Nat /\ m \in 0..3 /\ g \in Nat
      /\ pos = 4*g + m /\ pos < c
  <2>1. c \in Nat
    BY <1>5
  <2>2. pos # c /\ pos <= c
    BY <1>2, <1>4, AtContents
  <2>3. pos \in Nat /\ m \in Nat /\ m < 4 /\ g \in Nat /\ pos = 4*g + m
    BY <1>4
  <2> HIDE DEF m, n, c
  <2> QED
    BY <2>1, <2>2, <2>3
<1> HIDE DEF m, n, c
<1>7. text[pos + 1] = Quad(data, g)[m + 1] /\ m + 1 \in 1..4 /\ 4*g + (m + 1) = pos + 1
  <2>1. m + 1 \in 1..4 /\ 4*g + (m + 1) = pos + 1 /\ 4*g + (m + 1) <= c
    BY <1>6
  <2>2. text[4*g + (m + 1)] = Quad(data, g)[m + 1]
    BY <1>2, <1>6, <2>1 DEF TextInv, c, n
  <2> QED
    BY <2>1, <2>2
<1>8. text[pos + 1] \in Byte
  BY <1>4, <1>7, QuadType
<1>9. /\ a4 \in Seq(Byte) /\ Len(a4) = m + 1 /\ a4[m + 1] = text[pos + 1]
      /\ \A j \in 1..m : a4[j] = group[j]
  <2>1. group \in Seq(Byte) /\ text[pos + 1] \in Byte
    BY <1>4, <1>8
  <2> QED
    BY <2>1 DEF m
<1>10. \A j \in 1..Len(a4) : a4[j] = Quad(data, g)[j]
  <2> SUFFICES ASSUME NEW j \in 1..Len(a4) PROVE a4[j] = Quad(data, g)[j]
    OBVIOUS
  <2>1. j \in 1..m \/ j = m + 1
    BY <1>4, <1>9
  <2> QED
    BY <1>4, <1>7, <1>9, <2>1
<1> HIDE DEF a4
<1>11. CASE Len(a4) = 4
  <2>1. m = 3 /\ pos + 1 = 4*g + 4 /\ 4*g + 4 <= c
    <3>1. m + 1 = 4
      BY <1>9, <1>11
    <3>2. m = 3
      BY <1>6, <3>1
    <3>3. pos = 4*g + 3 /\ pos < c /\ c \in Nat /\ g \in Nat
      BY <1>6, <3>2
    <3> QED
      BY <3>2, <3>3
  <2>2. 3*g + 3 <= n
    <3> DEFINE q == n \div 3
               r == n % 3
    <3>1. /\ q \in Nat /\ r \in 0..2 /\ n = 3*q + r /\ g \in Nat /\ 4*g + 4 <= c
          /\ c = IF r = 0 THEN 4*q ELSE 4*q + r + 1
      BY <1>5, <1>6, <2>1
    <3> HIDE DEF q, r
    <3> QED
      BY <3>1
  <2> DEFINE o == Octets(a4)
             oo == out \o o
  <2>3. /\ o \in Seq(Byte) /\ Len(o) = 3 /\ \A i \in 1..3 : o[i] = Triple(data, g)[i]
    <3>1. Len(a4) \in 1..4 /\ Len(a4) - 1 = 3
      BY <1>11
    <3>2. /\ o \in Seq(Byte) /\ Len(o) = 3
          /\ \A i \in 1..(Len(a4) - 1) : o[i] = Triple(data, g)[i]
      BY <1>4, <1>9, <1>10, <3>1, OctetsBack
    <3> QED
      BY <3>1, <3>2
  <2>4. group' = <<>> /\ Len(group') = 0 /\ out' = oo
    BY <1>3, <1>11, EmptySeq
  <2> HIDE DEF o
  <2>5. /\ oo \in Seq(Byte) /\ Len(oo) = 3*g + 3
        /\ \A i \in 1..(3*g + 3) : oo[i] = IF i <= 3*g THEN out[i] ELSE o[i - 3*g]
    <3>1. /\ oo \in Seq(Byte) /\ Len(oo) = Len(out) + Len(o)
          /\ \A i \in 1..(Len(out) + Len(o)) : oo[i] = IF i <= Len(out) THEN out[i] ELSE o[i - Len(out)]
      BY <1>4, <2>3, ConcatProperties
    <3>2. Len(out) = 3*g /\ Len(out) + Len(o) = 3*g + 3
      BY <1>4, <2>3
    <3> HIDE DEF oo
    <3> QED
      BY <3>1, <3>2
  <2> HIDE DEF oo
  <2>6. \A i \in 1..(3*g + 3) : oo[i] = data[i]
    <3> SUFFICES ASSUME NEW i \in 1..(3*g + 3) PROVE oo[i] = data[i]
      OBVIOUS
    <3>1. CASE i <= 3*g
      <4>1. i \in 1..(3*g)
        BY <3>1
      <4> QED
        BY <1>4, <2>5, <3>1, <4>1
    <3>2. CASE ~(i <= 3*g)
      <4>1. i - 3*g \in 1..3 /\ 3*g + (i - 3*g) = i /\ i <= n
        BY <1>4, <2>2, <3>2
      <4>2. Triple(data, g)[i - 3*g] = data[i]
        BY <4>1 DEF Triple, n
      <4> QED
        BY <2>3, <2>5, <3>2, <4>1, <4>2
    <3> QED
      BY <3>1, <3>2
  <2>7. g + 1 \in Nat /\ 3 * (g + 1) = 3*g + 3 /\ 4 * (g + 1) = 4*g + 4
    OBVIOUS
  <2>8. DecodingAt(g + 1)'
    BY <1>2, <1>4, <2>1, <2>2, <2>4, <2>5, <2>6, <2>7 DEF DecodingAt, n, c
  <2>10. op' = "decoding"
    BY <1>4, <1>13, <2>2, <2>4, <2>5
  <2>9. TypeOK' /\ TextInv'
    BY <1>2, <1>4, <2>4, <2>5, <2>10, EmptySeq DEF TypeOK, TextInv
  <2> QED
    BY <1>2, <2>7, <2>8, <2>9, <2>10 DEF Inv
<1>12. CASE Len(a4) # 4
  <2>1. group' = a4 /\ UNCHANGED out /\ Len(a4) < 4 /\ pos + 1 = 4*g + Len(a4) /\ pos + 1 <= c
    <3>1. group' = a4 /\ UNCHANGED out
      BY <1>3, <1>12
    <3>2. Len(a4) < 4 /\ pos + 1 = 4*g + Len(a4) /\ pos + 1 <= c
      BY <1>6, <1>9, <1>12
    <3> QED
      BY <3>1, <3>2
  <2>2. DecodingAt(g)'
    BY <1>2, <1>4, <1>10, <2>1 DEF DecodingAt, n, c
  <2>4. op' = "decoding"
    BY <1>4, <1>13, <2>1
  <2>3. TypeOK' /\ TextInv'
    BY <1>2, <1>4, <1>9, <2>1, <2>4 DEF TypeOK, TextInv
  <2> QED
    BY <1>2, <2>2, <2>3, <2>4 DEF Inv
<1> QED
  BY <1>11, <1>12

LEMMA DecodeCharacterStep == ASSUME Inv, decode_character PROVE Inv'
<1>1. CASE own
  BY <1>1, DecodeOwnCharacter
<1>2. CASE ~own
  <2>1. /\ TypeOK /\ 6 * Len(text) + 8 < SizeMod
        /\ UNCHANGED <<data, text, own, length, room, result>> /\ op' \in {"decoding", "crashed"}
    BY DEF Inv, decode_character, Ends
  <2>2. TypeOK'
    <3>1. pos' \in Nat
      BY <2>1 DEF decode_character, TypeOK
    <3> QED
      BY <2>1, <3>1, CharacterWrites DEF TypeOK, Ops
  <2>3. ~own'
    BY <1>2, <2>1
  <2> QED
    BY <2>1, <2>2, <2>3 DEF Inv
<1> QED
  BY <1>1, <1>2

LEMMA DecodeOwnRest ==
  ASSUME Inv, decode_rest, own PROVE Inv'
<1>1. PICK g \in Nat : DecodingAt(g)
  BY DEF Inv, decode_rest
<1> DEFINE m == Len(group)
           n == Len(data)
           c == contents(n)
<1>2. /\ TypeOK /\ TextInv /\ op = "decoding" /\ AtEnd /\ (op' = "decoded" \/ Len(out') > room)
      /\ out' = IF group = <<>> THEN out ELSE out \o SubSeq(Octets(group), 1, m - 1)
      /\ result' = (Len(out') = length) /\ UNCHANGED <<data, text, own, pos, group, length, room>>
      /\ 6 * Len(text) + 8 < SizeMod
  BY DEF Inv, decode_rest, Ends
<1>3. /\ data \in Seq(Byte) /\ n \in Nat /\ m \in Nat /\ group \in Seq(Byte) /\ out \in Seq(Byte)
      /\ pos \in Nat /\ room \in Nat
      /\ m < 4 /\ pos = 4*g + m /\ pos <= c /\ Len(out) = 3*g /\ 3*g <= n
      /\ \A j \in 1..m : group[j] = Quad(data, g)[j]
      /\ \A i \in 1..(3*g) : out[i] = data[i]
      /\ length = n /\ length <= room
  BY <1>1, <1>2, Types DEF DecodingAt, TypeOK
<1>4. /\ c \in Nat /\ n \div 3 \in Nat /\ n % 3 \in 0..2 /\ n = 3 * (n \div 3) + (n % 3)
      /\ c = IF n % 3 = 0 THEN 4 * (n \div 3) ELSE 4 * (n \div 3) + (n % 3) + 1
  <2>1. n \in Nat
    BY <1>3
  <2> QED
    BY <2>1, Lengths
<1>5. pos = c
  BY <1>2, <1>3, AtContents
<1>6. m = 0 <=> group = <<>>
  BY <1>3, EmptySeq
<1> HIDE DEF n, c, m
<1>7. g = n \div 3 /\ n = 3*g + (n % 3) /\ m = IF n % 3 = 0 THEN 0 ELSE (n % 3) + 1
  <2> DEFINE q == n \div 3
             r == n % 3
  <2>1. /\ q \in Nat /\ r \in 0..2 /\ m \in 0..3 /\ n = 3*q + r
        /\ 4*g + m = IF r = 0 THEN 4*q ELSE 4*q + r + 1
    BY <1>3, <1>4, <1>5
  <2> HIDE DEF q, r
  <2>2. g = q
    BY <2>1
  <2> QED
    BY <2>1, <2>2 DEF q, r
<1>8. out' \in Seq(Byte) /\ Len(out') = n /\ \A i \in 1..n : out'[i] = data[i]
  <2>1. CASE m = 0
    <3>1. n = 3*g /\ out' = out
      BY <1>2, <1>4, <1>6, <1>7, <2>1
    <3> QED
      BY <1>3, <3>1
  <2>2. CASE m # 0
    <3>1. m \in 2..3 /\ n = 3*g + (m - 1) /\ group # <<>>
      BY <1>4, <1>6, <1>7, <2>2
    <3> DEFINE oct == Octets(group)
               u == SubSeq(oct, 1, m - 1)
               ou == out \o u
    <3>2. out' = ou
      BY <1>2, <3>1
    <3>3. /\ oct \in Seq(Byte) /\ Len(oct) = 3 /\ \A i \in 1..(m - 1) : oct[i] = Triple(data, g)[i]
      <4>1. Len(group) \in 1..4
        BY <3>1 DEF m
      <4> QED
        BY <1>3, <4>1, OctetsBack DEF m
    <3> HIDE DEF oct
    <3>4. u \in Seq(Byte) /\ Len(u) = m - 1 /\ \A i \in 1..(m - 1) : u[i] = oct[i]
      <4>1. \A i \in 1..(m - 1) : oct[i] \in Byte
        <5>1. \A i \in 1..(m - 1) : i \in 1..Len(oct)
          BY <3>1, <3>3
        <5> QED
          BY <3>3, <5>1, ElementOfSeq
      <4>2. 1 \in Int /\ m - 1 \in Int /\ 1 <= m - 1 /\ (m - 1) - 1 + 1 = m - 1
        BY <3>1
      <4>3. /\ u \in Seq(Byte) /\ Len(u) = IF 1 <= m - 1 THEN (m - 1) - 1 + 1 ELSE 0
            /\ \A i \in 1..((m - 1) - 1 + 1) : u[i] = oct[1 + i - 1]
        BY <4>1, <4>2, SubSeqProperties
      <4> HIDE DEF u
      <4>4. \A i \in 1..(m - 1) : 1 + i - 1 = i
        BY <3>1
      <4> QED
        BY <4>2, <4>3, <4>4
    <3> HIDE DEF u
    <3>5. /\ ou \in Seq(Byte) /\ Len(ou) = n
          /\ \A i \in 1..n : ou[i] = IF i <= 3*g THEN out[i] ELSE u[i - 3*g]
      <4>1. /\ ou \in Seq(Byte) /\ Len(ou) = Len(out) + Len(u)
            /\ \A i \in 1..(Len(out) + Len(u)) : ou[i] = IF i <= Len(out) THEN out[i] ELSE u[i - Len(out)]
        BY <1>3, <3>4, ConcatProperties
      <4>2. Len(out) = 3*g /\ Len(out) + Len(u) = n
        BY <1>3, <3>1, <3>4
      <4> HIDE DEF ou
      <4> QED
        BY <4>1, <4>2
    <3> HIDE DEF ou
    <3>6. \A i \in 1..n : ou[i] = data[i]
      <4> SUFFICES ASSUME NEW i \in 1..n PROVE ou[i] = data[i]
        OBVIOUS
      <4>1. CASE i <= 3*g
        <5>1. i \in 1..(3*g)
          BY <1>3, <4>1
        <5> QED
          BY <1>3, <3>5, <4>1, <5>1
      <4>2. CASE ~(i <= 3*g)
        <5>1. i - 3*g \in 1..(m - 1) /\ i - 3*g \in 1..3 /\ 3*g + (i - 3*g) = i /\ i <= n
          <6>1. i \in 1..n /\ n = 3*g + (m - 1) /\ m \in 2..4 /\ g \in Nat
            BY <1>3, <3>1
          <6> HIDE DEF n, m
          <6> QED
            BY <4>2, <6>1
        <5>2. Triple(data, g)[i - 3*g] = data[i]
          BY <5>1 DEF Triple, n
        <5> QED
          BY <3>3, <3>4, <3>5, <4>2, <5>1, <5>2
      <4> QED
        BY <4>1, <4>2
    <3> QED
      BY <3>2, <3>5, <3>6
  <2> QED
    BY <2>1, <2>2
<1>9. out' = data
  BY <1>3, <1>8, SeqEqual DEF n
<1>10. result' = TRUE /\ op' = "decoded"
  <2>1. Len(out') = length /\ ~(Len(out') > room)
    BY <1>3, <1>8
  <2> QED
    BY <1>2, <2>1
<1>11. TypeOK' /\ TextInv'
  BY <1>2, <1>8, <1>10 DEF TypeOK, Ops, TextInv
<1> QED
  BY <1>2, <1>9, <1>10, <1>11 DEF Inv

LEMMA DecodeRestStep == ASSUME Inv, AnyTextInv, decode_rest PROVE Inv'
<1>1. CASE own
  BY <1>1, DecodeOwnRest
<1>2. CASE ~own
  <2>1. /\ TypeOK /\ 6 * Len(text) + 8 < SizeMod
        /\ UNCHANGED <<data, text, own, pos, group, length, room>> /\ op' \in {"decoded", "crashed"}
        /\ result' = (Len(out') = length)
    BY DEF Inv, decode_rest, Ends
  <2>2. TypeOK'
    <3>1. Len(group) < 4
      BY DEF AnyTextInv, TakenAt, decode_rest
    <3>2. result' \in BOOLEAN
      BY <2>1
    <3> QED
      BY <2>1, <3>1, <3>2, RestWrites DEF TypeOK, Ops
  <2>3. ~own'
    BY <1>2, <2>1
  <2> QED
    BY <2>1, <2>2, <2>3 DEF Inv
<1> QED
  BY <1>1, <1>2

------------------------------------------------------------------------------
(* Any text.                                                               *)

LEMMA FrontAt ==
  ASSUME NEW t, Len(t) \in Nat, NEW e \in 0..Len(t), EqualsAtEnd(t, e)
  PROVE  front(t) = Len(t) - e
<1> DEFINE N == Len(t)
<1>1. N - e \in 0..N /\ N - (N - e) = e
  OBVIOUS
<1>2. ASSUME NEW n \in 0..N, EqualsAtEnd(t, N - n) PROVE n = N - e
  <2>1. ASSUME n > N - e PROVE FALSE
    <3>1. n \in (N - e + 1)..N /\ N - n < N /\ N - (N - n) = n
      BY <2>1
    <3> QED
      BY <1>2, <3>1 DEF EqualsAtEnd
  <2>2. ASSUME n < N - e PROVE FALSE
    <3>1. N - e \in (N - (N - n) + 1)..N /\ e < N
      BY <2>2
    <3> QED
      BY <1>2, <3>1 DEF EqualsAtEnd
  <2> QED
    BY <2>1, <2>2
<1>3. EqualsAtEnd(t, N - (N - e))
  BY <1>1
<1> QED
  BY <1>1, <1>2, <1>3 DEF front

LEMMA Quarters ==
  ASSUME NEW n \in Nat
  PROVE  /\ (6 * n) \div 8 \in Nat /\ (n + 3) \div 4 \in Nat /\ (6 * n) \div 8 + (n + 3) \div 4 = n
         /\ \A g \in Nat, m \in 0..3 :
              4*g + m <= n => 3*g + (IF m = 0 THEN 0 ELSE m - 1) <= (6 * n) \div 8
<1>1. PICK q \in Nat, r \in 0..3 : n = 4*q + r
  <2>1. n \div 4 \in Nat /\ n % 4 \in 0..3 /\ n = 4 * (n \div 4) + (n % 4)
    OBVIOUS
  <2> QED
    BY <2>1
<1>2. (n + 3) \div 4 = IF r = 0 THEN q ELSE q + 1
  BY <1>1
<1>3. (6 * n) \div 8 = 3*q + (IF r = 0 THEN 0 ELSE r - 1)
  <2>1. CASE r = 0
    <3>1. 6 * n = 8 * (3*q) + 0
      BY <1>1, <2>1
    <3> QED
      BY <2>1, <3>1
  <2>2. CASE r = 1
    <3>1. 6 * n = 8 * (3*q) + 6
      BY <1>1, <2>2
    <3> QED
      BY <2>2, <3>1
  <2>3. CASE r = 2
    <3>1. 6 * n = 8 * (3*q + 1) + 4
      BY <1>1, <2>3
    <3> QED
      BY <2>3, <3>1
  <2>4. CASE r = 3
    <3>1. 6 * n = 8 * (3*q + 2) + 2
      BY <1>1, <2>4
    <3> QED
      BY <2>4, <3>1
  <2> QED
    BY <2>1, <2>2, <2>3, <2>4
<1>4. ASSUME NEW g \in Nat, NEW m \in 0..3, 4*g + m <= n
      PROVE  3*g + (IF m = 0 THEN 0 ELSE m - 1) <= 3*q + (IF r = 0 THEN 0 ELSE r - 1)
  <2>1. g < q \/ (g = q /\ m <= r)
    BY <1>1, <1>4
  <2> QED
    BY <1>1, <2>1
<1> QED
  BY <1>1, <1>2, <1>3, <1>4

\* A length that did not wrap round is as many bytes as the characters in front
\* of the padding make, less one for each group of padding.  It wraps round if
\* more than three quarters of the text are padding, or there is no text.
LEMMA LengthOfAnyText ==
  ASSUME SizeMod \in Nat, NEW t \in Seq(Byte), 6 * Len(t) + 8 < SizeMod,
         NEW l \in decoded_length(t)
  PROVE  /\ front(t) \in 0..Len(t) /\ EqualsAtEnd(t, Len(t) - front(t))
         /\ l \in Nat /\ PaddingGroups(t) \in Int
         /\ l <= SizeMod \div 2 =>
              l <= (6 * front(t)) \div 8 /\ l + PaddingGroups(t) = (6 * front(t)) \div 8
         /\ ~MostlyPadding(t) => l <= SizeMod \div 2
<1> DEFINE N == Len(t)
           f == front(t)
           v == (6 * N) \div 8
           w == (N + 3) \div 4
           x == (6 * f) \div 8
           y == (f + 3) \div 4
<1>0. N \in Nat
  OBVIOUS
<1>1. PICK e \in numEq(t) : l = ((((6 * N) % SizeMod) \div 8) - e) % SizeMod
  BY DEF decoded_length
<1>2. /\ e \in 0..(N + 1) /\ f \in 0..N /\ EqualsAtEnd(t, N - f)
      /\ e = N - f \/ (e = N + 1 /\ f = 0)
  <2>1. CASE e \in 0..N /\ EqualsAtEnd(t, e)
    <3>1. f = N - e
      BY <2>1, FrontAt
    <3> HIDE DEF f
    <3> QED
      BY <2>1, <3>1
  <2>2. CASE e = N + 1 /\ \A k \in 1..N : t[k] = Equals
    <3>1. N \in 0..N /\ EqualsAtEnd(t, N)
      BY <2>2 DEF EqualsAtEnd
    <3>2. f = N - N
      BY <3>1, FrontAt
    <3> HIDE DEF f
    <3> QED
      BY <2>2, <3>1, <3>2
  <2> QED
    BY <2>1, <2>2 DEF numEq
<1>3. /\ v \in Nat /\ w \in Nat /\ v + w = N
      /\ x \in Nat /\ y \in Nat /\ x + y = f
  <2>1. f \in Nat
    BY <1>2
  <2> HIDE DEF f
  <2> QED
    BY <2>1, Quarters
<1>4. y <= w
  BY <1>2
<1>5. (6 * N) % SizeMod = 6 * N
  <2>1. 6 * N \in 0..(SizeMod - 1)
    OBVIOUS
  <2> QED
    BY <2>1
<1>6. l = (v - e) % SizeMod
  BY <1>1, <1>5
<1>7. v <= N /\ 4 * v <= 3 * N /\ 3 * N < 4 * v + 4
  OBVIOUS
<1>8. PaddingGroups(t) = w - y /\ (N = 0 => f = 0)
  BY <1>2 DEF PaddingGroups
<1>9. ~MostlyPadding(t) => N # 0 /\ 4 * (N - f) <= 3 * N
  <2>1. N = 0 => t = <<>>
    BY EmptySeq
  <2> QED
    BY <1>2, <2>1 DEF MostlyPadding
<1> HIDE DEF N, f, v, w, x, y
<1>10. N \in Nat /\ SizeMod \in Nat /\ 6 * N + 8 < SizeMod
  BY <1>0 DEF N
<1>11. CASE v - e >= 0
  <2>1. l = v - e /\ e = N - f
    <3>1. v - e \in 0..(SizeMod - 1)
      BY <1>2, <1>3, <1>7, <1>10, <1>11
    <3>2. l = v - e
      BY <1>6, <1>10, <3>1
    <3> QED
      BY <1>2, <1>3, <1>7, <1>10, <1>11, <3>2
  <2>2. l <= SizeMod \div 2
    BY <1>2, <1>3, <1>7, <1>10, <2>1
  <2>3. l + (w - y) = x /\ l <= x
    BY <1>2, <1>3, <1>4, <1>10, <2>1
  <2> QED
    BY <1>2, <1>3, <1>8, <1>11, <2>1, <2>2, <2>3 DEF f, x, N
<1>12. CASE v - e < 0
  <2>1. l = SizeMod + (v - e) /\ l \in Nat
    <3>1. SizeMod + (v - e) \in 0..(SizeMod - 1)
      BY <1>2, <1>3, <1>7, <1>10, <1>12
    <3>2. (v - e) % SizeMod = (SizeMod + (v - e)) % SizeMod
      BY <1>2, <1>3, <1>10
    <3> QED
      BY <1>6, <1>10, <3>1, <3>2
  <2>2. l > SizeMod \div 2
    BY <1>2, <1>3, <1>7, <1>10, <2>1
  <2>3. MostlyPadding(t)
    <3>1. e = N - f => 4 * (N - f) > 3 * N
      BY <1>2, <1>3, <1>7, <1>10, <1>12
    <3>2. e = N + 1 /\ f = 0 /\ N # 0 => 4 * (N - f) > 3 * N
      BY <1>10
    <3> QED
      BY <1>2, <1>9, <1>10, <3>1, <3>2
  <2> QED
    BY <1>2, <1>3, <1>8, <2>1, <2>2, <2>3 DEF f, N
<1> QED
  BY <1>3, <1>2, <1>10, <1>11, <1>12

\* What the groups that have been taken make fits the length and the groups of
\* padding.
LEMMA TakenFits ==
  ASSUME TypeOK, 6 * Len(text) + 8 < SizeMod, NEW g \in Nat, NEW m \in 0..3,
         4*g + m <= Len(text), \A k \in 1..(4*g + m) : text[k] # Equals,
         length \in decoded_length(text), length <= SizeMod \div 2
  PROVE  3*g + (IF m = 0 THEN 0 ELSE m - 1) <= length + PaddingGroups(text)
<1> DEFINE f == front(text)
           N == Len(text)
<1>1. text \in Seq(Byte) /\ SizeMod \in Nat /\ N \in Nat
  BY Types, Base64Assumption DEF TypeOK
<1>2. f \in 0..N /\ EqualsAtEnd(text, N - f) /\ length + PaddingGroups(text) = (6 * f) \div 8
  BY <1>1, LengthOfAnyText
<1>3. 4*g + m <= f
  <2>1. ASSUME f < 4*g + m PROVE FALSE
    <3>1. /\ 4*g + m \in (N - (N - f) + 1)..N /\ 4*g + m \in 1..(4*g + m)
      <4>1. f \in Nat
        BY <1>1, <1>2
      <4> HIDE DEF f
      <4> QED
        BY <1>1, <2>1, <4>1
    <3>2. text[4*g + m] = Equals
      BY <1>2, <3>1 DEF EqualsAtEnd
    <3> QED
      BY <3>1, <3>2
  <2>2. f \in Nat
    BY <1>1, <1>2
  <2> HIDE DEF f
  <2> QED
    BY <2>1, <2>2
<1>4. f \in Nat
  BY <1>1, <1>2
<1> HIDE DEF f
<1>5. 3*g + (IF m = 0 THEN 0 ELSE m - 1) <= (6 * f) \div 8
  BY <1>3, <1>4, Quarters
<1> QED
  BY <1>2, <1>5

LEMMA DecodeAnyText == ASSUME Inv, decode PROVE AnyTextInv'
<1>1. PICK l \in decoded_length(text) :
        \/ l <= SizeMod \div 2 /\ Begin("decoding", l, l)
        \/ l > SizeMod \div 2 /\ op' = "thrown" /\ UNCHANGED text
        \/ \E n \in Rooms : IF n < l THEN Refuse("decode_refused", l, n)
                              ELSE Begin("decoding", l, n)
  BY DEF decode
<1>2. /\ text \in Seq(Byte) /\ Len(text) \in Nat /\ SizeMod \in Nat /\ l \in Nat
  <2>1. TypeOK /\ SizeMod \in Nat /\ 6 * Len(text) + 8 < SizeMod /\ text \in Seq(Byte)
    BY Base64Assumption DEF Inv, TypeOK
  <2> QED
    BY <2>1, Types, LengthOfAnyText
<1>3. ASSUME NEW n \in Nat, l <= n, n <= SizeMod \div 2, Begin("decoding", l, n) PROVE AnyTextInv'
  <2>1. /\ UNCHANGED text /\ op' = "decoding" /\ length' = l /\ room' = n
        /\ pos' = 0 /\ group' = <<>> /\ out' = <<>>
    BY <1>3 DEF Begin
  <2>2. Len(<<>>) = 0 /\ decoded_length(text)' = decoded_length(text) /\ l <= SizeMod \div 2
    BY <1>2, <1>3, <2>1, EmptySeq DEF decoded_length, numEq, EqualsAtEnd
  <2>3. TakenAt(0)'
    BY <1>2, <1>3, <2>1, <2>2 DEF TakenAt
  <2> QED
    BY <2>1, <2>3 DEF AnyTextInv
<1>4. ASSUME NEW n \in Nat, n < l, Refuse("decode_refused", l, n) PROVE AnyTextInv'
  <2>1. UNCHANGED text /\ op' = "decode_refused" /\ length' = l /\ room' = n
    BY <1>4 DEF Refuse
  <2>2. decoded_length(text)' = decoded_length(text)
    BY <2>1 DEF decoded_length, numEq, EqualsAtEnd
  <2> QED
    BY <1>4, <2>1, <2>2 DEF AnyTextInv
<1>5. ASSUME l > SizeMod \div 2, op' = "thrown", UNCHANGED text PROVE AnyTextInv'
  <2>1. decoded_length(text)' = decoded_length(text)
    BY <1>5 DEF decoded_length, numEq, EqualsAtEnd
  <2> QED
    BY <1>5, <2>1 DEF AnyTextInv
<1>6. ASSUME NEW n \in Rooms, IF n < l THEN Refuse("decode_refused", l, n) ELSE Begin("decoding", l, n)
      PROVE  AnyTextInv'
  <2>1. n \in Nat /\ n <= SizeMod \div 2 /\ (~(n < l) => l <= n)
    BY <1>2, Base64Assumption
  <2> QED
    BY <1>3, <1>4, <1>6, <2>1
<1>7. l <= l
  BY <1>2
<1> QED
  BY <1>1, <1>2, <1>3, <1>5, <1>6, <1>7

LEMMA CharacterAnyText == ASSUME Inv, AnyTextInv, decode_character PROVE AnyTextInv'
<1>1. PICK g \in Nat : TakenAt(g)
  BY DEF AnyTextInv, decode_character
<1> DEFINE m == Len(group)
<1>2. /\ TypeOK /\ 6 * Len(text) + 8 < SizeMod /\ pos' = pos + 1 /\ UNCHANGED <<text, length, room>>
      /\ op' \in {"decoding", "crashed"} /\ pos < Len(text) /\ text[pos + 1] # Equals
  BY DEF Inv, decode_character, AtEnd, Ends
<1>3. /\ m \in Nat /\ pos \in Nat /\ Len(text) \in Nat /\ Len(out) = 3*g
      /\ m < 4 /\ pos = 4*g + m /\ length <= SizeMod \div 2 /\ length <= room
      /\ length \in decoded_length(text)
  BY <1>1, <1>2, Types DEF TakenAt, TypeOK
<1>4. \A k \in 1..(pos + 1) : text[k] # Equals
  <2>1. \A k \in 1..(pos + 1) : k \in 1..pos \/ k = pos + 1
    BY <1>3
  <2> QED
    BY <1>1, <1>2, <2>1 DEF TakenAt
<1>5. decoded_length(text)' = decoded_length(text) /\ PaddingGroups(text)' = PaddingGroups(text)
  BY <1>2 DEF decoded_length, numEq, EqualsAtEnd, PaddingGroups, front
<1> HIDE DEF m
<1>6. PICK h \in Nat, i \in 0..3 : Len(group') = i /\ pos + 1 = 4*h + i /\ Len(out') = 3*h
  <2>1. CASE m = 3
    <3>1. Len(group') = 0 /\ Len(out') = 3*g + 3
      BY <1>2, <1>3, <2>1, CharacterWrites DEF m
    <3>2. g + 1 \in Nat /\ 3 * (g + 1) = 3*g + 3 /\ 4 * (g + 1) = 4*g + 4
      OBVIOUS
    <3>3. pos + 1 = 4 * (g + 1) + 0
      BY <1>3, <2>1
    <3> QED
      BY <3>1, <3>2, <3>3
  <2>2. CASE m # 3
    <3>1. Len(group') = m + 1 /\ out' = out
      BY <1>2, <2>2, CharacterWrites DEF m
    <3>2. m + 1 \in 0..3 /\ pos + 1 = 4*g + (m + 1)
      BY <1>3, <2>2
    <3> QED
      BY <1>3, <3>1, <3>2
  <2> QED
    BY <2>1, <2>2
<1>7. CASE op' = "decoding"
  <2>1. TakenAt(h)'
    BY <1>2, <1>3, <1>4, <1>5, <1>6 DEF TakenAt
  <2> QED
    BY <1>7, <2>1 DEF AnyTextInv
<1>8. CASE op' = "crashed"
  <2>1. 4*h + i = pos + 1 /\ 4*h + i <= Len(text) /\ 3*h \in Nat
    BY <1>2, <1>3, <1>6
  <2>2. \A k \in 1..(4*h + i) : text[k] # Equals
    BY <1>4, <2>1
  <2>3. 3*h + (IF i = 0 THEN 0 ELSE i - 1) <= length + PaddingGroups(text)
    BY <1>2, <1>3, <2>1, <2>2, TakenFits
  <2>4. length + PaddingGroups(text) \in Int
    <3>1. text \in Seq(Byte) /\ SizeMod \in Nat
      BY <1>2, Base64Assumption DEF TypeOK
    <3>2. length \in Nat /\ PaddingGroups(text) \in Int
      BY <1>2, <1>3, <3>1, LengthOfAnyText
    <3> QED
      BY <3>2
  <2>5. 3*h <= length + PaddingGroups(text)
    <3> DEFINE z == length + PaddingGroups(text)
    <3>1. z \in Int /\ 3*h + (IF i = 0 THEN 0 ELSE i - 1) <= z
      BY <2>3, <2>4
    <3> HIDE DEF z
    <3>2. 3*h <= z
      BY <2>1, <3>1
    <3> QED
      BY <3>2 DEF z
  <2> QED
    BY <1>2, <1>3, <1>5, <1>6, <1>8, <2>5 DEF AnyTextInv
<1> QED
  BY <1>2, <1>7, <1>8

LEMMA RestAnyText == ASSUME Inv, AnyTextInv, decode_rest PROVE AnyTextInv'
<1>1. PICK g \in Nat : TakenAt(g)
  BY DEF AnyTextInv, decode_rest
<1> DEFINE m == Len(group)
<1>2. /\ TypeOK /\ 6 * Len(text) + 8 < SizeMod /\ UNCHANGED <<text, length, room>>
      /\ op' \in {"decoded", "crashed"}
  BY DEF Inv, decode_rest, Ends
<1>3. /\ m \in 0..3 /\ 4*g + m <= Len(text) /\ Len(out) = 3*g
      /\ \A k \in 1..(4*g + m) : text[k] # Equals
      /\ length \in decoded_length(text) /\ length <= SizeMod \div 2 /\ length <= room
  <2>1. m \in Nat
    BY <1>2, Types
  <2>2. m < 4
    BY <1>1 DEF TakenAt
  <2>3. m \in 0..3
    <3> HIDE DEF m
    <3> QED
      BY <2>1, <2>2
  <2> QED
    BY <1>1, <2>3 DEF TakenAt
<1>4. Len(out') = 3*g + (IF m = 0 THEN 0 ELSE m - 1)
  <2>1. m < 4
    <3>1. m \in 0..3
      BY <1>3
    <3> HIDE DEF m
    <3> QED
      BY <3>1
  <2>2. Len(out') = IF m = 0 THEN 3*g ELSE 3*g + m - 1
    BY <1>2, <1>3, <2>1, RestWrites
  <2> HIDE DEF m
  <2> QED
    BY <1>3, <2>2
<1>5. PaddingGroups(text)' = PaddingGroups(text)
  BY <1>2 DEF EqualsAtEnd, PaddingGroups, front
<1> HIDE DEF m
<1>6. Len(out') <= length + PaddingGroups(text)
  BY <1>2, <1>3, <1>4, TakenFits
<1> QED
  BY <1>2, <1>3, <1>5, <1>6 DEF AnyTextInv

LEMMA Invariance == Spec => []Inv /\ []AnyTextInv
<1>1. Init => Inv /\ AnyTextInv
  <2> SUFFICES ASSUME Init PROVE Inv /\ AnyTextInv
    OBVIOUS
  <2>1. TypeOK
    BY EmptySeq, Base64Assumption DEF Init, TypeOK, Ops
  <2>2. 6 * Len(text) + 8 < SizeMod
    <3>1. PICK s \in Inputs \cup GivenTexts : Len(text) = Len(s) \/ Len(text) = 0
      BY EmptySeq DEF Init
    <3>2. Len(s) \in Nat /\ SizeMod \in Nat /\ 8 * (Len(s) + 3) < SizeMod
      BY Base64Assumption
    <3>3. CASE Len(text) = Len(s)
      BY <3>2, <3>3
    <3>4. CASE Len(text) = 0
      BY <3>2, <3>4
    <3> QED
      BY <3>1, <3>3, <3>4
  <2> QED
    BY <2>1, <2>2 DEF Init, Inv, AnyTextInv
<1>2. Inv /\ AnyTextInv /\ [Next]_vars => Inv' /\ AnyTextInv'
  <2> SUFFICES ASSUME Inv, AnyTextInv, [Next]_vars PROVE Inv' /\ AnyTextInv'
    OBVIOUS
  <2>1. CASE UNCHANGED vars
    <3>1. Inv'
      BY <2>1 DEF vars, Inv, TypeOK, TextInv, EncodingAt, DecodingAt
    <3>2. AnyTextInv'
      BY <2>1 DEF vars, AnyTextInv, TakenAt, decoded_length, numEq, EqualsAtEnd, PaddingGroups, front
    <3> QED
      BY <3>1, <3>2
  <2>2. CASE encode \/ encode_byte \/ encode_rest \/ strip_padding
    <3>1. op' \in {"encoding", "encode_refused", "encoded", "stripped"}
      BY <2>2 DEF encode, Begin, Refuse, encode_byte, encode_rest, strip_padding
    <3>2. AnyTextInv'
      BY <3>1 DEF AnyTextInv
    <3> QED
      BY <2>2, <3>2, EncodeStep, EncodeByteStep, EncodeRestStep, StripStep
  <2>3. CASE decode
    BY <2>3, DecodeStep, DecodeAnyText
  <2>4. CASE decode_character
    BY <2>4, DecodeCharacterStep, CharacterAnyText
  <2>5. CASE decode_rest
    BY <2>5, DecodeRestStep, RestAnyText
  <2> QED
    BY <2>1, <2>2, <2>3, <2>4, <2>5 DEF Next
<1> QED
  BY <1>1, <1>2, PTL DEF Spec

\* Bytes stay bytes, in the text and in what is decoded, whatever the text.
THEOREM TypeCorrect == Spec => []TypeOK
  BY Invariance, PTL DEF Inv

\* encode never writes behind its output.  decode of any text writes at most one
\* byte more than decoded_length for every group of four characters that is padding
\* and nothing else, so it stays inside its output if there is no such group.
THEOREM OverrunIsBounded == Spec => []WritesInBounds
<1>1. Inv /\ AnyTextInv => WritesInBounds
  <2> SUFFICES ASSUME Inv, AnyTextInv PROVE WritesInBounds
    OBVIOUS
  <2> DEFINE n == Len(data)
  <2>1. n \in Nat /\ room \in Nat /\ length \in Nat /\ Len(out) \in Nat /\ Len(group) \in Nat
    BY Types DEF Inv
  <2>2. ASSUME op = "encoding" PROVE Len(out) <= room
    <3>1. PICK g \in Nat : EncodingAt(g)
      BY <2>2 DEF Inv
    <3>2. 3*g <= n /\ Len(out) = 4*g /\ encoded_length(n) <= room
      BY <2>1, <3>1 DEF EncodingAt
    <3>3. /\ n \div 3 \in Nat /\ n % 3 \in 0..2 /\ n = 3 * (n \div 3) + (n % 3)
          /\ encoded_length(n) = 4 * (n \div 3) \/ encoded_length(n) = 4 * (n \div 3) + 4
      BY <2>1, Lengths
    <3> HIDE DEF n
    <3>4. 4*g <= encoded_length(n)
      BY <2>1, <3>2, <3>3
    <3> QED
      BY <2>1, <3>2, <3>3, <3>4
  <2>3. ASSUME op = "decoding" PROVE length <= room /\ Len(out) <= length + PaddingGroups(text)
    <3>1. PICK g \in Nat : TakenAt(g)
      BY <2>3 DEF AnyTextInv
    <3> DEFINE z == length + PaddingGroups(text)
               m == Len(group)
    <3>2. m \in 0..3
      <4>1. m \in Nat /\ m < 4
        BY <2>1, <3>1 DEF TakenAt
      <4> HIDE DEF m
      <4> QED
        BY <4>1
    <3>3. /\ 4*g + m <= Len(text) /\ Len(out) = 3*g
          /\ \A k \in 1..(4*g + m) : text[k] # Equals
          /\ length \in decoded_length(text) /\ length <= SizeMod \div 2 /\ length <= room
      BY <3>1 DEF TakenAt
    <3> HIDE DEF m
    <3>4. 3*g + (IF m = 0 THEN 0 ELSE m - 1) <= z
      BY <3>2, <3>3, TakenFits DEF Inv
    <3>5. z \in Int
      <4>1. /\ text \in Seq(Byte) /\ SizeMod \in Nat /\ 6 * Len(text) + 8 < SizeMod
            /\ length \in decoded_length(text)
        BY <3>3, Base64Assumption DEF Inv, TypeOK
      <4>2. PaddingGroups(text) \in Int
        BY <4>1, LengthOfAnyText
      <4> QED
        BY <2>1, <4>2
    <3> HIDE DEF z
    <3>6. 3*g <= z
      BY <3>2, <3>4, <3>5
    <3> QED
      BY <3>3, <3>6 DEF z
  <2> QED
    BY <2>2, <2>3 DEF Inv, AnyTextInv, WritesInBounds
<1> QED
  BY <1>1, Invariance, PTL

\* Whatever is encoded is decoded again, with its padding or without.
THEOREM DecodesWhatWasEncoded == Spec => []RoundTrip
<1>1. Inv => RoundTrip
  BY DEF Inv, RoundTrip
<1> QED
  BY <1>1, Invariance, PTL

\* The text of RFC 4648 is as long as encoded_length says.
LEMMA ReferenceLength == ASSUME TypeOK PROVE Len(Reference(data)) = encoded_length(Len(data))
<1> DEFINE n == Len(data)
           f == Reference(data)
           N == 4 * ((n + 2) \div 3)
<1>1. n \in Nat
  BY Types
<1>2. (n + 2) \div 3 = (n + 2 - ((n + 2) % 3)) \div 3 /\ N \in Nat
  <2>1. PICK q \in Nat, r \in 0..2 : n + 2 = 3*q + r
    <3>1. (n + 2) \div 3 \in Nat /\ (n + 2) % 3 \in 0..2
          /\ n + 2 = 3 * ((n + 2) \div 3) + ((n + 2) % 3)
      BY <1>1
    <3> QED
      BY <3>1
  <2>2. (n + 2) \div 3 = q /\ (n + 2) % 3 = r
    BY <1>1, <2>1
  <2>3. n + 2 - r = 3*q
    BY <1>1, <2>1
  <2>4. (3*q) \div 3 = q
    OBVIOUS
  <2> QED
    BY <2>2, <2>3, <2>4
<1>3. f \in [1..N -> {f[j] : j \in 1..N}]
  BY DEF Reference
<1> HIDE DEF f, N
<1>4. Len(f) = N
  BY <1>2, <1>3, FunctionSeq
<1> QED
  BY <1>2, <1>4 DEF f, N, encoded_length

\* encode refuses only what is too small.  decode of encode's text refuses only
\* buffers that are too small for the data and does not throw unless the text is
\* empty; decode of any other text whose padding is at most three quarters of it
\* refuses only what the characters in front of the padding do not fit in, and does
\* not throw.
THEOREM RefusalsAreDue == Spec => []RefusesSmallBuffersOnly
<1>1. Inv /\ AnyTextInv => RefusesSmallBuffersOnly
  <2> SUFFICES ASSUME Inv, AnyTextInv PROVE RefusesSmallBuffersOnly
    OBVIOUS
  <2>1. op = "encode_refused" => room < Len(Reference(data))
    BY ReferenceLength DEF Inv
  <2>2. own /\ data # <<>> => op # "thrown" /\ (op = "decode_refused" => room < Len(data))
    BY DEF Inv
  <2>3. ASSUME ~MostlyPadding(text)
        PROVE  op # "thrown" /\ (op = "decode_refused" => room < (6 * front(text)) \div 8)
    <3>1. text \in Seq(Byte) /\ SizeMod \in Nat /\ 6 * Len(text) + 8 < SizeMod /\ room \in Nat
      BY Base64Assumption DEF Inv, TypeOK
    <3>2. ASSUME NEW l \in decoded_length(text)
          PROVE  /\ l \in Nat /\ l <= SizeMod \div 2 /\ l <= (6 * front(text)) \div 8
                 /\ front(text) \in Nat
      <4>1. Len(text) \in Nat
        BY <3>1
      <4> QED
        BY <2>3, <3>1, <4>1, LengthOfAnyText
    <3>3. ASSUME op = "thrown" PROVE FALSE
      <4>1. PICK l \in decoded_length(text) : l > SizeMod \div 2
        BY <3>3 DEF AnyTextInv
      <4> QED
        BY <3>1, <3>2, <4>1
    <3>4. ASSUME op = "decode_refused" PROVE room < (6 * front(text)) \div 8
      <4>1. length \in decoded_length(text) /\ room < length
        BY <3>4 DEF AnyTextInv
      <4>2. /\ length \in Nat /\ length <= (6 * front(text)) \div 8 /\ front(text) \in Nat
        BY <3>2, <4>1
      <4> DEFINE x == (6 * front(text)) \div 8
      <4>3. x \in Nat
        BY <4>2
      <4> HIDE DEF x
      <4> QED
        BY <3>1, <4>1, <4>2, <4>3 DEF x
    <3> QED
      BY <3>3, <3>4
  <2> QED
    BY <2>1, <2>2, <2>3 DEF RefusesSmallBuffersOnly
<1> QED
  BY <1>1, Invariance, PTL

------------------------------------------------------------------------------
(* The text of RFC 4648.                                                   *)

\* Each half of a byte is two of the next, and a bit.
LEMMA Halves ==
  ASSUME NEW x \in Byte
  PROVE  /\ x = 2 * (x \div 2) + ((x \div 1) % 2)
         /\ x \div 2 = 2 * (x \div 4) + ((x \div 2) % 2)
         /\ x \div 4 = 2 * (x \div 8) + ((x \div 4) % 2)
         /\ x \div 8 = 2 * (x \div 16) + ((x \div 8) % 2)
         /\ x \div 16 = 2 * (x \div 32) + ((x \div 16) % 2)
         /\ x \div 32 = 2 * (x \div 64) + ((x \div 32) % 2)
         /\ x \div 64 = 2 * (x \div 128) + ((x \div 64) % 2)
         /\ x \div 128 = (x \div 128) % 2
<1>1. ASSUME NEW m \in Nat PROVE m = 2 * (m \div 2) + (m % 2)
  OBVIOUS
<1>2. /\ x \div 1 = x
      /\ (x \div 2) \div 2 = x \div 4 /\ (x \div 4) \div 2 = x \div 8 /\ (x \div 8) \div 2 = x \div 16
      /\ (x \div 16) \div 2 = x \div 32 /\ (x \div 32) \div 2 = x \div 64 /\ (x \div 64) \div 2 = x \div 128
      /\ x \div 128 < 2
  BY DEF Byte
<1>3. /\ x \in Nat /\ x \div 2 \in Nat /\ x \div 4 \in Nat /\ x \div 8 \in Nat /\ x \div 16 \in Nat
      /\ x \div 32 \in Nat /\ x \div 64 \in Nat /\ x \div 128 \in Nat
  BY DEF Byte
<1> QED
  BY <1>1, <1>2, <1>3

\* The first six bits of a byte, the last two and the first four of the next, the
\* last four and the first two, the last six.
LEMMA SixBits ==
  ASSUME NEW a \in Byte, NEW b \in Byte
  PROVE  /\ 32 * ((a \div 128) % 2) + 16 * ((a \div 64) % 2) + 8 * ((a \div 32) % 2)
            + 4 * ((a \div 16) % 2) + 2 * ((a \div 8) % 2) + ((a \div 4) % 2) = a \div 4
         /\ 32 * ((a \div 2) % 2) + 16 * ((a \div 1) % 2) + 8 * ((b \div 128) % 2)
            + 4 * ((b \div 64) % 2) + 2 * ((b \div 32) % 2) + ((b \div 16) % 2) = (a % 4) * 16 + (b \div 16)
         /\ 32 * ((a \div 8) % 2) + 16 * ((a \div 4) % 2) + 8 * ((a \div 2) % 2)
            + 4 * ((a \div 1) % 2) + 2 * ((b \div 128) % 2) + ((b \div 64) % 2) = (a % 16) * 4 + (b \div 64)
         /\ 32 * ((a \div 32) % 2) + 16 * ((a \div 16) % 2) + 8 * ((a \div 8) % 2)
            + 4 * ((a \div 4) % 2) + 2 * ((a \div 2) % 2) + ((a \div 1) % 2) = a % 64
<1> DEFINE a1 == a \div 2
           a2 == a \div 4
           a3 == a \div 8
           a4 == a \div 16
           a5 == a \div 32
           a6 == a \div 64
           a7 == a \div 128
           b4 == b \div 16
           b5 == b \div 32
           b6 == b \div 64
           b7 == b \div 128
<1>1. /\ a = 2*a1 + ((a \div 1) % 2) /\ a1 = 2*a2 + (a1 % 2) /\ a2 = 2*a3 + (a2 % 2)
      /\ a3 = 2*a4 + (a3 % 2) /\ a4 = 2*a5 + (a4 % 2) /\ a5 = 2*a6 + (a5 % 2)
      /\ a6 = 2*a7 + (a6 % 2) /\ a7 = a7 % 2
  BY Halves
<1>2. b4 = 2*b5 + (b4 % 2) /\ b5 = 2*b6 + (b5 % 2) /\ b6 = 2*b7 + (b6 % 2) /\ b7 = b7 % 2
  BY Halves
<1>3. a % 4 = a - 4*a2 /\ a % 16 = a - 16*a4 /\ a % 64 = a - 64*a6
  BY DEF Byte
<1>4. /\ a \in Int /\ a1 \in Int /\ a2 \in Int /\ a3 \in Int /\ a4 \in Int /\ a5 \in Int /\ a6 \in Int
      /\ a7 \in Int /\ b4 \in Int /\ b5 \in Int /\ b6 \in Int /\ b7 \in Int
  BY DEF Byte
<1> DEFINE c0 == (a \div 1) % 2
           c1 == a1 % 2
           c2 == a2 % 2
           c3 == a3 % 2
           c4 == a4 % 2
           c5 == a5 % 2
           c6 == a6 % 2
           c7 == a7 % 2
           d4 == b4 % 2
           d5 == b5 % 2
           d6 == b6 % 2
           d7 == b7 % 2
<1>5. /\ a = 2*a1 + c0 /\ a1 = 2*a2 + c1 /\ a2 = 2*a3 + c2 /\ a3 = 2*a4 + c3
      /\ a4 = 2*a5 + c4 /\ a5 = 2*a6 + c5 /\ a6 = 2*a7 + c6 /\ a7 = c7
      /\ b4 = 2*b5 + d4 /\ b5 = 2*b6 + d5 /\ b6 = 2*b7 + d6 /\ b7 = d7
  BY <1>1, <1>2
<1>6. /\ c0 \in Int /\ c1 \in Int /\ c2 \in Int /\ c3 \in Int /\ c4 \in Int /\ c5 \in Int
      /\ c6 \in Int /\ c7 \in Int /\ d4 \in Int /\ d5 \in Int /\ d6 \in Int /\ d7 \in Int
  <2>1. a \div 1 \in Int
    BY DEF Byte
  <2>2. ASSUME NEW m \in Int PROVE m % 2 \in Int
    OBVIOUS
  <2> HIDE DEF a1, a2, a3, a4, a5, a6, a7, b4, b5, b6, b7
  <2> QED
    BY <1>4, <2>1, <2>2
<1> HIDE DEF c0, c1, c2, c3, c4, c5, c6, c7, d4, d5, d6, d7
<1>7. /\ 32*c7 + 16*c6 + 8*c5 + 4*c4 + 2*c3 + c2 = a2
      /\ 32*c1 + 16*c0 + 8*d7 + 4*d6 + 2*d5 + d4 = (a % 4) * 16 + b4
      /\ 32*c3 + 16*c2 + 8*c1 + 4*c0 + 2*d7 + d6 = (a % 16) * 4 + b6
      /\ 32*c5 + 16*c4 + 8*c3 + 4*c2 + 2*c1 + c0 = a % 64
  <2> DEFINE r4 == a % 4
             r16 == a % 16
             r64 == a % 64
  <2>1. r4 = a - 4*a2 /\ r16 = a - 16*a4 /\ r64 = a - 64*a6
    BY <1>3
  <2> HIDE DEF r4, r16, r64, a1, a2, a3, a4, a5, a6, a7, b4, b5, b6, b7
  <2> SUFFICES
        /\ 32*c7 + 16*c6 + 8*c5 + 4*c4 + 2*c3 + c2 = a2
        /\ 32*c1 + 16*c0 + 8*d7 + 4*d6 + 2*d5 + d4 = r4 * 16 + b4
        /\ 32*c3 + 16*c2 + 8*c1 + 4*c0 + 2*d7 + d6 = r16 * 4 + b6
        /\ 32*c5 + 16*c4 + 8*c3 + 4*c2 + 2*c1 + c0 = r64
    BY DEF r4, r16, r64
  <2> QED
    BY <1>4, <1>5, <1>6, <2>1
<1> QED
  BY <1>7 DEF c0, c1, c2, c3, c4, c5, c6, c7, d4, d5, d6, d7

\* Bit q of group h.
LEMMA BitOfGroup ==
  ASSUME NEW s \in Seq(Byte), NEW h \in Nat, NEW y \in 0..2, NEW z \in 0..7
  PROVE  Bit(s, 24*h + (8*y + z)) = (Triple(s, h)[y + 1] \div <<128, 64, 32, 16, 8, 4, 2, 1>>[z + 1]) % 2
<1> DEFINE k == 24*h + (8*y + z)
           w == <<128, 64, 32, 16, 8, 4, 2, 1>>[z + 1]
<1>1. k \div 8 = 3*h + y /\ k % 8 = z /\ k \in Nat
  OBVIOUS
<1>2. k < 8 * Len(s) <=> 3*h + (y + 1) <= Len(s)
  <2>1. Len(s) \in Nat
    OBVIOUS
  <2> QED
    BY <2>1
<1>3. (k \div 8) + 1 = 3*h + (y + 1) /\ y + 1 \in 1..3
  BY <1>1
<1>4. w \in {128, 64, 32, 16, 8, 4, 2, 1}
  OBVIOUS
<1>5. (0 \div w) % 2 = 0
  BY <1>4
<1>6. Triple(s, h)[y + 1] = IF 3*h + (y + 1) <= Len(s) THEN s[3*h + (y + 1)] ELSE 0
  BY <1>3 DEF Triple
<1>7. Bit(s, k) = IF k < 8 * Len(s) THEN (s[(k \div 8) + 1] \div w) % 2 ELSE 0
  BY <1>1 DEF Bit
<1> HIDE DEF k, w
<1> QED
  BY <1>2, <1>3, <1>5, <1>6, <1>7 DEF k, w

\* The six bits of character j of a group are its sextet.
LEMMA SixBitsOfGroup ==
  ASSUME NEW s \in Seq(Byte), NEW h \in Nat, NEW j \in 1..4
  PROVE  32 * Bit(s, 24*h + 6*(j - 1)) + 16 * Bit(s, 24*h + 6*(j - 1) + 1)
         + 8 * Bit(s, 24*h + 6*(j - 1) + 2) + 4 * Bit(s, 24*h + 6*(j - 1) + 3)
         + 2 * Bit(s, 24*h + 6*(j - 1) + 4) + Bit(s, 24*h + 6*(j - 1) + 5) = a3_to_a4(Triple(s, h))[j]
<1> DEFINE a == Triple(s, h)
           B(q) == Bit(s, 24*h + q)
<1>1. a[1] \in Byte /\ a[2] \in Byte /\ a[3] \in Byte
  BY TripleType
<1>2. /\ B(0) = (a[1] \div 128) % 2 /\ B(1) = (a[1] \div 64) % 2 /\ B(2) = (a[1] \div 32) % 2
      /\ B(3) = (a[1] \div 16) % 2 /\ B(4) = (a[1] \div 8) % 2 /\ B(5) = (a[1] \div 4) % 2
      /\ B(6) = (a[1] \div 2) % 2 /\ B(7) = (a[1] \div 1) % 2
  <2>1. ASSUME NEW z \in 0..7
        PROVE  B(z) = (a[1] \div <<128, 64, 32, 16, 8, 4, 2, 1>>[z + 1]) % 2
    <3>1. 0 \in 0..2 /\ 0 + 1 = 1 /\ 8*0 + z = z
      OBVIOUS
    <3>2. ASSUME NEW y \in 0..2
          PROVE  Bit(s, 24*h + (8*y + z)) = (a[y + 1] \div <<128, 64, 32, 16, 8, 4, 2, 1>>[z + 1]) % 2
      BY BitOfGroup
    <3> HIDE DEF a
    <3> QED
      BY <3>1, <3>2
  <2> HIDE DEF a, B
  <2> QED
    BY <2>1
<1>3. /\ B(8) = (a[2] \div 128) % 2 /\ B(9) = (a[2] \div 64) % 2 /\ B(10) = (a[2] \div 32) % 2
      /\ B(11) = (a[2] \div 16) % 2 /\ B(12) = (a[2] \div 8) % 2 /\ B(13) = (a[2] \div 4) % 2
      /\ B(14) = (a[2] \div 2) % 2 /\ B(15) = (a[2] \div 1) % 2
  <2>1. ASSUME NEW z \in 0..7
        PROVE  B(8 + z) = (a[2] \div <<128, 64, 32, 16, 8, 4, 2, 1>>[z + 1]) % 2
    <3>1. 1 \in 0..2 /\ 1 + 1 = 2 /\ 8*1 + z = 8 + z
      OBVIOUS
    <3>2. ASSUME NEW y \in 0..2
          PROVE  Bit(s, 24*h + (8*y + z)) = (a[y + 1] \div <<128, 64, 32, 16, 8, 4, 2, 1>>[z + 1]) % 2
      BY BitOfGroup
    <3> HIDE DEF a
    <3> QED
      BY <3>1, <3>2
  <2> HIDE DEF a, B
  <2> QED
    BY <2>1
<1>4. /\ B(16) = (a[3] \div 128) % 2 /\ B(17) = (a[3] \div 64) % 2 /\ B(18) = (a[3] \div 32) % 2
      /\ B(19) = (a[3] \div 16) % 2 /\ B(20) = (a[3] \div 8) % 2 /\ B(21) = (a[3] \div 4) % 2
      /\ B(22) = (a[3] \div 2) % 2 /\ B(23) = (a[3] \div 1) % 2
  <2>1. ASSUME NEW z \in 0..7
        PROVE  B(16 + z) = (a[3] \div <<128, 64, 32, 16, 8, 4, 2, 1>>[z + 1]) % 2
    <3>1. 2 \in 0..2 /\ 2 + 1 = 3 /\ 8*2 + z = 16 + z
      OBVIOUS
    <3>2. ASSUME NEW y \in 0..2
          PROVE  Bit(s, 24*h + (8*y + z)) = (a[y + 1] \div <<128, 64, 32, 16, 8, 4, 2, 1>>[z + 1]) % 2
      BY BitOfGroup
    <3> HIDE DEF a
    <3> QED
      BY <3>1, <3>2
  <2> HIDE DEF a, B
  <2> QED
    BY <2>1
<1>5. /\ 32*B(0) + 16*B(1) + 8*B(2) + 4*B(3) + 2*B(4) + B(5) = a3_to_a4(a)[1]
      /\ 32*B(6) + 16*B(7) + 8*B(8) + 4*B(9) + 2*B(10) + B(11) = a3_to_a4(a)[2]
      /\ 32*B(12) + 16*B(13) + 8*B(14) + 4*B(15) + 2*B(16) + B(17) = a3_to_a4(a)[3]
      /\ 32*B(18) + 16*B(19) + 8*B(20) + 4*B(21) + 2*B(22) + B(23) = a3_to_a4(a)[4]
  <2> HIDE DEF a, B
  <2>1. 32*B(0) + 16*B(1) + 8*B(2) + 4*B(3) + 2*B(4) + B(5) = a[1] \div 4
    BY <1>1, <1>2, SixBits
  <2>2. 32*B(6) + 16*B(7) + 8*B(8) + 4*B(9) + 2*B(10) + B(11) = (a[1] % 4) * 16 + (a[2] \div 16)
    BY <1>1, <1>2, <1>3, SixBits
  <2>3. 32*B(12) + 16*B(13) + 8*B(14) + 4*B(15) + 2*B(16) + B(17) = (a[2] % 16) * 4 + (a[3] \div 64)
    BY <1>1, <1>3, <1>4, SixBits
  <2>4. 32*B(18) + 16*B(19) + 8*B(20) + 4*B(21) + 2*B(22) + B(23) = a[3] % 64
    BY <1>1, <1>4, SixBits
  <2> QED
    BY <2>1, <2>2, <2>3, <2>4 DEF a3_to_a4
<1> HIDE DEF a
<1>6. j \in {1, 2, 3, 4}
  OBVIOUS
<1>7. CASE j = 1
  <2>1. /\ 24*h + 6*(j - 1) = 24*h + 0 /\ 24*h + 6*(j - 1) + 1 = 24*h + 1
        /\ 24*h + 6*(j - 1) + 2 = 24*h + 2 /\ 24*h + 6*(j - 1) + 3 = 24*h + 3
        /\ 24*h + 6*(j - 1) + 4 = 24*h + 4 /\ 24*h + 6*(j - 1) + 5 = 24*h + 5
    BY <1>7
  <2> QED
    BY <1>5, <1>7, <2>1 DEF a
<1>8. CASE j = 2
  <2>1. /\ 24*h + 6*(j - 1) = 24*h + 6 /\ 24*h + 6*(j - 1) + 1 = 24*h + 7
        /\ 24*h + 6*(j - 1) + 2 = 24*h + 8 /\ 24*h + 6*(j - 1) + 3 = 24*h + 9
        /\ 24*h + 6*(j - 1) + 4 = 24*h + 10 /\ 24*h + 6*(j - 1) + 5 = 24*h + 11
    BY <1>8
  <2> QED
    BY <1>5, <1>8, <2>1 DEF a
<1>9. CASE j = 3
  <2>1. /\ 24*h + 6*(j - 1) = 24*h + 12 /\ 24*h + 6*(j - 1) + 1 = 24*h + 13
        /\ 24*h + 6*(j - 1) + 2 = 24*h + 14 /\ 24*h + 6*(j - 1) + 3 = 24*h + 15
        /\ 24*h + 6*(j - 1) + 4 = 24*h + 16 /\ 24*h + 6*(j - 1) + 5 = 24*h + 17
    BY <1>9
  <2> QED
    BY <1>5, <1>9, <2>1 DEF a
<1>10. CASE j = 4
  <2>1. /\ 24*h + 6*(j - 1) = 24*h + 18 /\ 24*h + 6*(j - 1) + 1 = 24*h + 19
        /\ 24*h + 6*(j - 1) + 2 = 24*h + 20 /\ 24*h + 6*(j - 1) + 3 = 24*h + 21
        /\ 24*h + 6*(j - 1) + 4 = 24*h + 22 /\ 24*h + 6*(j - 1) + 5 = 24*h + 23
    BY <1>10
  <2> QED
    BY <1>5, <1>10, <2>1 DEF a
<1> QED
  BY <1>6, <1>7, <1>8, <1>9, <1>10

\* The alphabet of the code is that of RFC 4648.
LEMMA StandardAlphabet == \A k \in 0..63 : Standard[k + 1] = base64_alphabet(k)
<1> DEFINE A == [i \in 1..26 |-> 64 + i]
           B == [i \in 1..26 |-> 96 + i]
           C == [i \in 1..10 |-> 47 + i]
           D == <<43, 47>>
           E == A \o B
           F == E \o C
           G == F \o D
<1>1. A \in Seq(Byte) /\ Len(A) = 26
  <2>1. A \in [1..26 -> Byte]
    BY DEF Byte
  <2> QED
    BY <2>1, FunctionSeq
<1>2. B \in Seq(Byte) /\ Len(B) = 26
  <2>1. B \in [1..26 -> Byte]
    BY DEF Byte
  <2> QED
    BY <2>1, FunctionSeq
<1>3. C \in Seq(Byte) /\ Len(C) = 10
  <2>1. C \in [1..10 -> Byte]
    BY DEF Byte
  <2> QED
    BY <2>1, FunctionSeq
<1>4. D \in Seq(Byte) /\ Len(D) = 2
  BY DEF Byte
<1>5. /\ \A i \in 1..26 : A[i] = 64 + i
      /\ \A i \in 1..26 : B[i] = 96 + i
      /\ \A i \in 1..10 : C[i] = 47 + i
      /\ D[1] = 43 /\ D[2] = 47
  OBVIOUS
<1>6. Standard = G
  BY DEF Standard
<1> HIDE DEF A, B, C, D
<1>7. E \in Seq(Byte) /\ Len(E) = 52 /\ \A i \in 1..52 : E[i] = IF i <= 26 THEN A[i] ELSE B[i - 26]
  <2>2. A \in Seq(Byte) /\ B \in Seq(Byte)
    BY <1>1, <1>2
  <2>1. /\ E \in Seq(Byte) /\ Len(E) = Len(A) + Len(B)
        /\ \A i \in 1..(Len(A) + Len(B)) : E[i] = IF i <= Len(A) THEN A[i] ELSE B[i - Len(A)]
    BY <2>2, ConcatProperties
  <2> HIDE DEF E
  <2> QED
    BY <1>1, <1>2, <2>1
<1> HIDE DEF E
<1>8. F \in Seq(Byte) /\ Len(F) = 62 /\ \A i \in 1..62 : F[i] = IF i <= 52 THEN E[i] ELSE C[i - 52]
  <2>2. E \in Seq(Byte) /\ C \in Seq(Byte)
    BY <1>7, <1>3
  <2>1. /\ F \in Seq(Byte) /\ Len(F) = Len(E) + Len(C)
        /\ \A i \in 1..(Len(E) + Len(C)) : F[i] = IF i <= Len(E) THEN E[i] ELSE C[i - Len(E)]
    BY <2>2, ConcatProperties
  <2> HIDE DEF F
  <2> QED
    BY <1>3, <1>7, <2>1
<1> HIDE DEF F
<1>9. \A i \in 1..64 : G[i] = IF i <= 62 THEN F[i] ELSE D[i - 62]
  <2>3. F \in Seq(Byte) /\ D \in Seq(Byte)
    BY <1>4, <1>8
  <2>1. \A i \in 1..(Len(F) + Len(D)) : G[i] = IF i <= Len(F) THEN F[i] ELSE D[i - Len(F)]
    BY <2>3, ConcatProperties
  <2>2. Len(F) = 62 /\ Len(F) + Len(D) = 64
    BY <1>4, <1>8
  <2> HIDE DEF G
  <2> QED
    BY <2>1, <2>2
<1> HIDE DEF G
<1>10. ASSUME NEW k \in 0..63
       PROVE  Standard[k + 1] = IF k < 26 THEN A[k + 1] ELSE IF k < 52 THEN B[k - 25]
                                ELSE IF k < 62 THEN C[k - 51] ELSE D[k - 61]
  <2>1. /\ k + 1 \in 1..64 /\ (k < 62 => k + 1 \in 1..62) /\ (k < 52 => k + 1 \in 1..52)
        /\ (k + 1 <= 62 <=> k < 62) /\ (k + 1 <= 52 <=> k < 52) /\ (k + 1 <= 26 <=> k < 26)
        /\ (k + 1) - 26 = k - 25 /\ (k + 1) - 52 = k - 51 /\ (k + 1) - 62 = k - 61
    OBVIOUS
  <2>2. Standard[k + 1] = IF k < 62 THEN F[k + 1] ELSE D[k - 61]
    BY <1>6, <1>9, <2>1
  <2>3. k < 62 => F[k + 1] = IF k < 52 THEN E[k + 1] ELSE C[k - 51]
    BY <1>8, <2>1
  <2>4. k < 52 => E[k + 1] = IF k < 26 THEN A[k + 1] ELSE B[k - 25]
    BY <1>7, <2>1
  <2>5. k < 26 => k < 52 /\ k < 62
    OBVIOUS
  <2>6. k < 52 => k < 62
    OBVIOUS
  <2> QED
    BY <2>2, <2>3, <2>4, <2>5, <2>6
<1> SUFFICES ASSUME NEW k \in 0..63 PROVE Standard[k + 1] = base64_alphabet(k)
  OBVIOUS
<1>11. CASE k < 26
  <2>1. base64_alphabet(k) = 65 + k
    BY <1>11 DEF base64_alphabet
  <2> QED
    BY <1>5, <1>10, <1>11, <2>1
<1>12. CASE k \in 26..51
  <2>1. base64_alphabet(k) = 71 + k
    BY <1>12 DEF base64_alphabet
  <2> QED
    BY <1>5, <1>10, <1>12, <2>1
<1>13. CASE k \in 52..61
  <2>1. base64_alphabet(k) = k - 4
    BY <1>13 DEF base64_alphabet
  <2> QED
    BY <1>5, <1>10, <1>13, <2>1
<1>14. CASE k = 62 \/ k = 63
  <2>1. base64_alphabet(k) = IF k = 62 THEN 43 ELSE 47
    BY <1>14 DEF base64_alphabet
  <2> QED
    BY <1>5, <1>10, <1>14, <2>1
<1> QED
  BY <1>11, <1>12, <1>13, <1>14

\* Character j of group h of the text of RFC 4648.
LEMMA ReferenceGroup ==
  ASSUME NEW s \in Seq(Byte), NEW h \in Nat, NEW j \in 1..4, 4*h + j <= encoded_length(Len(s))
  PROVE  Reference(s)[4*h + j] = IF 4*h + j <= contents(Len(s)) THEN Quad(s, h)[j] ELSE Equals
<1> DEFINE n == Len(s)
           p == 4*h + j
           v == 32 * Bit(s, 24*h + 6*(j - 1)) + 16 * Bit(s, 24*h + 6*(j - 1) + 1)
                + 8 * Bit(s, 24*h + 6*(j - 1) + 2) + 4 * Bit(s, 24*h + 6*(j - 1) + 3)
                + 2 * Bit(s, 24*h + 6*(j - 1) + 4) + Bit(s, 24*h + 6*(j - 1) + 5)
<1>1. n \in Nat
  OBVIOUS
<1>2. 6 * (p - 1) = 24*h + 6*(j - 1) /\ p \in Nat /\ 6 * (p - 1) + 0 = 6 * (p - 1)
  OBVIOUS
<1>3. p \in 1..(4 * ((n + 2) \div 3)) /\ (6 * (p - 1) >= 8 * n <=> ~(p <= contents(n)))
  <2>1. PICK q \in Nat, r \in 0..2 : n = 3*q + r
    BY <1>1, Lengths
  <2>2. n \div 3 = q /\ n % 3 = r
    BY <2>1
  <2>3. encoded_length(n) = (IF r = 0 THEN 4*q ELSE 4*q + 4) /\ contents(n) = (IF r = 0 THEN 4*q ELSE 4*q + r + 1)
    BY <1>1, <2>2, Lengths
  <2>4. (n + 2) \div 3 = IF r = 0 THEN q ELSE q + 1
    BY <2>1
  <2>5. p \in Nat /\ p >= 1 /\ p <= encoded_length(n)
    OBVIOUS
  <2> DEFINE c == contents(n)
             d == (n + 2) \div 3
             e == encoded_length(n)
  <2>6. /\ n = 3*q + r /\ e = (IF r = 0 THEN 4*q ELSE 4*q + 4)
        /\ c = (IF r = 0 THEN 4*q ELSE 4*q + r + 1) /\ d = (IF r = 0 THEN q ELSE q + 1) /\ p <= e
    BY <2>1, <2>3, <2>4, <2>5
  <2> HIDE DEF n, p, c, d, e
  <2>7. p \in 1..(4*d) /\ (6 * (p - 1) >= 8 * n <=> ~(p <= c))
    <3>1. CASE r = 0
      BY <2>5, <2>6, <3>1
    <3>2. CASE r = 1
      BY <2>5, <2>6, <3>2
    <3>3. CASE r = 2
      BY <2>5, <2>6, <3>3
    <3> QED
      BY <3>1, <3>2, <3>3
  <2> QED
    BY <2>7 DEF c, d
<1>4. Reference(s)[p] = IF 6 * (p - 1) >= 8 * n THEN Equals ELSE Standard[v + 1]
  BY <1>2, <1>3 DEF Reference
<1>5. v = a3_to_a4(Triple(s, h))[j]
  BY SixBitsOfGroup
<1> HIDE DEF v
<1>6. a3_to_a4(Triple(s, h))[j] \in 0..63
  <2>1. /\ Triple(s, h)[1] \in Byte /\ Triple(s, h)[2] \in Byte /\ Triple(s, h)[3] \in Byte
    BY TripleType
  <2>2. j \in {1, 2, 3, 4}
    OBVIOUS
  <2> QED
    <3> DEFINE a == a3_to_a4(Triple(s, h))
    <3>1. a[1] \in 0..63 /\ a[2] \in 0..63 /\ a[3] \in 0..63 /\ a[4] \in 0..63
      BY <2>1, Split DEF a3_to_a4
    <3> HIDE DEF a
    <3>2. a[j] \in 0..63
      BY <2>2, <3>1
    <3> QED
      BY <3>2 DEF a
<1>7. Standard[v + 1] = Quad(s, h)[j]
  BY <1>5, <1>6, StandardAlphabet DEF Quad
<1> QED
  BY <1>3, <1>4, <1>7

\* The text that the loop makes with shifts and a table is the one that RFC 4648
\* gives bit by bit.
LEMMA TextIsReference ==
  ASSUME TypeOK, TextInv, Len(text) = encoded_length(Len(data)) PROVE text = Reference(data)
<1> DEFINE n == Len(data)
           N == encoded_length(n)
           f == Reference(data)
<1>1. data \in Seq(Byte) /\ n \in Nat /\ N \in Nat /\ contents(n) \in Nat /\ text \in Seq(Byte)
  BY Types, Lengths DEF TypeOK
<1>2. ASSUME NEW k \in 1..N PROVE f[k] = text[k]
  <2>1. PICK h \in Nat, j \in 1..4 : k = 4*h + j
    <3>1. k - 1 \in Nat
      BY <1>1
    <3>2. (k - 1) \div 4 \in Nat /\ ((k - 1) % 4) + 1 \in 1..4
          /\ k = 4 * ((k - 1) \div 4) + (((k - 1) % 4) + 1)
      BY <3>1
    <3> QED
      BY <3>2
  <2>2. k <= N /\ k \in Nat
    BY <1>1
  <2>3. f[k] = IF k <= contents(n) THEN Quad(data, h)[j] ELSE Equals
    BY <1>1, <2>1, <2>2, ReferenceGroup
  <2>4. CASE k <= contents(n)
    BY <2>1, <2>3, <2>4 DEF TextInv
  <2>5. CASE ~(k <= contents(n))
    <3>1. k \in (contents(n) + 1)..Len(text)
      BY <1>1, <2>2, <2>5
    <3> QED
      BY <2>3, <2>5, <3>1 DEF TextInv
  <2> QED
    BY <2>4, <2>5
<1>3. f \in Seq(Byte) /\ Len(f) = N
  <2>1. Len(f) = N
    BY ReferenceLength
  <2>2. DOMAIN f = 1..(4 * ((n + 2) \div 3)) /\ 4 * ((n + 2) \div 3) \in Nat
    BY <1>1 DEF Reference
  <2>3. f \in [1..(4 * ((n + 2) \div 3)) -> {f[k] : k \in 1..(4 * ((n + 2) \div 3))}]
    BY DEF Reference
  <2>4. Len(f) = 4 * ((n + 2) \div 3)
    BY <2>2, <2>3, FunctionSeq
  <2>5. \A k \in 1..N : text[k] \in Byte
    BY <1>1, ElementOfSeq
  <2>6. f \in [1..N -> Byte]
    BY <1>2, <2>1, <2>3, <2>4, <2>5
  <2> QED
    BY <1>1, <2>6, FunctionSeq
<1> HIDE DEF f
<1>4. \A k \in 1..Len(text) : text[k] = f[k]
  BY <1>2
<1>5. text = f
  BY <1>1, <1>3, <1>4, SeqEqual
<1> QED
  BY <1>5 DEF f

\* encode gives the text of RFC 4648, for byte strings of any length.
THEOREM EncodesStandardText == Spec => []EncodesAsStandard
<1>1. Inv => EncodesAsStandard
  BY TextIsReference DEF Inv, EncodesAsStandard
<1> QED
  BY <1>1, Invariance, PTL
==============================================================================
