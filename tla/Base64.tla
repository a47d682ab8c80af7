------------------------------- MODULE Base64 --------------------------------
(***************************************************************************)
(* The class base64 of bot_utility: a byte string is encoded, the padding  *)
(* of a text may be stripped, and a text is decoded, one turn of a loop in *)
(* a step; the text is what encode has written or any other.  The overload *)
(* for strings makes its own room, the one for pointers is given a buffer. *)
(* What is written behind the end of either may end the process.           *)
(* Characters are their codes.                                             *)
(***************************************************************************)
EXTENDS Integers, Sequences

CONSTANTS
  Inputs,      \* byte strings to be encoded
  GivenTexts,  \* texts to be decoded that encode has not written
  Rooms,       \* sizes of the buffers given to the overloads for pointers
  SizeMod      \* one more than the largest std::size_t

Byte == 0..255

ASSUME Base64Assumption ==
  /\ Inputs \subseteq Seq(Byte)
  /\ GivenTexts \subseteq Seq(Byte)
  /\ SizeMod \in Nat
  /\ Rooms \subseteq 0..(SizeMod \div 2)  \* no object is larger
  /\ \A s \in Inputs \cup GivenTexts : 8 * (Len(s) + 3) < SizeMod

VARIABLES
  data,    \* what is encoded
  text,    \* what is stripped or decoded
  own,     \* history: encode has written it
  op,      \* the call under way, or how the last one ended
  pos,     \* characters of the input taken: input - in.begin()
  group,   \* a3 while encoding, a4 while decoding: its first i elements
  out,     \* what has been written: enc_len or dec_len characters, those
           \* behind the end of the output included
  length,  \* characters the call is to write: encoded_length or decoded_length
  room,    \* size of the output
  result   \* what the last call returned

vars == <<data, text, own, op, pos, group, out, length, room, result>>

Ops == {"start", "encoding", "encoded", "encode_refused", "stripped",
        "decoding", "decoded", "decode_refused", "thrown", "crashed"}

TypeOK ==
  /\ data \in Inputs
  /\ text \in Seq(Byte)
  /\ own \in BOOLEAN
  /\ op \in Ops
  /\ pos \in Nat
  /\ group \in Seq(Byte)
  /\ out \in Seq(Byte)
  /\ length \in Nat
  /\ room \in Nat
  /\ result \in BOOLEAN

------------------------------------------------------------------------------
(* The alphabet and the shifts, in arithmetic.                             *)

Equals == 61

\* Variant with a fault: the alphabet for URLs.
base64_alphabet_url(k) ==
  CASE k < 26 -> 65 + k
    [] k \in 26..51 -> 71 + k
    [] k \in 52..61 -> k - 4
    [] k = 62 -> 45
    [] OTHER -> 95

base64_alphabet(k) ==
  CASE k < 26 -> 65 + k
    [] k \in 26..51 -> 71 + k
    [] k \in 52..61 -> k - 4
    [] k = 62 -> 43
    [] OTHER -> 47

b64_lookup(c) ==
  CASE c \in 65..90 -> c - 65
    [] c \in 97..122 -> c - 71
    [] c \in 48..57 -> c + 4
    [] c = 43 -> 62
    [] c = 47 -> 63
    [] OTHER -> 255

a3_to_a4(a) ==
  <<a[1] \div 4,
    (a[1] % 4) * 16 + (a[2] \div 16),
    (a[2] % 16) * 4 + (a[3] \div 64),
    a[3] % 64>>

\* Variant with a fault: the low bits of the second byte are lost.
a4_to_a3_cut(a) ==
  <<(a[1] * 4 + ((a[2] \div 16) % 4)) % 256,
    ((a[2] % 16) * 16 + ((a[3] \div 4) % 8)) % 256,
    ((a[3] % 4) * 64 + a[4]) % 256>>

a4_to_a3(a) ==
  <<(a[1] * 4 + ((a[2] \div 16) % 4)) % 256,
    ((a[2] % 16) * 16 + ((a[3] \div 4) % 16)) % 256,
    ((a[3] % 4) * 64 + a[4]) % 256>>

\* Element j of the first i elements, the rest being '\0'.
Filled(g, j) == IF j <= Len(g) THEN g[j] ELSE 0

\* Four characters for the bytes that have been collected.
Sextets(g) ==
  LET a4 == a3_to_a4([j \in 1..3 |-> Filled(g, j)])
  IN  [j \in 1..4 |-> base64_alphabet(a4[j])]

\* Three bytes for the characters that have been collected.
Octets(g) == a4_to_a3([j \in 1..4 |-> b64_lookup(Filled(g, j))])

------------------------------------------------------------------------------
(* The lengths.                                                            *)

\* Variant with a fault: a last group that is not full gets no room.
encoded_length_down(n) == 4 * ((n - (n % 3)) \div 3)

encoded_length(n) == 4 * ((n + 2 - ((n + 2) % 3)) \div 3)

\* The last e characters of t are '=', and no more.
EqualsAtEnd(t, e) ==
  /\ \A k \in (Len(t) - e + 1)..Len(t) : t[k] = Equals
  /\ e < Len(t) => t[Len(t) - e] # Equals

\* The loop counts back to the last other character.  If there is none it reads
\* on in front of the text, where '=' may stand or not; one stands for them all,
\* since what is subtracted from is then less than the text has characters.
numEq(t) == {e \in 0..Len(t) : EqualsAtEnd(t, e)}
              \cup IF \A k \in 1..Len(t) : t[k] = Equals THEN {Len(t) + 1} ELSE {}

\* Variant with a fault: rounded up.
decoded_length_up(t) == {(((6 * Len(t) + 7) \div 8) - e) % SizeMod : e \in numEq(t)}

\* Variant with a fault: a signed length.
decoded_length_signed(t) == {((6 * Len(t)) \div 8) - e : e \in numEq(t)}

decoded_length(t) == {((((6 * Len(t)) % SizeMod) \div 8) - e) % SizeMod : e \in numEq(t)}

------------------------------------------------------------------------------
Init ==
  /\ data \in Inputs
  /\ text \in GivenTexts \cup {<<>>}
  /\ own = FALSE
  /\ op = "start"
  /\ pos = 0
  /\ group = <<>>
  /\ out = <<>>
  /\ length = 0
  /\ room = 0
  /\ result = FALSE

Begin(o, l, n) ==
  /\ op' = o
  /\ length' = l
  /\ room' = n
  /\ pos' = 0
  /\ group' = <<>>
  /\ out' = <<>>
  /\ UNCHANGED <<data, text, own, result>>

Refuse(o, l, n) ==
  /\ op' = o
  /\ length' = l
  /\ room' = n
  /\ result' = FALSE
  /\ UNCHANGED <<data, text, own, pos, group, out>>

\* The string is resized; a buffer that is too small is refused.
encode ==
  /\ op = "start"
  /\ LET l == encoded_length(Len(data))
     IN  \/ Begin("encoding", l, l)
         \/ \E n \in Rooms : IF n < l THEN Refuse("encode_refused", l, n)
                               ELSE Begin("encoding", l, n)

\* One turn of the loop: the third byte completes a group.
encode_byte ==
  /\ op = "encoding" /\ pos < Len(data)
  /\ LET a3 == Append(group, data[pos + 1])
     IN  IF Len(a3) = 3
         THEN group' = <<>> /\ out' = out \o Sextets(a3)
         ELSE group' = a3 /\ UNCHANGED out
  /\ pos' = pos + 1
  /\ UNCHANGED <<data, text, own, op, length, room, result>>

Padding(i) == [j \in 1..(3 - i) |-> Equals]

\* What is left makes i + 1 characters and the padding.
encode_rest ==
  /\ op = "encoding" /\ pos = Len(data)
  /\ out' = IF group = <<>> THEN out
            ELSE out \o SubSeq(Sextets(group), 1, Len(group) + 1) \o Padding(Len(group))
  /\ text' = out' /\ own' = TRUE
  /\ result' = (Len(out') = length)
  /\ op' = "encoded"
  /\ UNCHANGED <<data, pos, group, length, room>>

strip_padding ==
  /\ op \in {"start", "encoded"}
  /\ \E e \in 0..Len(text) : EqualsAtEnd(text, e) /\ text' = SubSeq(text, 1, Len(text) - e)
  /\ op' = "stripped"
  /\ UNCHANGED <<data, own, pos, group, out, length, room, result>>

\* A length that has wrapped round is more than a string can have.
decode ==
  /\ op \in {"start", "encoded", "stripped"}
  /\ \E l \in decoded_length(text) :
       \/ l <= SizeMod \div 2 /\ Begin("decoding", l, l)
       \/ l > SizeMod \div 2 /\ op' = "thrown"
            /\ UNCHANGED <<data, text, own, pos, group, out, length, room, result>>
       \/ \E n \in Rooms : IF n < l THEN Refuse("decode_refused", l, n)
                           ELSE Begin("decoding", l, n)

AtEnd == pos < Len(text) => text[pos + 1] = Equals

\* The loop does not look at the size of the output: a write behind its end goes
\* on like any other or ends the process.
Ends(o) == op' = o \/ (Len(out') > room /\ op' = "crashed")

\* One turn of the loop: the fourth character completes a group.
decode_character ==
  /\ op = "decoding" /\ ~AtEnd
  /\ LET a4 == Append(group, text[pos + 1])
     IN  IF Len(a4) = 4
         THEN group' = <<>> /\ out' = out \o Octets(a4)
         ELSE group' = a4 /\ UNCHANGED out
  /\ pos' = pos + 1
  /\ Ends("decoding")
  /\ UNCHANGED <<data, text, own, length, room, result>>

\* What is left makes i - 1 bytes.
decode_rest ==
  /\ op = "decoding" /\ AtEnd
  /\ out' = IF group = <<>> THEN out ELSE out \o SubSeq(Octets(group), 1, Len(group) - 1)
  /\ result' = (Len(out') = length)
  /\ Ends("decoded")
  /\ UNCHANGED <<data, text, own, pos, group, length, room>>

Next == encode \/ encode_byte \/ encode_rest \/ strip_padding
          \/ decode \/ decode_character \/ decode_rest

Spec == Init /\ [][Next]_vars

------------------------------------------------------------------------------
\* The characters up to the last one that is not '='.
front(t) == CHOOSE n \in 0..Len(t) : EqualsAtEnd(t, Len(t) - n)

\* The groups of four characters that are padding and nothing else; a text that
\* encode has written has none.
PaddingGroups(t) == ((Len(t) + 3) \div 4) - ((front(t) + 3) \div 4)

\* encode never writes behind the string it has resized or the buffer it was
\* given.  decode writes at most one byte more than it has made sure of for every
\* group that is padding and nothing else: decoded_length subtracts such a group
\* where the loop has no characters, so four letters and four '=' are given two
\* bytes and make three.  A text without such groups keeps decode inside its output.
WritesInBounds ==
  /\ op \in {"encoding", "encoded"} => Len(out) <= room
  /\ op \in {"decoding", "decoded", "crashed"} =>
       length <= room /\ Len(out) <= length + PaddingGroups(text)

\* Bit k of a byte string, the most significant of the first byte being bit 0,
\* and zero behind the end.
Bit(s, k) ==
  IF k < 8 * Len(s)
  THEN (s[(k \div 8) + 1] \div <<128, 64, 32, 16, 8, 4, 2, 1>>[(k % 8) + 1]) % 2
  ELSE 0

\* The alphabet of RFC 4648: letters, digits, '+' and '/'.
Standard ==
  [i \in 1..26 |-> 64 + i] \o [i \in 1..26 |-> 96 + i] \o [i \in 1..10 |-> 47 + i] \o <<43, 47>>

\* RFC 4648: six bits a character, '=' where no bit of a byte is left, a
\* multiple of four characters.
Reference(s) ==
  [j \in 1..(4 * ((Len(s) + 2) \div 3)) |->
     IF 6 * (j - 1) >= 8 * Len(s) THEN Equals
     ELSE LET b(i) == Bit(s, 6 * (j - 1) + i)
          IN  Standard[32*b(0) + 16*b(1) + 8*b(2) + 4*b(3) + 2*b(4) + b(5) + 1]]

\* encode writes the base64 text of the data and says so.
EncodesAsStandard == op = "encoded" => text = Reference(data) /\ result

\* decode gives back what encode was given, with the padding or without; the
\* process does not end on the way.
RoundTrip == own => (op = "decoded" => out = data /\ result) /\ op # "crashed"

\* More than three quarters of the text are padding: decoded_length wraps round.
MostlyPadding(t) == t = <<>> \/ 4 * (Len(t) - front(t)) > 3 * Len(t)

\* encode refuses only a buffer that is too small for the standard text, decode
\* of what encode has written only one that is too small for the data.  Of any
\* other text it refuses only what is too small for the bits of the characters in
\* front of the padding, and the overload for strings does not throw, unless most
\* of the text is padding, four '=' for example or a single one: there a length that has wrapped
\* round is resized to, or asked of the buffer.  The empty text is among those, since the
\* loop of decoded_length leaves the text.
RefusesSmallBuffersOnly ==
  /\ op = "encode_refused" => room < Len(Reference(data))
  /\ own /\ data # <<>> =>
       op # "thrown" /\ (op = "decode_refused" => room < Len(data))
  /\ ~MostlyPadding(text) =>
       op # "thrown" /\ (op = "decode_refused" => room < (6 * front(text)) \div 8)
==============================================================================
