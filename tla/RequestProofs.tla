---------------------------- MODULE RequestProofs ----------------------------
(***************************************************************************)
(* What one request carries and the session that sends it.  For any texts  *)
(* and any table of languages: the loops of replace advance, nothing that  *)
(* they replace is left, the keyboard has every language, and Telegram     *)
(* reads the parameters that were meant.  For any number of sessions: none *)
(* is used after its end, and its chain of handlers is the single step     *)
(* that the rest of the bot takes it for.                                  *)
(*                                                                         *)
(* The heart is Encodes(s, v): some characters of v stand in s as their    *)
(* codes, all others as themselves, in the same order.  A turn of replace  *)
(* keeps it, whichever characters have been encoded before, and a reader   *)
(* of s reads v.                                                           *)
(***************************************************************************)
EXTENDS TelegramRequest, Session, SequenceTheorems, WellFoundedInduction, TLAPS

------------------------------------------------------------------------------
(* Recursive functions.                                                    *)

\* Induction over the natural numbers, for a set.
LEMMA SetInduction ==
  ASSUME NEW S, 0 \in S, \A n \in Nat : n \in S => n + 1 \in S
  PROVE  \A n \in Nat : n \in S
<1> SUFFICES ASSUME NEW n0 \in Nat, n0 \notin S PROVE FALSE
  OBVIOUS
<1> DEFINE T == {n \in Nat : n \notin S}
           R == {ss \in Nat \X Nat : ss[1] < ss[2]}
<1>1. T \subseteq Nat /\ T # {}
  OBVIOUS
<1>2. IsWellFoundedOn(R, Nat)
  BY NatLessThanWellFounded DEF OpToRel
<1>3. PICK m \in T : \A y \in T : ~(<<y, m>> \in R)
  <2> HIDE DEF T, R
  <2> QED
    BY <1>1, <1>2, WFMin
<1>4. m # 0 /\ m - 1 \in Nat /\ m - 1 < m /\ m \in Nat
  OBVIOUS
<1>5. m - 1 \in T
  BY <1>4
<1>6. <<m - 1, m>> \in R
  BY <1>4
<1> QED
  BY <1>3, <1>5, <1>6

\* f begins with x and goes on by step, n times.
Iterates(f, X, x, step, n) ==
  f \in [0..n -> X] /\ f[0] = x /\ \A i \in 1..n : f[i] = step[<<f[i - 1], i>>]

\* A function that is defined by recursion exists ...
LEMMA Recursion ==
  ASSUME NEW X, NEW x \in X, NEW n \in Nat, NEW step \in [X \X (1..n) -> X]
  PROVE  \E f : Iterates(f, X, x, step, n)
<1> DEFINE S == {m \in Nat : m <= n => \E f : Iterates(f, X, x, step, m)}
<1>1. 0 \in S
  <2> DEFINE f == [i \in 0..0 |-> x]
  <2>1. f \in [0..0 -> X] /\ f[0] = x /\ \A i \in 1..0 : f[i] = step[<<f[i - 1], i>>]
    OBVIOUS
  <2> QED
    BY <2>1 DEF Iterates
<1>2. ASSUME NEW m \in Nat, m \in S PROVE m + 1 \in S
  <2> SUFFICES ASSUME m + 1 <= n PROVE \E f : Iterates(f, X, x, step, m + 1)
    OBVIOUS
  <2>1. PICK f : Iterates(f, X, x, step, m)
    BY <1>2
  <2> DEFINE g == [i \in 0..(m + 1) |-> IF i <= m THEN f[i] ELSE step[<<f[m], m + 1>>]]
  <2>2. f \in [0..m -> X] /\ f[0] = x /\ \A i \in 1..m : f[i] = step[<<f[i - 1], i>>]
    BY <2>1 DEF Iterates
  <2>3. step[<<f[m], m + 1>>] \in X
    <3>1. f[m] \in X /\ m + 1 \in 1..n
      BY <2>2
    <3> QED
      BY <3>1
  <2>4. g \in [0..(m + 1) -> X]
    <3> SUFFICES ASSUME NEW i \in 0..(m + 1) PROVE g[i] \in X
      OBVIOUS
    <3> QED
      BY <2>2, <2>3
  <2>5. g[0] = x
    BY <2>2
  <2>6. ASSUME NEW i \in 1..(m + 1) PROVE g[i] = step[<<g[i - 1], i>>]
    <3>1. i - 1 \in 0..m /\ g[i - 1] = f[i - 1] /\ (i <= m \/ i = m + 1)
      OBVIOUS
    <3>2. CASE i <= m
      <4>1. i \in 1..m /\ g[i] = f[i]
        BY <3>2
      <4> QED
        BY <2>2, <3>1, <4>1
    <3>3. CASE i = m + 1
      <4>1. i - 1 = m /\ g[i] = step[<<f[m], m + 1>>]
        BY <3>3
      <4> QED
        BY <3>1, <3>3, <4>1
    <3> QED
      BY <3>1, <3>2, <3>3
  <2> QED
    BY <2>4, <2>5, <2>6 DEF Iterates
<1>3. \A m \in Nat : m \in S
  <2> HIDE DEF S
  <2> QED
    BY <1>1, <1>2, SetInduction
<1> QED
  BY <1>3

\* What FlattenSeq computes: the sequences, one after the other.
LEMMA FlattenSteps ==
  ASSUME NEW S, NEW ss \in Seq(Seq(S)), ss # <<>>
  PROVE  \E f : /\ f \in [0..Len(ss) -> Seq(S)] /\ f[0] = <<>>
                /\ \A i \in 1..Len(ss) : f[i] = f[i - 1] \o ss[i]
                /\ FlattenSeq(ss) = f[Len(ss)]
<1> DEFINE n == Len(ss)
           X == Seq(S)
           step == [u \in X \X (1..n) |-> u[1] \o ss[u[2]]]
           body(f) == [i \in 1..n |-> IF i = 1 THEN ss[i] ELSE f[i - 1] \o ss[i]]
           F == CHOOSE f : f = body(f)
<1>1. n \in Nat /\ n # 0 /\ \A i \in 1..n : ss[i] \in X
  BY EmptySeq, ElementOfSeq
<1>2. FlattenSeq(ss) = F[n]
  BY <1>1, Zenon DEF FlattenSeq
<1>3. <<>> \in X /\ step \in [X \X (1..n) -> X]
  <2>1. ASSUME NEW a \in X, NEW i \in 1..n PROVE a \o ss[i] \in X
    BY <1>1, ConcatProperties
  <2> HIDE DEF n, X
  <2>2. \A u \in X \X (1..n) : u[1] \in X /\ u[2] \in 1..n
    OBVIOUS
  <2> QED
    BY <2>1, <2>2, EmptySeq DEF X
<1> HIDE DEF step
<1>4. PICK g : Iterates(g, X, <<>>, step, n)
  BY <1>1, <1>3, Recursion
<1>5. /\ g \in [0..n -> X] /\ g[0] = <<>>
      /\ \A i \in 1..n : g[i] = g[i - 1] \o ss[i]
  <2>1. g \in [0..n -> X] /\ g[0] = <<>> /\ \A i \in 1..n : g[i] = step[<<g[i - 1], i>>]
    BY <1>4 DEF Iterates
  <2> HIDE DEF X, n
  <2>2. ASSUME NEW i \in 1..n PROVE g[i] = g[i - 1] \o ss[i]
    <3>1. i - 1 \in 0..n
      BY <1>1
    <3>2. <<g[i - 1], i>> \in X \X (1..n)
      BY <2>1, <3>1
    <3>3. step[<<g[i - 1], i>>] = g[i - 1] \o ss[i]
      BY <3>2 DEF step
    <3> QED
      BY <2>1, <3>3
  <2> QED
    BY <2>1, <2>2
<1> HIDE DEF X, n
<1>6. F = body(F)
  <2> DEFINE h == [i \in 1..n |-> g[i]]
  <2>1. h = body(h)
    <3> SUFFICES ASSUME NEW i \in 1..n PROVE h[i] = IF i = 1 THEN ss[i] ELSE h[i - 1] \o ss[i]
      BY Zenon
    <3>1. h[i] = g[i - 1] \o ss[i]
      BY <1>5
    <3>2. CASE i = 1
      <4>1. ss[i] \in Seq(S) /\ g[i - 1] = <<>>
        BY <1>1, <1>5, <3>2 DEF X
      <4> QED
        BY <3>1, <3>2, <4>1, ConcatEmptySeq
    <3>3. CASE i # 1
      <4>1. i - 1 \in 1..n
        BY <1>1, <3>3
      <4> QED
        BY <3>1, <3>3, <4>1
    <3> QED
      BY <3>2, <3>3
  <2> HIDE DEF h, body
  <2> QED
    BY <2>1, Zenon
<1>7. \A i \in 1..n : F[i] = g[i]
  <2> DEFINE T == {m \in Nat : m + 1 <= n => F[m + 1] = g[m + 1]}
  <2>1. \A i \in 1..n : F[i] = IF i = 1 THEN ss[i] ELSE F[i - 1] \o ss[i]
    BY <1>6, Zenon
  <2> HIDE DEF F
  <2>2. 0 \in T
    <3>1. 1 \in 1..n /\ F[1] = ss[1] /\ g[1] = g[0] \o ss[1]
      <4>1. 1 \in 1..n
        BY <1>1
      <4>2. 1 - 1 = 0
        OBVIOUS
      <4> QED
        BY <1>5, <2>1, <4>1, <4>2
    <3>2. g[1] = ss[1]
      BY <1>1, <1>5, <3>1, ConcatEmptySeq DEF X
    <3> QED
      BY <3>1, <3>2
  <2>3. ASSUME NEW m \in Nat, m \in T PROVE m + 1 \in T
    <3> SUFFICES ASSUME m + 2 <= n PROVE F[m + 2] = g[m + 2]
      OBVIOUS
    <3>1. m + 2 \in 1..n /\ m + 2 # 1 /\ (m + 2) - 1 = m + 1 /\ m + 1 <= n
      BY <1>1
    <3>2. F[m + 1] = g[m + 1]
      BY <2>3, <3>1
    <3>3. F[m + 2] = F[(m + 2) - 1] \o ss[m + 2]
      BY <2>1, <3>1
    <3>4. g[m + 2] = g[(m + 2) - 1] \o ss[m + 2]
      BY <1>5, <3>1
    <3> QED
      BY <3>1, <3>2, <3>3, <3>4
  <2>4. \A m \in Nat : m \in T
    <3> HIDE DEF T
    <3> QED
      BY <2>2, <2>3, SetInduction
  <2> SUFFICES ASSUME NEW i \in 1..n PROVE F[i] = g[i]
    OBVIOUS
  <2>5. i - 1 \in Nat /\ (i - 1) + 1 = i /\ i <= n
    BY <1>1
  <2> QED
    BY <2>4, <2>5
<1>8. F[n] = g[n]
  <2>1. n \in 1..n
    BY <1>1
  <2> QED
    BY <1>7, <2>1
<1> QED
  BY <1>2, <1>5, <1>8 DEF X, n

------------------------------------------------------------------------------
(* The types.                                                              *)

LEMMA FlattenType ==
  ASSUME NEW S, NEW ss \in Seq(Seq(S)) PROVE FlattenSeq(ss) \in Seq(S)
<1>1. CASE ss = <<>>
  <2>1. FlattenSeq(ss) = ss
    BY <1>1, EmptySeq, Zenon DEF FlattenSeq
  <2> QED
    BY <1>1, <2>1, EmptySeq
<1>2. CASE ss # <<>>
  <2>1. PICK f : /\ f \in [0..Len(ss) -> Seq(S)] /\ FlattenSeq(ss) = f[Len(ss)]
    BY <1>2, FlattenSteps
  <2>2. Len(ss) \in 0..Len(ss)
    OBVIOUS
  <2> QED
    BY <2>1, <2>2
<1> QED
  BY <1>1, <1>2

LEMMA FunctionSeq ==
  ASSUME NEW S, NEW n \in Nat, NEW f \in [1..n -> S] PROVE f \in Seq(S) /\ Len(f) = n
<1>1. f \in Seq(S)
  <2>1. [1..n -> S] \in {[1..k -> S] : k \in Nat}
    OBVIOUS
  <2> QED
    BY <2>1, SeqDef
<1>2. Len(f) \in Nat /\ DOMAIN f = 1..Len(f) /\ DOMAIN f = 1..n
  BY <1>1, LenProperties
<1> DEFINE l == Len(f)
<1>3. l \in Nat /\ 1..l = 1..n
  BY <1>2
<1> HIDE DEF l
<1>4. \A x : x \in 1..l <=> x \in 1..n
  BY <1>3
<1>5. ASSUME l < n PROVE FALSE
  <2>1. n \in 1..n
    BY <1>3, <1>5
  <2>2. n \in 1..l
    BY <1>4, <2>1
  <2> QED
    BY <1>3, <1>5, <2>2
<1>6. ASSUME n < l PROVE FALSE
  <2>1. l \in 1..l
    BY <1>3, <1>6
  <2>2. l \in 1..n
    BY <1>4, <2>1
  <2> QED
    BY <1>3, <1>6, <2>2
<1>7. l = n
  BY <1>3, <1>5, <1>6
<1> QED
  BY <1>1, <1>7 DEF l

\* Sequences of characters that are written out.
LEMMA Written ==
  ASSUME NEW S, NEW a \in S, NEW b \in S, NEW c \in S
  PROVE  /\ <<a>> \in Seq(S) /\ Len(<<a>>) = 1
         /\ <<a, b>> \in Seq(S) /\ Len(<<a, b>>) = 2
         /\ <<a, b, c>> \in Seq(S) /\ Len(<<a, b, c>>) = 3
  OBVIOUS

LEMMA Appended ==
  ASSUME NEW S, NEW a \in S, NEW b \in S
  PROVE  Append(<<>>, a) = <<a>> /\ Append(<<a>>, b) = <<a, b>>
<1>1. <<>> \in Seq(S) /\ Len(<<>>) = 0
  BY EmptySeq
<1>2. <<a>> \in Seq(S) /\ Len(<<a>>) = 1 /\ <<a>>[1] = a /\ <<b>> \in Seq(S) /\ Len(<<b>>) = 1 /\ <<b>>[1] = b
  OBVIOUS
<1>3. <<a, b>> \in Seq(S) /\ Len(<<a, b>>) = 2 /\ <<a, b>>[1] = a /\ <<a, b>>[2] = b
  OBVIOUS
<1> DEFINE s == Append(<<>>, a)
           t == Append(<<a>>, b)
<1>4. s \in Seq(S) /\ Len(s) = 1 /\ s[1] = a
  BY <1>1, AppendProperties
<1>5. t \in Seq(S) /\ Len(t) = 2 /\ t[1] = a /\ t[2] = b
  BY <1>2, AppendProperties
<1> HIDE DEF s, t
<1>6. s = <<a>>
  BY <1>2, <1>4, SeqEqual
<1>7. t = <<a, b>>
  BY <1>3, <1>5, SeqEqual
<1> QED
  BY <1>6, <1>7 DEF s, t

Strings == Seq(Character)
Params == Seq(Character \X Strings)

LEMMA SerializeType == ASSUME NEW rows \in Seq(Strings) PROVE serialize(rows) \in Strings
<1> DEFINE n == Len(rows)
           f == [i \in 1..n |-> <<"[">> \o rows[i] \o <<"]">>]
<1>1. n \in Nat
  BY DEF Strings
<1>2. <<"[">> \in Strings /\ <<"]">> \in Strings
  BY Written DEF Character, Strings
<1>3. \A i \in 1..n : rows[i] \in Strings
  BY ElementOfSeq
<1>4. \A i \in 1..n : <<"[">> \o rows[i] \o <<"]">> \in Strings
  BY <1>2, <1>3, ConcatProperties DEF Strings
<1>5. f \in [1..n -> Strings]
  BY <1>4
<1>6. f \in Seq(Strings)
  <2> HIDE DEF f, n
  <2> QED
    BY <1>1, <1>5, FunctionSeq
<1>7. FlattenSeq(f) \in Strings
  <2> HIDE DEF f, n
  <2> QED
    BY <1>6, FlattenType DEF Strings
<1> QED
  BY <1>7 DEF serialize

\* key=value&
Pair(p) == <<p[1], "=">> \o p[2] \o <<"&">>

LEMMA PairType == ASSUME NEW p \in Character \X Strings PROVE Pair(p) \in Strings
<1>1. p[1] \in Character /\ p[2] \in Strings /\ "=" \in Character /\ "&" \in Character
  BY DEF Character
<1>2. <<p[1], "=">> \in Strings /\ <<"&">> \in Strings
  BY <1>1, Written DEF Strings
<1> QED
  BY <1>1, <1>2, ConcatProperties DEF Pair, Strings

LEMMA QueryType == ASSUME NEW ps \in Params PROVE query_str(ps) \in Strings
<1> DEFINE n == Len(ps)
           f == [i \in 1..n |-> Pair(ps[i])]
<1>1. n \in Nat /\ \A i \in 1..n : ps[i] \in Character \X Strings
  BY ElementOfSeq DEF Params
<1>2. f \in [1..n -> Strings]
  BY <1>1, PairType
<1>3. FlattenSeq(f) \in Strings
  <2> HIDE DEF f, n
  <2> QED
    BY <1>1, <1>2, FunctionSeq, FlattenType DEF Strings
<1>4. query_str(ps) = <<"sendMessage?">> \o FlattenSeq(f)
  BY DEF query_str, Pair
<1>5. <<"sendMessage?">> \in Strings
  BY Written DEF Character, Strings
<1> HIDE DEF f
<1> QED
  BY <1>3, <1>4, <1>5, ConcatProperties DEF Strings

------------------------------------------------------------------------------
(* The keyboard.                                                           *)

Rows(m) == [i \in 1..m |-> Row(i)]

\* The rows that are full after n buttons, and the one that is not.
AfterButton(n) ==
  [buttons_arr |-> Rows(n \div 2), btns_row |-> IF n % 2 = 0 THEN <<>> ELSE <<Languages[n]>>]

LEMMA RowType ==
  /\ Len(Languages) \in Nat
  /\ \A i \in 1..((Len(Languages) + 1) \div 2) : Row(i) \in Strings
  /\ \A i \in Nat \ {0} : 2*i <= Len(Languages) => Row(i) = <<Languages[2*i - 1], Languages[2*i]>>
  /\ \A i \in Nat \ {0} : 2*i - 1 = Len(Languages) => Row(i) = <<Languages[2*i - 1]>>
<1> DEFINE n == Len(Languages)
<1>1. Languages \in Strings /\ n \in Nat
  BY RequestAssumption DEF Strings
<1>2. \A i \in 1..n : Languages[i] \in Character
  BY <1>1, ElementOfSeq DEF Strings
<1> HIDE DEF n
<1>3. ASSUME NEW i \in Nat \ {0}, 2*i <= n PROVE Row(i) = <<Languages[2*i - 1], Languages[2*i]>>
  <2> DEFINE r == SubSeq(Languages, 2*i - 1, 2*i)
             t == <<Languages[2*i - 1], Languages[2*i]>>
  <2>1. 2*i - 1 \in 1..n /\ 2*i \in 1..n /\ 2*i - 1 <= 2*i /\ (2*i) - (2*i - 1) + 1 = 2
    BY <1>1, <1>3
  <2>2. \A k \in (2*i - 1)..(2*i) : Languages[k] \in Character
    BY <1>1, <1>2, <2>1
  <2>3. r \in Strings /\ Len(r) = 2 /\ \A k \in 1..2 : r[k] = Languages[(2*i - 1) + k - 1]
    BY <2>1, <2>2, SubSeqProperties DEF Strings
  <2>4. t \in Strings /\ Len(t) = 2 /\ t[1] = Languages[2*i - 1] /\ t[2] = Languages[2*i]
    BY <1>2, <2>1, Written DEF Strings
  <2>5. Row(i) = r
    BY <1>3 DEF Row, n
  <2> HIDE DEF r, t
  <2>6. \A k \in 1..2 : r[k] = t[k]
    <3>1. (2*i - 1) + 1 - 1 = 2*i - 1 /\ (2*i - 1) + 2 - 1 = 2*i
      OBVIOUS
    <3>2. r[1] = t[1] /\ r[2] = t[2]
      BY <2>3, <2>4, <3>1
    <3> QED
      BY <3>2
  <2>7. r = t
    BY <2>3, <2>4, <2>6, SeqEqual DEF Strings
  <2> QED
    BY <2>5, <2>7 DEF t
<1>4. ASSUME NEW i \in Nat \ {0}, 2*i - 1 = n PROVE Row(i) = <<Languages[2*i - 1]>>
  <2> DEFINE r == SubSeq(Languages, 2*i - 1, n)
             t == <<Languages[2*i - 1]>>
  <2>1. 2*i - 1 \in 1..n /\ n - (2*i - 1) + 1 = 1 /\ ~(2*i <= n) /\ 2*i - 1 <= n /\ 2*i - 1 \in Int /\ n \in Int
    BY <1>1, <1>4
  <2>2. \A k \in (2*i - 1)..n : Languages[k] \in Character
    BY <1>1, <1>2, <2>1
  <2>3. r \in Strings /\ Len(r) = 1 /\ \A k \in 1..1 : r[k] = Languages[(2*i - 1) + k - 1]
    BY <2>1, <2>2, SubSeqProperties DEF Strings
  <2>4. t \in Strings /\ Len(t) = 1 /\ t[1] = Languages[2*i - 1]
    BY <1>2, <2>1, Written DEF Strings
  <2>5. Row(i) = r
    BY <2>1 DEF Row, n
  <2> HIDE DEF r, t
  <2>6. \A k \in 1..1 : r[k] = t[k]
    <3>1. (2*i - 1) + 1 - 1 = 2*i - 1
      OBVIOUS
    <3>2. r[1] = t[1]
      BY <2>3, <2>4, <3>1
    <3> QED
      BY <3>2
  <2>7. r = t
    BY <2>3, <2>4, <2>6, SeqEqual DEF Strings
  <2> QED
    BY <2>5, <2>7 DEF t
<1>5. ASSUME NEW i \in 1..((n + 1) \div 2) PROVE Row(i) \in Strings
  <2>1. i \in Nat \ {0} /\ 2*i <= n + 1
    BY <1>1
  <2>2. CASE 2*i <= n
    <3>1. 2*i - 1 \in 1..n /\ 2*i \in 1..n
      BY <1>1, <2>1, <2>2
    <3> QED
      BY <1>2, <1>3, <2>1, <2>2, <3>1, Written DEF Strings
  <2>3. CASE 2*i - 1 = n
    <3>1. 2*i - 1 \in 1..n
      BY <1>1, <2>1, <2>3
    <3> QED
      BY <1>2, <1>4, <2>1, <2>3, <3>1, Written DEF Strings
  <2> QED
    BY <1>1, <2>1, <2>2, <2>3
<1> QED
  BY <1>1, <1>3, <1>4, <1>5 DEF n

LEMMA RowsType ==
  ASSUME NEW m \in 0..((Len(Languages) + 1) \div 2)
  PROVE  Rows(m) \in Seq(Strings) /\ Len(Rows(m)) = m
<1>1. m \in Nat /\ \A i \in 1..m : Row(i) \in Strings
  BY RowType
<1>2. Rows(m) \in [1..m -> Strings]
  BY <1>1 DEF Rows
<1> QED
  BY <1>1, <1>2, FunctionSeq

\* One row more.
LEMMA RowsAppend ==
  ASSUME NEW m \in 0..((Len(Languages) + 1) \div 2), m # 0
  PROVE  Append(Rows(m - 1), Row(m)) = Rows(m)
<1> DEFINE a == Append(Rows(m - 1), Row(m))
           b == Rows(m)
<1>1. m - 1 \in 0..((Len(Languages) + 1) \div 2) /\ m \in Nat /\ m - 1 \in Nat
  BY RowType
<1>2. Rows(m - 1) \in Seq(Strings) /\ Len(Rows(m - 1)) = m - 1 /\ b \in Seq(Strings) /\ Len(b) = m
  BY <1>1, RowsType
<1>3. m \in 1..((Len(Languages) + 1) \div 2)
  BY <1>1
<1>4. Row(m) \in Strings
  BY <1>3, RowType
<1>5. /\ a \in Seq(Strings) /\ Len(a) = Len(Rows(m - 1)) + 1
      /\ \A i \in 1..Len(Rows(m - 1)) : a[i] = Rows(m - 1)[i]
      /\ a[Len(Rows(m - 1)) + 1] = Row(m)
  BY <1>2, <1>4, AppendProperties
<1> HIDE DEF a, b
<1>6. Len(a) = m /\ a[m] = Row(m) /\ \A i \in 1..(m - 1) : a[i] = Rows(m - 1)[i]
  <2>1. (m - 1) + 1 = m
    BY <1>1
  <2> QED
    BY <1>2, <1>5, <2>1
<1>7. ASSUME NEW i \in 1..m PROVE a[i] = b[i]
  <2>1. b[i] = Row(i)
    BY DEF b, Rows
  <2>2. CASE i = m
    BY <1>6, <2>1, <2>2
  <2>3. CASE i # m
    <3>1. i \in 1..(m - 1)
      BY <1>1, <2>3
    <3>2. Rows(m - 1)[i] = Row(i)
      BY <3>1 DEF Rows
    <3> QED
      BY <1>6, <2>1, <3>1, <3>2
  <2> QED
    BY <2>2, <2>3
<1>8. a = b
  BY <1>2, <1>5, <1>6, <1>7, SeqEqual
<1> QED
  BY <1>8 DEF a, b

\* One button more.
LEMMA NextButton ==
  ASSUME NEW n \in 1..Len(Languages)
  PROVE  AfterButton(n) =
           LET before == AfterButton(n - 1)
               row == Append(before.btns_row, Languages[n])
           IN  IF n % count_of_items_in_row = 0
               THEN [buttons_arr |-> Append(before.buttons_arr, row), btns_row |-> <<>>]
               ELSE [before EXCEPT !.btns_row = row]
<1> DEFINE L == Len(Languages)
           before == AfterButton(n - 1)
           row == Append(before.btns_row, Languages[n])
<1>1. L \in Nat /\ n \in Nat /\ n <= L /\ n # 0
  BY RowType
<1>2. Languages \in Strings
  BY RequestAssumption DEF Strings
<1>3. Languages[n] \in Character
  BY <1>2, ElementOfSeq DEF Strings
<1>4. /\ before.buttons_arr = Rows((n - 1) \div 2)
      /\ before.btns_row = IF (n - 1) % 2 = 0 THEN <<>> ELSE <<Languages[n - 1]>>
  BY DEF AfterButton
<1>5. CASE n % 2 = 0
  <2>1. PICK m \in Nat : n = 2*m
    <3>1. n \div 2 \in Nat /\ n = 2 * (n \div 2)
      BY <1>1, <1>5
    <3> QED
      BY <3>1
  <2>2. /\ n \div 2 = m /\ (n - 1) \div 2 = m - 1 /\ (n - 1) % 2 = 1 /\ m # 0
        /\ m \in 0..((L + 1) \div 2) /\ 2*m - 1 = n - 1
    BY <1>1, <2>1
  <2>3. n - 1 \in 1..L
    BY <1>1, <2>1, <2>2
  <2>4. Languages[n - 1] \in Character
    BY <1>2, <2>3, ElementOfSeq DEF Strings
  <2>5. row = <<Languages[n - 1], Languages[n]>>
    <3>1. before.btns_row = <<Languages[n - 1]>>
      BY <1>4, <2>2
    <3> HIDE DEF before
    <3> QED
      BY <1>3, <2>4, <3>1, Appended
  <2>6. row = Row(m)
    BY <1>1, <2>1, <2>2, <2>5, RowType
  <2> HIDE DEF row, L
  <2>7. Append(before.buttons_arr, row) = Rows(m)
    BY <1>4, <2>2, <2>6, RowsAppend DEF L
  <2>8. AfterButton(n) = [buttons_arr |-> Rows(m), btns_row |-> <<>>]
    BY <1>5, <2>2 DEF AfterButton
  <2> QED
    BY <1>5, <2>7, <2>8 DEF count_of_items_in_row, row
<1>6. CASE n % 2 # 0
  <2>1. PICK m \in Nat : n = 2*m + 1
    <3>1. n \div 2 \in Nat /\ n % 2 \in 0..1 /\ n = 2 * (n \div 2) + (n % 2)
      BY <1>1
    <3> QED
      BY <1>6, <3>1
  <2>2. n \div 2 = m /\ (n - 1) \div 2 = m /\ (n - 1) % 2 = 0
    BY <1>1, <2>1
  <2>3. row = <<Languages[n]>>
    <3>1. before.btns_row = <<>>
      BY <1>4, <2>2
    <3> HIDE DEF before
    <3> QED
      BY <1>3, <3>1, Appended
  <2> HIDE DEF row
  <2>4. before = [buttons_arr |-> Rows(m), btns_row |-> <<>>]
    BY <2>2 DEF AfterButton
  <2>5. AfterButton(n) = [buttons_arr |-> Rows(m), btns_row |-> <<Languages[n]>>]
    BY <1>6, <2>2 DEF AfterButton
  <2> HIDE DEF before
  <2>6. [before EXCEPT !.btns_row = row] = AfterButton(n)
    BY <2>3, <2>4, <2>5
  <2> QED
    BY <1>6, <2>6 DEF count_of_items_in_row, row, before
<1> QED
  BY <1>5, <1>6

\* The loop over the buttons computes AfterButton.
LEMMA ButtonLoop == \A n \in 0..Len(Languages) : after_button[n] = AfterButton(n)
<1> DEFINE L == Len(Languages)
           next(b, n) ==
             LET row == Append(b.btns_row, Languages[n])
             IN  IF n % count_of_items_in_row = 0
                 THEN [buttons_arr |-> Append(b.buttons_arr, row), btns_row |-> <<>>]
                 ELSE [b EXCEPT !.btns_row = row]
           body(f) == [n \in 0..L |-> IF n = 0 THEN [buttons_arr |-> <<>>, btns_row |-> <<>>]
                                      ELSE next(f[n - 1], n)]
           g == [n \in 0..L |-> AfterButton(n)]
<1>1. after_button = CHOOSE f : f = body(f)
  BY DEF after_button
<1>2. L \in Nat
  BY RowType
<1>3. AfterButton(0) = [buttons_arr |-> <<>>, btns_row |-> <<>>]
  <2>1. 0 \div 2 = 0 /\ 0 % 2 = 0
    OBVIOUS
  <2>2. Rows(0) = <<>>
    <3>1. 0 \in 0..((Len(Languages) + 1) \div 2)
      BY <1>2
    <3>2. Rows(0) \in Seq(Strings) /\ Len(Rows(0)) = 0
      BY <3>1, RowsType
    <3> QED
      BY <3>2, EmptySeq
  <2> QED
    BY <2>1, <2>2 DEF AfterButton
<1>4. \A n \in 1..L : AfterButton(n) = next(AfterButton(n - 1), n)
  BY NextButton
<1> HIDE DEF next, L
<1>5. g = body(g)
  <2> SUFFICES ASSUME NEW n \in 0..L
               PROVE g[n] = IF n = 0 THEN [buttons_arr |-> <<>>, btns_row |-> <<>>] ELSE next(g[n - 1], n)
    BY Zenon
  <2>1. CASE n = 0
    BY <1>3, <2>1
  <2>2. CASE n # 0
    <3>1. n \in 1..L /\ n - 1 \in 0..L
      BY <1>2, <2>2
    <3> QED
      BY <1>4, <2>2, <3>1
  <2> QED
    BY <2>1, <2>2
<1> HIDE DEF g
<1>6. after_button = body(after_button)
  BY <1>1, <1>5, Zenon
<1>7. /\ L # -1 => after_button[0] = AfterButton(0)
      /\ \A n \in 1..L : after_button[n] = next(after_button[n - 1], n)
  <2>1. \A n \in 0..L : after_button[n] =
          IF n = 0 THEN [buttons_arr |-> <<>>, btns_row |-> <<>>] ELSE next(after_button[n - 1], n)
    BY <1>6, Zenon
  <2> QED
    BY <1>2, <1>3, <2>1
<1> DEFINE S == {n \in Nat : n <= L => after_button[n] = AfterButton(n)}
<1>8. 0 \in S
  BY <1>2, <1>7
<1>9. ASSUME NEW n \in Nat, n \in S PROVE n + 1 \in S
  <2> SUFFICES ASSUME n + 1 <= L PROVE after_button[n + 1] = AfterButton(n + 1)
    OBVIOUS
  <2>1. n + 1 \in 1..L /\ (n + 1) - 1 = n /\ n <= L
    BY <1>2
  <2>2. after_button[n] = AfterButton(n)
    BY <1>9, <2>1
  <2> QED
    BY <1>4, <1>7, <2>1, <2>2
<1>10. \A n \in Nat : n \in S
  <2> HIDE DEF S
  <2> QED
    BY <1>8, <1>9, SetInduction
<1> QED
  BY <1>2, <1>10 DEF L

\* All rows are full but for the last, and no language is left out.
LEMMA KeyboardRows == keyboard = Rows((Len(Languages) + 1) \div 2)
<1> DEFINE L == Len(Languages)
           last == after_button[L]
<1>1. L \in Nat /\ L \in 0..L
  BY RowType
<1>2. last.buttons_arr = Rows(L \div 2) /\ last.btns_row = IF L % 2 = 0 THEN <<>> ELSE <<Languages[L]>>
  <2>1. last = AfterButton(L)
    BY <1>1, ButtonLoop
  <2> HIDE DEF last
  <2> QED
    BY <2>1 DEF AfterButton
<1>3. keyboard = last.buttons_arr \o IF last.btns_row = <<>> THEN <<>> ELSE <<last.btns_row>>
  BY DEF keyboard
<1> HIDE DEF last
<1>4. L \div 2 \in 0..((L + 1) \div 2) /\ (L + 1) \div 2 \in 0..((L + 1) \div 2)
  BY <1>1
<1>5. Rows(L \div 2) \in Seq(Strings)
  BY <1>4, RowsType
<1>6. CASE L % 2 = 0
  <2>1. (L + 1) \div 2 = L \div 2
    BY <1>1, <1>6
  <2> QED
    BY <1>2, <1>3, <1>5, <1>6, <2>1, ConcatEmptySeq
<1>7. CASE L % 2 # 0
  <2>1. PICK m \in Nat : L = 2*m + 1
    <3>1. L \div 2 \in Nat /\ L % 2 \in 0..1 /\ L = 2 * (L \div 2) + (L % 2)
      BY <1>1
    <3> QED
      BY <1>7, <3>1
  <2>2. L \div 2 = m /\ (L + 1) \div 2 = m + 1 /\ (m + 1) - 1 = m /\ m + 1 # 0 /\ m + 1 \in Nat \ {0}
        /\ 2 * (m + 1) - 1 = L
    BY <2>1
  <2>3. Row(m + 1) = <<Languages[L]>>
    BY <2>2, RowType
  <2>4. last.btns_row = Row(m + 1) /\ last.btns_row # <<>>
    BY <1>2, <1>7, <2>3
  <2>5. Append(Rows(m), Row(m + 1)) = Rows(m + 1)
    BY <1>4, <2>2, RowsAppend
  <2>6. Row(m + 1) \in Strings
    <3>1. m + 1 \in 1..((L + 1) \div 2)
      BY <2>2
    <3> QED
      BY <3>1, RowType
  <2>7. Rows(m) \o <<Row(m + 1)>> = Append(Rows(m), Row(m + 1))
    BY <1>5, <2>2, <2>6, AppendIsConcat
  <2> QED
    BY <1>2, <1>3, <2>2, <2>4, <2>5, <2>7
<1> QED
  BY <1>6, <1>7

------------------------------------------------------------------------------
(* Encoded strings.                                                        *)

Specials == {" ", "\n", "+"}
Hex(c) == CASE c = " " -> "20" [] c = "\n" -> "0A" [] c = "+" -> "2B"

\* The characters a + 1 to b of s stand for c.
Stands(s, a, b, c) ==
  \/ b = a + 1 /\ s[a + 1] = c
  \/ b = a + 2 /\ c \in Specials /\ s[a + 1] = "%" /\ s[a + 2] = Hex(c)

\* What stands for character i of v ends at p[i] in s.
EncodesBy(s, v, p) ==
  /\ p \in [0..Len(v) -> 0..Len(s)]
  /\ p[0] = 0 /\ p[Len(v)] = Len(s)
  /\ \A i, j \in 0..Len(v) : i <= j => p[i] <= p[j]
  /\ \A i \in 1..Len(v) : Stands(s, p[i - 1], p[i], v[i])

\* Some of the characters of v are encoded in s, and all stand where they stood.
Encodes(s, v) == \E p : EncodesBy(s, v, p)

LEMMA EncodesSelf == ASSUME NEW s \in Strings PROVE Encodes(s, s)
<1> DEFINE p == [i \in 0..Len(s) |-> i]
<1>1. Len(s) \in Nat
  BY DEF Strings
<1>2. p \in [0..Len(s) -> 0..Len(s)] /\ p[0] = 0 /\ p[Len(s)] = Len(s)
  BY <1>1
<1>3. \A i, j \in 0..Len(s) : i <= j => p[i] <= p[j]
  BY <1>1
<1>4. ASSUME NEW i \in 1..Len(s) PROVE Stands(s, p[i - 1], p[i], s[i])
  <2>1. p[i - 1] = i - 1 /\ p[i] = i /\ i = (i - 1) + 1
    BY <1>1
  <2> HIDE DEF p
  <2> QED
    BY <2>1 DEF Stands
<1> HIDE DEF p
<1> QED
  BY <1>2, <1>3, <1>4 DEF Encodes, EncodesBy

LEMMA EncodesConcat ==
  ASSUME NEW s1 \in Strings, NEW v1 \in Strings, NEW s2 \in Strings, NEW v2 \in Strings,
         Encodes(s1, v1), Encodes(s2, v2)
  PROVE  Encodes(s1 \o s2, v1 \o v2)
<1> DEFINE s == s1 \o s2
           v == v1 \o v2
           l1 == Len(s1)
           l2 == Len(s2)
           n1 == Len(v1)
           n2 == Len(v2)
<1>1. PICK p1 : EncodesBy(s1, v1, p1)
  BY DEF Encodes
<1>2. PICK p2 : EncodesBy(s2, v2, p2)
  BY DEF Encodes
<1>3. l1 \in Nat /\ l2 \in Nat /\ n1 \in Nat /\ n2 \in Nat
  BY DEF Strings
<1>4. /\ Len(s) = l1 + l2
      /\ \A i \in 1..(l1 + l2) : s[i] = IF i <= l1 THEN s1[i] ELSE s2[i - l1]
  BY ConcatProperties DEF Strings
<1>5. /\ Len(v) = n1 + n2
      /\ \A i \in 1..(n1 + n2) : v[i] = IF i <= n1 THEN v1[i] ELSE v2[i - n1]
  BY ConcatProperties DEF Strings
<1>6. /\ p1 \in [0..n1 -> 0..l1] /\ p1[0] = 0 /\ p1[n1] = l1
      /\ \A i, j \in 0..n1 : i <= j => p1[i] <= p1[j]
      /\ \A i \in 1..n1 : Stands(s1, p1[i - 1], p1[i], v1[i])
  BY <1>1 DEF EncodesBy
<1>7. /\ p2 \in [0..n2 -> 0..l2] /\ p2[0] = 0 /\ p2[n2] = l2
      /\ \A i, j \in 0..n2 : i <= j => p2[i] <= p2[j]
      /\ \A i \in 1..n2 : Stands(s2, p2[i - 1], p2[i], v2[i])
  BY <1>2 DEF EncodesBy
<1> HIDE DEF s, v, l1, l2, n1, n2
<1> DEFINE p == [i \in 0..(n1 + n2) |-> IF i <= n1 THEN p1[i] ELSE l1 + p2[i - n1]]
<1>8. /\ \A i \in 0..n1 : p[i] = p1[i] /\ p1[i] \in 0..l1
      /\ \A i \in n1..(n1 + n2) : p[i] = l1 + p2[i - n1] /\ p2[i - n1] \in 0..l2 /\ i - n1 \in 0..n2
  <2>1. ASSUME NEW i \in 0..n1 PROVE p[i] = p1[i] /\ p1[i] \in 0..l1
    BY <1>3, <1>6
  <2>2. ASSUME NEW i \in n1..(n1 + n2)
        PROVE  p[i] = l1 + p2[i - n1] /\ p2[i - n1] \in 0..l2 /\ i - n1 \in 0..n2
    <3>1. i - n1 \in 0..n2 /\ i \in 0..(n1 + n2)
      BY <1>3
    <3>2. p2[i - n1] \in 0..l2
      BY <1>7, <3>1
    <3>3. CASE i = n1
      <4>1. p[i] = p1[n1] /\ i - n1 = 0
        BY <1>3, <3>3
      <4> QED
        BY <1>3, <1>6, <1>7, <3>1, <3>2, <4>1
    <3>4. CASE i # n1
      <4>1. ~(i <= n1)
        BY <1>3, <3>4
      <4> QED
        BY <3>1, <3>2, <4>1
    <3> QED
      BY <3>3, <3>4
  <2> QED
    BY <2>1, <2>2
<1>9. DOMAIN p = 0..(n1 + n2) /\ p = [i \in 0..(n1 + n2) |-> p[i]]
  OBVIOUS
<1> HIDE DEF p
<1>10. ASSUME NEW i \in 0..(n1 + n2)
       PROVE  /\ p[i] \in 0..(l1 + l2)
              /\ i \in 0..n1 \/ i \in n1..(n1 + n2)
  <2>1. CASE i \in 0..n1
    <3>1. p[i] \in 0..l1
      BY <1>8, <2>1
    <3> QED
      BY <1>3, <2>1, <3>1
  <2>2. CASE i \in n1..(n1 + n2)
    <3>1. p[i] = l1 + p2[i - n1] /\ p2[i - n1] \in 0..l2
      BY <1>8, <2>2
    <3> QED
      BY <1>3, <2>2, <3>1
  <2> QED
    BY <1>3, <2>1, <2>2
<1>11. p \in [0..(n1 + n2) -> 0..(l1 + l2)]
  BY <1>9, <1>10
<1>12. p[0] = 0 /\ p[n1 + n2] = l1 + l2
  <2>1. 0 \in 0..n1 /\ n1 + n2 \in n1..(n1 + n2) /\ (n1 + n2) - n1 = n2
    BY <1>3
  <2> QED
    BY <1>6, <1>7, <1>8, <2>1
<1>13. ASSUME NEW i \in 0..(n1 + n2), NEW j \in 0..(n1 + n2), i <= j PROVE p[i] <= p[j]
  <2>1. CASE i \in 0..n1 /\ j \in 0..n1
    BY <1>6, <1>8, <1>13, <2>1
  <2>2. CASE i \in 0..n1 /\ j \in n1..(n1 + n2)
    <3>1. p[i] \in 0..l1 /\ p[j] = l1 + p2[j - n1] /\ p2[j - n1] \in 0..l2
      BY <1>8, <2>2
    <3> QED
      BY <1>3, <3>1
  <2>3. CASE i \in n1..(n1 + n2) /\ j \in n1..(n1 + n2)
    <3>1. /\ i - n1 \in 0..n2 /\ j - n1 \in 0..n2 /\ i - n1 <= j - n1
          /\ p[i] = l1 + p2[i - n1] /\ p[j] = l1 + p2[j - n1]
          /\ p2[i - n1] \in 0..l2 /\ p2[j - n1] \in 0..l2
      BY <1>3, <1>8, <1>13, <2>3
    <3>2. p2[i - n1] <= p2[j - n1]
      BY <1>7, <3>1
    <3> QED
      BY <1>3, <3>1, <3>2
  <2>4. i \in n1..(n1 + n2) => j \in n1..(n1 + n2)
    BY <1>3, <1>13
  <2> QED
    BY <1>10, <2>1, <2>2, <2>3, <2>4
<1>14. ASSUME NEW i \in 1..(n1 + n2) PROVE Stands(s, p[i - 1], p[i], v[i])
  <2>1. CASE i <= n1
    <3> DEFINE a == p1[i - 1]
               b == p1[i]
    <3>1. i \in 1..n1 /\ i - 1 \in 0..n1 /\ i \in 0..n1
      BY <1>3, <2>1
    <3>2. p[i - 1] = a /\ p[i] = b /\ a \in 0..l1 /\ b \in 0..l1
      BY <1>8, <3>1
    <3>3. Stands(s1, a, b, v1[i]) /\ v[i] = v1[i]
      BY <1>5, <1>6, <2>1, <3>1
    <3> HIDE DEF a, b
    <3>4. \A k \in 1..l1 : s[k] = s1[k]
      BY <1>3, <1>4
    <3>5. b = a + 1 => s[a + 1] = s1[a + 1]
      <4>1. b = a + 1 => a + 1 \in 1..l1
        BY <1>3, <3>2
      <4> QED
        BY <3>4, <4>1
    <3>6. b = a + 2 => s[a + 1] = s1[a + 1] /\ s[a + 2] = s1[a + 2]
      <4>1. b = a + 2 => a + 1 \in 1..l1 /\ a + 2 \in 1..l1
        BY <1>3, <3>2
      <4> QED
        BY <3>4, <4>1
    <3> QED
      BY <3>2, <3>3, <3>5, <3>6 DEF Stands
  <2>2. CASE ~(i <= n1)
    <3> DEFINE a == p2[i - 1 - n1]
               b == p2[i - n1]
    <3>1. i \in n1..(n1 + n2) /\ i - 1 \in n1..(n1 + n2) /\ i - n1 \in 1..n2
          /\ (i - n1) - 1 = i - 1 - n1
      BY <1>3, <2>2
    <3>2. p[i - 1] = l1 + a /\ p[i] = l1 + b /\ a \in 0..l2 /\ b \in 0..l2
      BY <1>8, <3>1
    <3>3. Stands(s2, a, b, v2[i - n1])
      BY <1>7, <3>1
    <3>4. v[i] = v2[i - n1]
      BY <1>5, <2>2
    <3> HIDE DEF a, b
    <3>5. \A k \in 1..l2 : s[l1 + k] = s2[k]
      <4> SUFFICES ASSUME NEW k \in 1..l2 PROVE s[l1 + k] = s2[k]
        OBVIOUS
      <4>1. l1 + k \in 1..(l1 + l2) /\ ~(l1 + k <= l1) /\ (l1 + k) - l1 = k
        BY <1>3
      <4> QED
        BY <1>4, <4>1
    <3>6. b = a + 1 => l1 + b = (l1 + a) + 1 /\ s[(l1 + a) + 1] = s2[a + 1]
      <4>1. b = a + 1 => a + 1 \in 1..l2 /\ l1 + b = (l1 + a) + 1 /\ (l1 + a) + 1 = l1 + (a + 1)
        BY <1>3, <3>2
      <4> QED
        BY <3>5, <4>1
    <3>7. b = a + 2 => /\ l1 + b = (l1 + a) + 2
                       /\ s[(l1 + a) + 1] = s2[a + 1] /\ s[(l1 + a) + 2] = s2[a + 2]
      <4>1. b = a + 2 => /\ a + 1 \in 1..l2 /\ a + 2 \in 1..l2 /\ l1 + b = (l1 + a) + 2
                         /\ (l1 + a) + 1 = l1 + (a + 1) /\ (l1 + a) + 2 = l1 + (a + 2)
        BY <1>3, <3>2
      <4> QED
        BY <3>5, <4>1
    <3> QED
      BY <3>2, <3>3, <3>4, <3>6, <3>7 DEF Stands
  <2> QED
    BY <2>1, <2>2
<1>15. EncodesBy(s, v, p)
  BY <1>4, <1>5, <1>11, <1>12, <1>13, <1>14 DEF EncodesBy
<1> QED
  BY <1>15 DEF Encodes, s, v

\* Each character belongs to what stands for one.
LEMMA Covered ==
  ASSUME NEW s \in Strings, NEW v \in Strings, NEW p, EncodesBy(s, v, p), NEW k \in 1..Len(s)
  PROVE  \E i \in 1..Len(v) : p[i - 1] < k /\ k <= p[i]
<1> DEFINE n == Len(v)
           S == {m \in Nat : m <= n /\ k <= p[m] => \E i \in 1..n : p[i - 1] < k /\ k <= p[i]}
<1>1. /\ n \in Nat /\ Len(s) \in Nat /\ p \in [0..n -> 0..Len(s)] /\ p[0] = 0 /\ p[n] = Len(s)
  BY DEF EncodesBy, Strings
<1> HIDE DEF n
<1>2. 0 \in S
  BY <1>1
<1>3. ASSUME NEW m \in Nat, m \in S PROVE m + 1 \in S
  <2> SUFFICES ASSUME m + 1 <= n, k <= p[m + 1] PROVE \E i \in 1..n : p[i - 1] < k /\ k <= p[i]
    OBVIOUS
  <2>1. m \in 0..n /\ m + 1 \in 1..n /\ (m + 1) - 1 = m /\ m <= n
    BY <1>1
  <2>2. p[m] \in Nat
    BY <1>1, <2>1
  <2>3. CASE k <= p[m]
    BY <1>3, <2>1, <2>3
  <2>4. CASE ~(k <= p[m])
    <3>1. p[(m + 1) - 1] < k
      BY <2>1, <2>2, <2>4
    <3> QED
      BY <2>1, <3>1
  <2> QED
    BY <2>3, <2>4
<1>4. \A m \in Nat : m \in S
  <2> HIDE DEF S
  <2> QED
    BY <1>2, <1>3, SetInduction
<1>5. n \in S /\ k <= p[n]
  BY <1>1, <1>4
<1> QED
  BY <1>1, <1>5 DEF n

LEMMA HexType ==
  ASSUME NEW c \in Specials
  PROVE  /\ Hex(c) \in Character /\ "%" \in Character
         /\ Hex(c) \notin Specials /\ "%" \notin Specials
         /\ Hex(c) # "&" /\ "%" # "&"
  BY DEF Specials, Hex, Character

\* The string after a replacement at position k.
Replaced(s, k, x, y) == SubSeq(s, 1, k - 1) \o <<x, y>> \o SubSeq(s, k + 1, Len(s))

LEMMA ReplacedString ==
  ASSUME NEW s \in Strings, NEW k \in 1..Len(s), NEW x \in Character, NEW y \in Character
  PROVE  /\ Replaced(s, k, x, y) \in Strings /\ Len(Replaced(s, k, x, y)) = Len(s) + 1
         /\ \A i \in 1..(k - 1) : Replaced(s, k, x, y)[i] = s[i]
         /\ Replaced(s, k, x, y)[k] = x /\ Replaced(s, k, x, y)[k + 1] = y
         /\ \A i \in (k + 1)..Len(s) : Replaced(s, k, x, y)[i + 1] = s[i]
<1> DEFINE t == Replaced(s, k, x, y)
           n == Len(s)
           a == SubSeq(s, 1, k - 1)
           m == <<x, y>>
           b == SubSeq(s, k + 1, n)
           am == a \o m
<1>1. n \in Nat /\ k \in 1..n /\ \A i \in 1..n : s[i] \in Character
  BY ElementOfSeq DEF Strings
<1>2. a \in Strings /\ Len(a) = k - 1 /\ \A i \in 1..(k - 1) : a[i] = s[i]
  <2>1. 1 \in Int /\ k - 1 \in Int /\ (k - 1) - 1 + 1 = k - 1 /\ (~(1 <= k - 1) => k - 1 = 0)
    BY <1>1
  <2>2. \A i \in 1..(k - 1) : s[i] \in Character
    BY <1>1
  <2>3. /\ a \in Strings /\ Len(a) = IF 1 <= k - 1 THEN (k - 1) - 1 + 1 ELSE 0
        /\ \A i \in 1..((k - 1) - 1 + 1) : a[i] = s[1 + i - 1]
    BY <2>1, <2>2, SubSeqProperties DEF Strings
  <2> HIDE DEF a
  <2>4. \A i \in 1..(k - 1) : 1 + i - 1 = i
    BY <1>1
  <2> QED
    BY <2>1, <2>3, <2>4
<1>3. b \in Strings /\ Len(b) = n - k /\ \A i \in 1..(n - k) : b[i] = s[k + i]
  <2>1. k + 1 \in Int /\ n \in Int /\ n - (k + 1) + 1 = n - k /\ (~(k + 1 <= n) => n - k = 0)
    BY <1>1
  <2>2. \A i \in (k + 1)..n : s[i] \in Character
    BY <1>1
  <2> DEFINE k1 == k + 1
  <2> HIDE DEF n, k1
  <2>3. /\ SubSeq(s, k1, n) \in Seq(Character) /\ Len(SubSeq(s, k1, n)) = IF k1 <= n THEN n - k1 + 1 ELSE 0
        /\ \A i \in 1..(n - k1 + 1) : SubSeq(s, k1, n)[i] = s[k1 + i - 1]
    <3>1. k1 \in Int /\ n \in Int /\ \A i \in k1..n : s[i] \in Character
      BY <2>1, <2>2 DEF k1
    <3> QED
      BY <3>1, SubSeqProperties
  <2> HIDE DEF b
  <2>4. b \in Strings /\ Len(b) = (IF k1 <= n THEN n - k1 + 1 ELSE 0) /\ \A i \in 1..(n - k1 + 1) : b[i] = s[k1 + i - 1]
    BY <2>3 DEF b, k1, Strings
  <2>5. n - k1 + 1 = n - k /\ (~(k1 <= n) => n - k = 0) /\ \A i \in 1..(n - k) : k1 + i - 1 = k + i
    BY <1>1 DEF k1
  <2> QED
    BY <2>4, <2>5
<1>4. m \in Strings /\ Len(m) = 2 /\ m[1] = x /\ m[2] = y
  BY Written DEF Strings
<1>5. t = am \o b
  BY DEF Replaced
<1> HIDE DEF a, b, m, t
<1>6. /\ am \in Strings /\ Len(am) = k + 1
      /\ \A i \in 1..(k + 1) : am[i] = IF i <= k - 1 THEN a[i] ELSE m[i - (k - 1)]
  <2>1. /\ am \in Strings /\ Len(am) = Len(a) + Len(m)
        /\ \A i \in 1..(Len(a) + Len(m)) : am[i] = IF i <= Len(a) THEN a[i] ELSE m[i - Len(a)]
    BY <1>2, <1>4, ConcatProperties DEF Strings
  <2>2. Len(a) = k - 1 /\ Len(a) + Len(m) = k + 1
    BY <1>1, <1>2, <1>4
  <2> HIDE DEF am
  <2> QED
    BY <2>1, <2>2
<1> HIDE DEF am
<1>7. /\ t \in Strings /\ Len(t) = n + 1
      /\ \A i \in 1..(n + 1) : t[i] = IF i <= k + 1 THEN am[i] ELSE b[i - (k + 1)]
  <2>1. /\ t \in Strings /\ Len(t) = Len(am) + Len(b)
        /\ \A i \in 1..(Len(am) + Len(b)) : t[i] = IF i <= Len(am) THEN am[i] ELSE b[i - Len(am)]
    <3>1. am \in Seq(Character) /\ b \in Seq(Character)
      BY <1>3, <1>6 DEF Strings
    <3> QED
      BY <1>5, <3>1, ConcatProperties DEF Strings
  <2>2. Len(am) = k + 1 /\ Len(am) + Len(b) = n + 1
    BY <1>1, <1>3, <1>6
  <2> QED
    BY <2>1, <2>2
<1>8. ASSUME NEW i \in 1..(k - 1) PROVE t[i] = s[i]
  <2>1. i \in 1..(n + 1) /\ i <= k + 1 /\ i \in 1..(k + 1) /\ i <= k - 1
    BY <1>1
  <2> QED
    BY <1>2, <1>6, <1>7, <2>1
<1>9. t[k] = x /\ t[k + 1] = y
  <2>1. /\ k \in 1..(n + 1) /\ k <= k + 1 /\ k \in 1..(k + 1) /\ ~(k <= k - 1) /\ k - (k - 1) = 1
        /\ k + 1 \in 1..(n + 1) /\ k + 1 \in 1..(k + 1) /\ ~(k + 1 <= k - 1) /\ (k + 1) - (k - 1) = 2
        /\ k + 1 <= k + 1
    BY <1>1
  <2>2. t[k] = am[k] /\ am[k] = m[1]
    BY <1>6, <1>7, <2>1
  <2>3. t[k + 1] = am[k + 1] /\ am[k + 1] = m[2]
    BY <1>6, <1>7, <2>1
  <2> QED
    BY <1>4, <2>2, <2>3
<1>10. ASSUME NEW i \in (k + 1)..n PROVE t[i + 1] = s[i]
  <2>1. i + 1 \in 1..(n + 1) /\ ~(i + 1 <= k + 1) /\ (i + 1) - (k + 1) = i - k /\ i - k \in 1..(n - k)
        /\ k + (i - k) = i
    BY <1>1
  <2>2. t[i + 1] = b[i - k]
    BY <1>7, <2>1
  <2> QED
    BY <1>3, <2>1, <2>2
<1> QED
  BY <1>7, <1>8, <1>9, <1>10 DEF n, t

\* A turn of a loop encodes one character more.
LEMMA ReplaceEncodes ==
  ASSUME NEW s \in Strings, NEW v \in Strings, Encodes(s, v), NEW k \in 1..Len(s), s[k] \in Specials,
         NEW t, t = Replaced(s, k, "%", Hex(s[k]))
  PROVE  Encodes(t, v)
<1> DEFINE n == Len(v)
           l == Len(s)
<1>1. PICK p : EncodesBy(s, v, p)
  BY DEF Encodes
<1>2. PICK i \in 1..n : p[i - 1] < k /\ k <= p[i]
  BY <1>1, Covered
<1>3. /\ n \in Nat /\ l \in Nat /\ p \in [0..n -> 0..l] /\ p[0] = 0 /\ p[n] = l
      /\ \A a, b \in 0..n : a <= b => p[a] <= p[b]
      /\ \A j \in 1..n : Stands(s, p[j - 1], p[j], v[j])
  BY <1>1 DEF EncodesBy, Strings
<1>4. /\ Len(t) = l + 1
      /\ \A j \in 1..(k - 1) : t[j] = s[j]
      /\ t[k] = "%" /\ t[k + 1] = Hex(s[k])
      /\ \A j \in (k + 1)..l : t[j + 1] = s[j]
  <2>1. "%" \in Character /\ Hex(s[k]) \in Character
    BY HexType
  <2> DEFINE h == Hex(s[k])
  <2> HIDE DEF h
  <2>2. t = Replaced(s, k, "%", h) /\ h \in Character
    BY <2>1 DEF h
  <2>3. /\ Len(t) = Len(s) + 1
        /\ \A j \in 1..(k - 1) : t[j] = s[j]
        /\ t[k] = "%" /\ t[k + 1] = h
        /\ \A j \in (k + 1)..Len(s) : t[j + 1] = s[j]
    BY <2>1, <2>2, ReplacedString
  <2> QED
    BY <2>3 DEF h
<1>5. k \in 1..l
  OBVIOUS
<1> HIDE DEF n, l
<1>6. i \in 1..n /\ i - 1 \in 0..n /\ i \in 0..n /\ p[i - 1] \in 0..l /\ p[i] \in 0..l
  BY <1>2, <1>3
\* What stands at k is no code.
<1>7. p[i - 1] = k - 1 /\ p[i] = k /\ v[i] = s[k]
  <2> DEFINE a == p[i - 1]
             b == p[i]
  <2>1. Stands(s, a, b, v[i]) /\ a < k /\ k <= b /\ a \in 0..l /\ b \in 0..l
    BY <1>2, <1>3, <1>6
  <2> HIDE DEF a, b
  <2>2. CASE b = a + 1 /\ s[a + 1] = v[i]
    <3>1. a = k - 1 /\ b = k /\ a + 1 = k
      BY <1>3, <1>5, <2>1, <2>2
    <3> QED
      BY <2>2, <3>1 DEF a, b
  <2>3. CASE b = a + 2 /\ v[i] \in Specials /\ s[a + 1] = "%" /\ s[a + 2] = Hex(v[i])
    <3>1. k = a + 1 \/ k = a + 2
      BY <1>3, <1>5, <2>1, <2>3
    <3>2. s[k] \notin Specials
      BY <2>3, <3>1, HexType
    <3> QED
      BY <3>2
  <2> QED
    BY <2>1, <2>2, <2>3 DEF Stands
<1> DEFINE q == [j \in 0..n |-> IF j < i THEN p[j] ELSE p[j] + 1]
<1>8. /\ \A j \in 0..(i - 1) : q[j] = p[j] /\ p[j] \in 0..(k - 1)
      /\ \A j \in i..n : q[j] = p[j] + 1 /\ p[j] \in k..l
  <2>1. ASSUME NEW j \in 0..(i - 1) PROVE q[j] = p[j] /\ p[j] \in 0..(k - 1)
    <3>1. j \in 0..n /\ j < i /\ j <= i - 1
      BY <1>3, <1>6
    <3>2. p[j] \in 0..l /\ p[j] <= p[i - 1]
      BY <1>3, <1>6, <3>1
    <3> QED
      BY <1>3, <1>5, <1>7, <3>1, <3>2
  <2>2. ASSUME NEW j \in i..n PROVE q[j] = p[j] + 1 /\ p[j] \in k..l
    <3>1. j \in 0..n /\ ~(j < i) /\ i <= j
      BY <1>3, <1>6
    <3>2. p[j] \in 0..l /\ p[i] <= p[j]
      BY <1>3, <1>6, <3>1
    <3> QED
      BY <1>3, <1>5, <1>7, <3>1, <3>2
  <2> QED
    BY <2>1, <2>2
<1>9. q = [j \in 0..n |-> q[j]]
  OBVIOUS
<1> HIDE DEF q
<1>10. ASSUME NEW j \in 0..n PROVE q[j] \in 0..(l + 1) /\ (j \in 0..(i - 1) \/ j \in i..n)
  <2>1. j \in 0..(i - 1) \/ j \in i..n
    BY <1>3, <1>6
  <2>2. CASE j \in 0..(i - 1)
    <3>1. q[j] \in 0..(k - 1)
      BY <1>8, <2>2
    <3> QED
      BY <1>3, <1>5, <2>1, <3>1
  <2>3. CASE j \in i..n
    <3>1. q[j] = p[j] + 1 /\ p[j] \in k..l
      BY <1>8, <2>3
    <3> QED
      BY <1>3, <1>5, <2>1, <3>1
  <2> QED
    BY <2>1, <2>2, <2>3
<1>11. q \in [0..n -> 0..(l + 1)]
  BY <1>9, <1>10
<1>12. q[0] = 0 /\ q[n] = l + 1
  <2>1. 0 \in 0..(i - 1) /\ n \in i..n
    BY <1>3, <1>6
  <2> QED
    BY <1>3, <1>8, <2>1
<1>13. ASSUME NEW a \in 0..n, NEW b \in 0..n, a <= b PROVE q[a] <= q[b]
  <2>1. p[a] <= p[b] /\ p[a] \in 0..l /\ p[b] \in 0..l
    BY <1>3, <1>13
  <2>2. CASE a \in 0..(i - 1) /\ b \in 0..(i - 1)
    BY <1>8, <2>1, <2>2
  <2>3. CASE a \in 0..(i - 1) /\ b \in i..n
    <3>1. q[a] = p[a] /\ q[b] = p[b] + 1
      BY <1>8, <2>3
    <3> QED
      BY <2>1, <3>1
  <2>4. CASE a \in i..n /\ b \in i..n
    <3>1. q[a] = p[a] + 1 /\ q[b] = p[b] + 1
      BY <1>8, <2>4
    <3> QED
      BY <2>1, <3>1
  <2>5. a \in i..n => b \in i..n
    BY <1>3, <1>6, <1>13
  <2> QED
    BY <1>10, <2>2, <2>3, <2>4, <2>5
<1>14. ASSUME NEW j \in 1..n PROVE Stands(t, q[j - 1], q[j], v[j])
  <2> DEFINE a == p[j - 1]
             b == p[j]
  <2>1. Stands(s, a, b, v[j])
    BY <1>3
  <2>2. CASE j < i
    <3>1. j - 1 \in 0..(i - 1) /\ j \in 0..(i - 1)
      BY <1>3, <1>6, <2>2
    <3>2. q[j - 1] = a /\ q[j] = b /\ a \in 0..(k - 1) /\ b \in 0..(k - 1)
      BY <1>8, <3>1
    <3> HIDE DEF a, b
    <3>3. b = a + 1 => t[a + 1] = s[a + 1]
      <4>1. b = a + 1 => a + 1 \in 1..(k - 1)
        BY <1>5, <1>3, <3>2
      <4> QED
        BY <1>4, <4>1
    <3>4. b = a + 2 => t[a + 1] = s[a + 1] /\ t[a + 2] = s[a + 2]
      <4>1. b = a + 2 => a + 1 \in 1..(k - 1) /\ a + 2 \in 1..(k - 1)
        BY <1>5, <1>3, <3>2
      <4> QED
        BY <1>4, <4>1
    <3> QED
      BY <2>1, <3>2, <3>3, <3>4 DEF Stands
  <2>3. CASE j = i
    <3>1. i - 1 \in 0..(i - 1) /\ i \in i..n
      BY <1>3, <1>6
    <3>2. q[i - 1] = k - 1 /\ q[i] = k + 1
      BY <1>7, <1>8, <3>1
    <3>3. k + 1 = (k - 1) + 2 /\ (k - 1) + 1 = k /\ (k - 1) + 2 = k + 1
      BY <1>3, <1>5
    <3> QED
      BY <1>4, <1>7, <2>3, <3>2, <3>3 DEF Stands
  <2>4. CASE i < j
    <3>1. j - 1 \in i..n /\ j \in i..n
      BY <1>3, <1>6, <2>4
    <3>2. q[j - 1] = a + 1 /\ q[j] = b + 1 /\ a \in k..l /\ b \in k..l
      BY <1>8, <3>1
    <3> HIDE DEF a, b
    <3>3. b = a + 1 => b + 1 = (a + 1) + 1 /\ t[(a + 1) + 1] = s[a + 1]
      <4>1. b = a + 1 => a + 1 \in (k + 1)..l /\ b + 1 = (a + 1) + 1
        BY <1>5, <1>3, <3>2
      <4> QED
        BY <1>4, <4>1
    <3>4. b = a + 2 => b + 1 = (a + 1) + 2 /\ t[(a + 1) + 1] = s[a + 1] /\ t[(a + 1) + 2] = s[a + 2]
      <4>1. b = a + 2 => a + 1 \in (k + 1)..l /\ a + 2 \in (k + 1)..l /\ b + 1 = (a + 1) + 2
                         /\ (a + 1) + 2 = (a + 2) + 1
        BY <1>5, <1>3, <3>2
      <4> QED
        BY <1>4, <4>1
    <3> QED
      BY <2>1, <3>2, <3>3, <3>4 DEF Stands
  <2>5. j < i \/ j = i \/ i < j
    BY <1>3, <1>6
  <2> QED
    BY <2>2, <2>3, <2>4, <2>5
<1>15. EncodesBy(t, v, q)
  BY <1>4, <1>11, <1>12, <1>13, <1>14 DEF EncodesBy, n, l
<1> QED
  BY <1>15 DEF Encodes

------------------------------------------------------------------------------
(* The query.                                                              *)

\* query_str writes one parameter after the other.
LEMMA QuerySteps ==
  ASSUME NEW ps \in Params
  PROVE  \E f : /\ f \in [0..Len(ps) -> Strings] /\ f[0] = <<"sendMessage?">>
                /\ \A i \in 1..Len(ps) : f[i] = f[i - 1] \o Pair(ps[i])
                /\ query_str(ps) = f[Len(ps)]
<1> DEFINE n == Len(ps)
           path == <<"sendMessage?">>
           ss == [i \in 1..n |-> Pair(ps[i])]
<1>1. n \in Nat /\ \A i \in 1..n : ps[i] \in Character \X Strings
  BY ElementOfSeq DEF Params
<1>2. ss \in [1..n -> Strings]
  BY <1>1, PairType
<1>3. query_str(ps) = path \o FlattenSeq(ss)
  BY DEF query_str, Pair
<1>4. path \in Strings
  BY Written DEF Character, Strings
<1>5. \A i \in 1..n : ss[i] = Pair(ps[i])
  OBVIOUS
<1> HIDE DEF n, path, ss
<1>6. ss \in Seq(Strings) /\ Len(ss) = n
  BY <1>1, <1>2, FunctionSeq
<1>7. CASE n = 0
  <2>1. ss = <<>>
    BY <1>6, <1>7, EmptySeq
  <2>2. FlattenSeq(ss) = <<>>
    BY <2>1, Zenon DEF FlattenSeq
  <2>3. query_str(ps) = path
    BY <1>3, <1>4, <2>2, ConcatEmptySeq DEF Strings
  <2> DEFINE f == [i \in 0..n |-> path]
  <2>4. f \in [0..n -> Strings] /\ f[0] = path /\ f[n] = path /\ \A i \in 1..n : f[i] = f[i - 1] \o Pair(ps[i])
    BY <1>4, <1>7
  <2> HIDE DEF f
  <2> QED
    BY <2>3, <2>4 DEF n, path
<1>8. CASE n # 0
  <2>1. ss # <<>>
    BY <1>6, <1>8, EmptySeq
  <2>2. PICK g : /\ g \in [0..Len(ss) -> Strings] /\ g[0] = <<>>
                 /\ \A i \in 1..Len(ss) : g[i] = g[i - 1] \o ss[i]
                 /\ FlattenSeq(ss) = g[Len(ss)]
    BY <1>6, <2>1, FlattenSteps DEF Strings
  <2> DEFINE f == [i \in 0..n |-> path \o g[i]]
  <2>3. /\ g \in [0..n -> Strings] /\ g[0] = <<>> /\ FlattenSeq(ss) = g[n]
        /\ \A i \in 1..n : g[i] = g[i - 1] \o Pair(ps[i])
    BY <1>5, <1>6, <2>2
  <2>4. f \in [0..n -> Strings]
    <3>1. \A i \in 0..n : path \o g[i] \in Strings
      BY <1>4, <2>3, ConcatProperties DEF Strings
    <3> QED
      BY <3>1
  <2>5. f[0] = path
    <3>1. 0 \in 0..n /\ path \o <<>> = path
      BY <1>1, <1>4, ConcatEmptySeq DEF Strings
    <3> QED
      BY <2>3, <3>1
  <2>6. f[n] = query_str(ps)
    <3>1. n \in 0..n
      BY <1>1
    <3> QED
      BY <1>3, <2>3, <3>1
  <2>7. ASSUME NEW i \in 1..n PROVE f[i] = f[i - 1] \o Pair(ps[i])
    <3>1. i \in 0..n /\ i - 1 \in 0..n
      BY <1>1
    <3>2. Pair(ps[i]) \in Strings /\ g[i - 1] \in Strings
      BY <1>1, <2>3, <3>1, PairType
    <3>3. f[i] = path \o (g[i - 1] \o Pair(ps[i]))
      BY <2>3, <3>1
    <3>4. f[i - 1] = path \o g[i - 1]
      BY <3>1
    <3> HIDE DEF f
    <3> DEFINE a == g[i - 1]
               b == Pair(ps[i])
    <3> HIDE DEF a, b
    <3>5. a \in Seq(Character) /\ b \in Seq(Character) /\ path \in Seq(Character)
      BY <1>4, <3>2 DEF Strings, a, b
    <3>6. path \o (a \o b) = (path \o a) \o b
      BY <3>5, ConcatAssociative
    <3> QED
      BY <3>3, <3>4, <3>6 DEF a, b
  <2> HIDE DEF f
  <2> QED
    BY <2>4, <2>5, <2>6, <2>7 DEF n, path
<1> QED
  BY <1>7, <1>8

\* A query is encoded when its values are.
LEMMA QueryEncodes ==
  ASSUME NEW ps \in Params, NEW qs \in Params, Len(qs) = Len(ps),
         \A i \in 1..Len(ps) : qs[i][1] = ps[i][1] /\ Encodes(qs[i][2], ps[i][2])
  PROVE  Encodes(query_str(qs), query_str(ps))
<1> DEFINE n == Len(ps)
<1>1. n \in Nat /\ \A i \in 1..n : ps[i] \in Character \X Strings /\ qs[i] \in Character \X Strings
  BY ElementOfSeq DEF Params
<1>2. PICK f : /\ f \in [0..n -> Strings] /\ f[0] = <<"sendMessage?">>
               /\ \A i \in 1..n : f[i] = f[i - 1] \o Pair(ps[i])
               /\ query_str(ps) = f[n]
  BY QuerySteps
<1>3. PICK g : /\ g \in [0..n -> Strings] /\ g[0] = <<"sendMessage?">>
               /\ \A i \in 1..n : g[i] = g[i - 1] \o Pair(qs[i])
               /\ query_str(qs) = g[n]
  <2>1. PICK g : /\ g \in [0..Len(qs) -> Strings] /\ g[0] = <<"sendMessage?">>
                 /\ \A i \in 1..Len(qs) : g[i] = g[i - 1] \o Pair(qs[i])
                 /\ query_str(qs) = g[Len(qs)]
    BY QuerySteps
  <2> QED
    BY <2>1
<1> HIDE DEF n
<1>4. ASSUME NEW i \in 1..n PROVE Encodes(Pair(qs[i]), Pair(ps[i]))
  <2> DEFINE key == <<ps[i][1], "=">>
             a == ps[i][2]
             b == qs[i][2]
             and == <<"&">>
  <2>1. key \in Strings /\ and \in Strings /\ a \in Strings /\ b \in Strings
    <3>1. ps[i][1] \in Character /\ "=" \in Character /\ "&" \in Character
      BY <1>1 DEF Character
    <3> QED
      BY <1>1, <3>1, Written DEF Strings
  <2>2. Pair(qs[i]) = key \o b \o and /\ Pair(ps[i]) = key \o a \o and /\ Encodes(b, a)
    BY DEF Pair, n
  <2> HIDE DEF key, a, b, and
  <2>3. Encodes(key, key) /\ Encodes(and, and)
    BY <2>1, EncodesSelf
  <2>4. key \o a \in Strings /\ key \o b \in Strings
    BY <2>1, ConcatProperties DEF Strings
  <2>5. Encodes(key \o b, key \o a)
    BY <2>1, <2>2, <2>3, EncodesConcat
  <2>6. Encodes((key \o b) \o and, (key \o a) \o and)
    BY <2>1, <2>3, <2>4, <2>5, EncodesConcat
  <2> QED
    BY <2>2, <2>6
<1> DEFINE S == {m \in Nat : m <= n => Encodes(g[m], f[m])}
<1>5. 0 \in S
  <2>1. <<"sendMessage?">> \in Strings
    BY Written DEF Character, Strings
  <2> QED
    BY <1>2, <1>3, <2>1, EncodesSelf
<1>6. ASSUME NEW m \in Nat, m \in S PROVE m + 1 \in S
  <2> SUFFICES ASSUME m + 1 <= n PROVE Encodes(g[m + 1], f[m + 1])
    OBVIOUS
  <2>1. m + 1 \in 1..n /\ (m + 1) - 1 = m /\ m <= n /\ m \in 0..n
    BY <1>1
  <2>2. Encodes(g[m], f[m]) /\ g[m] \in Strings /\ f[m] \in Strings
    BY <1>2, <1>3, <1>6, <2>1
  <2>3. /\ Pair(ps[m + 1]) \in Strings /\ Pair(qs[m + 1]) \in Strings
        /\ Encodes(Pair(qs[m + 1]), Pair(ps[m + 1]))
    BY <1>1, <1>4, <2>1, PairType
  <2>4. g[m + 1] = g[m] \o Pair(qs[m + 1]) /\ f[m + 1] = f[m] \o Pair(ps[m + 1])
    <3>1. /\ g[m + 1] = g[(m + 1) - 1] \o Pair(qs[m + 1])
          /\ f[m + 1] = f[(m + 1) - 1] \o Pair(ps[m + 1])
      BY <1>2, <1>3, <2>1
    <3> QED
      BY <2>1, <3>1
  <2> DEFINE a == Pair(qs[m + 1])
             b == Pair(ps[m + 1])
             c == g[m]
             d == f[m]
  <2> HIDE DEF a, b, c, d
  <2>5. Encodes(c \o a, d \o b)
    BY <2>2, <2>3, EncodesConcat DEF a, b, c, d
  <2> QED
    BY <2>4, <2>5 DEF a, b, c, d
<1>7. n \in S
  <2> HIDE DEF S
  <2> QED
    BY <1>1, <1>5, <1>6, SetInduction
<1> QED
  BY <1>1, <1>2, <1>3, <1>7

------------------------------------------------------------------------------
(* The parameters.                                                         *)

IsHelp(m) == m.kind = "command" /\ Asks(m, "help")
IsLanguage(m) == m.kind = "command" /\ Asks(m, "language")

\* A command asks for one thing.
LEMMA OneCommand == ASSUME NEW m PROVE ~(IsHelp(m) /\ IsLanguage(m))
<1> SUFFICES ASSUME get_command_text(m.chat_type, "help") = get_command_text(m.chat_type, "language") PROVE FALSE
  BY DEF IsHelp, IsLanguage, Asks
<1>1. CASE m.chat_type \in Groups
  <2>1. /\ get_command_text(m.chat_type, "help") = <<"/", "help", "@bot">>
        /\ get_command_text(m.chat_type, "language") = <<"/", "language", "@bot">>
    BY <1>1 DEF get_command_text, Groups
  <2> QED
    BY <2>1
<1>2. CASE m.chat_type = "private"
  <2>1. /\ get_command_text(m.chat_type, "help") = <<"/", "help">>
        /\ get_command_text(m.chat_type, "language") = <<"/", "language">>
    BY <1>2 DEF get_command_text, Groups
  <2> QED
    BY <2>1
<1>3. CASE m.chat_type \notin Groups /\ m.chat_type # "private"
  <2>1. /\ get_command_text(m.chat_type, "help") = <<"help">>
        /\ get_command_text(m.chat_type, "language") = <<"language">>
    BY <1>3 DEF get_command_text
  <2> QED
    BY <2>1
<1> QED
  BY <1>1, <1>2, <1>3

TranscriptParams(m) == << <<"chat_id", <<"chat">>>>, <<"reply_to_message_id", <<"id">>>>, <<"text", m.text>> >>
ButtonParams == << <<"chat_id", <<"chat">>>>, <<"message_id", <<"id">>>> >>
LanguageParams ==
  << <<"chat_id", <<"chat">>>>, <<"message_id", <<"id">>>>, <<"text", <<"Please", " ", "select">>>>,
     <<"reply_markup", serialize(keyboard)>> >>
HelpParams(text) == << <<"chat_id", <<"chat">>>>, <<"reply_to_message_id", <<"id">>>>, <<"text", text>> >>

\* The cases of Meant.
LEMMA MeantCases ==
  ASSUME NEW m
  PROVE  /\ m.kind = "transcript" => Meant(m) = TranscriptParams(m)
         /\ m.kind = "button" => Meant(m) = ButtonParams
         /\ IsLanguage(m) => Meant(m) = LanguageParams
         /\ IsHelp(m) => Meant(m) = HelpParams(HelpText)
         /\ m.kind # "transcript" /\ m.kind # "button" /\ ~IsLanguage(m) /\ ~IsHelp(m) => Meant(m) = <<>>
<1>1. m.kind = "transcript" => Meant(m) = TranscriptParams(m)
  BY DEF Meant, TranscriptParams
<1>2. m.kind = "button" => Meant(m) = ButtonParams
  BY DEF Meant, ButtonParams
<1>3. IsLanguage(m) => Meant(m) = LanguageParams
  BY OneCommand DEF Meant, LanguageParams, IsLanguage, IsHelp
<1>4. IsHelp(m) => Meant(m) = HelpParams(HelpText)
  BY OneCommand DEF Meant, HelpParams, IsLanguage, IsHelp
<1>5. m.kind # "transcript" /\ m.kind # "button" /\ ~IsLanguage(m) /\ ~IsHelp(m) => Meant(m) = <<>>
  BY DEF Meant, IsLanguage, IsHelp
<1> QED
  BY <1>1, <1>2, <1>3, <1>4, <1>5

LEMMA KeyboardType == serialize(keyboard) \in Strings
<1>1. (Len(Languages) + 1) \div 2 \in 0..((Len(Languages) + 1) \div 2)
  <2>1. Len(Languages) \in Nat
    BY RowType
  <2> QED
    BY <2>1
<1>2. keyboard \in Seq(Strings)
  BY <1>1, KeyboardRows, RowsType
<1> QED
  BY <1>2, SerializeType

\* A written list of pairs.
LEMMA ParamTypes ==
  ASSUME NEW a \in Strings
  PROVE  /\ HelpParams(a) \in Params /\ Len(HelpParams(a)) = 3
         /\ ButtonParams \in Params /\ LanguageParams \in Params /\ <<>> \in Params
<1> DEFINE C == Character \X Strings
<1>1. /\ "chat_id" \in Character /\ "chat" \in Character /\ "reply_to_message_id" \in Character
      /\ "id" \in Character /\ "text" \in Character /\ "message_id" \in Character
      /\ "reply_markup" \in Character /\ "Please" \in Character /\ " " \in Character /\ "select" \in Character
  BY DEF Character
<1>2. /\ <<"chat">> \in Strings /\ <<"id">> \in Strings /\ <<"Please", " ", "select">> \in Strings
  BY <1>1, Written DEF Strings
<1>3. /\ <<"chat_id", <<"chat">>>> \in C /\ <<"reply_to_message_id", <<"id">>>> \in C
      /\ <<"message_id", <<"id">>>> \in C /\ <<"text", <<"Please", " ", "select">>>> \in C
      /\ <<"text", a>> \in C /\ <<"reply_markup", serialize(keyboard)>> \in C
  BY <1>1, <1>2, KeyboardType
<1> HIDE DEF C
<1>4. HelpParams(a) \in Seq(C) /\ Len(HelpParams(a)) = 3
  BY <1>3, Written DEF HelpParams
<1>5. ButtonParams \in Seq(C)
  BY <1>3, Written DEF ButtonParams
<1>6. LanguageParams \in Seq(C)
  <2>1. ASSUME NEW p \in C, NEW q \in C, NEW r \in C, NEW u \in C PROVE <<p, q, r, u>> \in Seq(C)
    OBVIOUS
  <2> QED
    BY <1>3, <2>1 DEF LanguageParams
<1>7. <<>> \in Seq(C)
  BY EmptySeq
<1> QED
  BY <1>4, <1>5, <1>6, <1>7 DEF C, Params

LEMMA MeantType == ASSUME NEW m \in Messages PROVE Meant(m) \in Params
<1>1. m.kind = "transcript" => TranscriptParams(m) = HelpParams(m.text) /\ m.text \in Strings
  BY RequestAssumption DEF TranscriptParams, HelpParams, Strings
<1>2. HelpText \in Strings
  BY RequestAssumption DEF Strings
<1>3. /\ HelpParams(HelpText) \in Params /\ ButtonParams \in Params /\ LanguageParams \in Params
      /\ <<>> \in Params
  BY <1>2, ParamTypes
<1>4. m.kind = "transcript" => Meant(m) \in Params
  <2> SUFFICES ASSUME m.kind = "transcript" PROVE HelpParams(m.text) \in Params
    BY <1>1, MeantCases
  <2> QED
    BY <1>1, ParamTypes
<1> QED
  BY <1>3, <1>4, MeantCases

------------------------------------------------------------------------------
(* The loops.                                                              *)

\* The string that is worked on stands for what is meant: for the help text, and
\* then for the query of the parameters that are meant.
Standing ==
  /\ stage = "new" => params = <<>>
  /\ stage = "help" => IsHelp(message) /\ params = Meant(message) /\ Encodes(str, HelpText)
  /\ stage \in {"query", "sent"} => Encodes(str, query_str(Meant(message)))
  /\ stage \in {"query", "sent"} /\ ~IsHelp(message) => params = Meant(message)

\* What earlier rounds replace is nowhere left, and what this one replaces is not
\* left before the place where the search goes on.
Searched ==
  /\ \A j \in 1..3 : j < round => \A k \in 1..Len(str) : str[k] # replacements[j][1]
  /\ round <= 3 => \A k \in 1..(start_pos - 1) : str[k] # replacements[round][1]

Sending ==
  stage = "sent" => round = 4 /\ target = IF Last(str) = "&" THEN Front(str) ELSE str

\* The inductive invariant of a request.
RequestInv == RequestTypeOK /\ Standing /\ Searched /\ Sending

LEMMA Replacement ==
  /\ \A r \in 1..3 : /\ replacements[r][1] \in Specials
                     /\ replacements[r][2] = <<"%", Hex(replacements[r][1])>>
  /\ \A c \in Specials : \E r \in 1..3 : replacements[r][1] = c
<1>1. /\ replacements[1][1] = " " /\ replacements[1][2] = <<"%", "20">>
      /\ replacements[2][1] = "\n" /\ replacements[2][2] = <<"%", "0A">>
      /\ replacements[3][1] = "+" /\ replacements[3][2] = <<"%", "2B">>
  BY DEF replacements
<1>2. Hex(" ") = "20" /\ Hex("\n") = "0A" /\ Hex("+") = "2B"
  BY DEF Hex
<1>3. \A r \in 1..3 : r = 1 \/ r = 2 \/ r = 3
  OBVIOUS
<1>4. \A r \in 1..3 : replacements[r][1] \in Specials
  BY <1>1, <1>3 DEF Specials
<1>5. \A r \in 1..3 : replacements[r][2] = <<"%", Hex(replacements[r][1])>>
  BY <1>1, <1>2, <1>3
<1>6. \A c \in Specials : \E r \in 1..3 : replacements[r][1] = c
  <2>1. 1 \in 1..3 /\ 2 \in 1..3 /\ 3 \in 1..3
    OBVIOUS
  <2>2. \A c \in Specials : c = " " \/ c = "\n" \/ c = "+"
    BY DEF Specials
  <2> HIDE DEF replacements
  <2> QED
    BY <1>1, <2>1, <2>2
<1> QED
  BY <1>4, <1>5, <1>6

\* A turn of a loop that finds something.
LEMMA FoundTurn ==
  ASSUME str \in Strings, round \in 1..3, start_pos \in 1..(Len(str) + 1), Searched,
         NEW k \in 1..Len(str), Found(k), \A j \in 1..(k - 1) : ~Found(j),
         str' = SubSeq(str, 1, k - 1) \o replacements[round][2] \o SubSeq(str, k + 1, Len(str)),
         start_pos' = k + Len(replacements[round][2]), round' = round
  PROVE  /\ str' = Replaced(str, k, "%", Hex(str[k])) /\ str[k] \in Specials
         /\ str' \in Strings /\ Len(str') = Len(str) + 1 /\ start_pos' = k + 2 /\ k >= start_pos
         /\ Searched'
<1> DEFINE s == str
           t == str'
           c == replacements[round][1]
           l == Len(str)
           h == Hex(c)
<1>1. c \in Specials /\ replacements[round][2] = <<"%", h>> /\ s[k] = c /\ k >= start_pos /\ l \in Nat
  BY Replacement DEF Found, Strings
<1>2. h \in Character /\ "%" \in Character /\ h \notin Specials /\ "%" \notin Specials
  BY <1>1, HexType
<1>3. t = Replaced(s, k, "%", h)
  BY <1>1 DEF Replaced
<1>4. start_pos' = k + 2
  <2>1. Len(<<"%", h>>) = 2
    OBVIOUS
  <2> QED
    BY <1>1, <2>1
<1> HIDE DEF h, t
<1>5. /\ t \in Strings /\ Len(t) = Len(s) + 1
      /\ \A i \in 1..(k - 1) : t[i] = s[i]
      /\ t[k] = "%" /\ t[k + 1] = h
      /\ \A i \in (k + 1)..Len(s) : t[i + 1] = s[i]
  BY <1>2, <1>3, ReplacedString
<1> HIDE DEF l
\* Every character comes from the old string or is put in.
<1>6. ASSUME NEW i \in 1..(l + 1) PROVE t[i] \notin Specials \/ \E j \in 1..l : t[i] = s[j]
  <2>1. i \in 1..(k - 1) \/ i = k \/ i = k + 1 \/ i - 1 \in (k + 1)..l
    BY <1>1 DEF l
  <2>2. CASE i \in 1..(k - 1)
    <3>1. i \in 1..l
      BY <1>1, <2>2 DEF l
    <3> QED
      BY <1>5, <2>2, <3>1
  <2>3. CASE i = k \/ i = k + 1
    BY <1>2, <1>5, <2>3
  <2>4. CASE i - 1 \in (k + 1)..l
    <3>1. i - 1 \in 1..l /\ (i - 1) + 1 = i
      BY <1>1, <2>4
    <3>2. t[(i - 1) + 1] = s[i - 1]
      BY <1>5, <2>4 DEF l
    <3> QED
      BY <3>1, <3>2
  <2> QED
    BY <2>1, <2>2, <2>3, <2>4
<1>7. ASSUME NEW j \in 1..3, j < round PROVE \A i \in 1..(l + 1) : t[i] # replacements[j][1]
  <2>1. replacements[j][1] \in Specials
    BY Replacement
  <2>2. \A i \in 1..l : s[i] # replacements[j][1]
    BY <1>7 DEF Searched, l
  <2> QED
    BY <1>6, <2>1, <2>2
<1>8. ASSUME NEW i \in 1..(k + 1) PROVE t[i] # c
  <2>1. CASE i \in 1..(k - 1)
    <3>1. t[i] = s[i]
      BY <1>5, <2>1
    <3>2. CASE i < start_pos
      <4>1. i \in 1..(start_pos - 1)
        BY <1>1, <2>1, <3>2
      <4> QED
        BY <3>1, <4>1 DEF Searched
    <3>3. CASE ~(i < start_pos)
      <4>1. i \in start_pos..Len(str)
        BY <1>1, <2>1, <3>3 DEF l
      <4>2. ~Found(i)
        BY <2>1
      <4> QED
        BY <3>1, <4>1, <4>2 DEF Found
    <3> QED
      BY <3>2, <3>3
  <2>2. CASE i = k \/ i = k + 1
    BY <1>1, <1>2, <1>5, <2>2
  <2>3. i \in 1..(k - 1) \/ i = k \/ i = k + 1
    BY <1>1
  <2> QED
    BY <2>1, <2>2, <2>3
<1>9. Searched'
  <2>1. Len(t) = l + 1 /\ (k + 2) - 1 = k + 1
    BY <1>1, <1>5 DEF l
  <2>2. /\ \A j \in 1..3 : j < round => \A i \in 1..Len(t) : t[i] # replacements[j][1]
        /\ \A i \in 1..(start_pos' - 1) : t[i] # replacements[round][1]
    BY <1>4, <1>7, <1>8, <2>1
  <2>3. round' = round
    OBVIOUS
  <2> QED
    BY <2>2, <2>3 DEF Searched, t
<1> QED
  BY <1>1, <1>3, <1>4, <1>5, <1>9 DEF h, t

LEMMA RequestInvInit == RequestInit => RequestInv
<1> SUFFICES ASSUME RequestInit PROVE RequestInv
  OBVIOUS
<1>1. <<>> \in Strings /\ <<>> \in Params /\ Len(<<>>) = 0
  BY EmptySeq DEF Strings, Params
<1>2. RequestTypeOK
  BY <1>1 DEF RequestInit, RequestTypeOK, Strings, Params
<1>3. Standing
  BY DEF RequestInit, Standing
<1>4. Searched
  BY DEF RequestInit, Searched
<1>5. Sending
  BY DEF RequestInit, Sending
<1> QED
  BY <1>2, <1>3, <1>4, <1>5 DEF RequestInv

\* A call of get_correct_encoded_url_str begins with nothing searched.
LEMMA EncodeSearched ==
  ASSUME NEW s, NEW where, Encode(s, where) PROVE Searched'
  BY DEF Encode, Searched

LEMMA CommandInv == RequestInv /\ process_bot_command => RequestInv'
<1> SUFFICES ASSUME RequestInv, process_bot_command PROVE RequestInv'
  OBVIOUS
<1>1. /\ message \in Messages /\ stage = "new" /\ params' = Meant(message) /\ message' = message
      /\ target' = target /\ target \in Strings
  BY DEF RequestInv, RequestTypeOK, process_bot_command, Strings
<1>2. Meant(message) \in Params
  BY <1>1, MeantType
<1>3. CASE IsHelp(message)
  <2>1. Encode(HelpText, "help")
    BY <1>3 DEF process_bot_command, IsHelp
  <2>2. str' = HelpText /\ stage' = "help" /\ round' = 1 /\ start_pos' = 1
    BY <2>1 DEF Encode
  <2>3. HelpText \in Strings /\ Len(HelpText) \in Nat /\ Encodes(HelpText, HelpText)
    BY RequestAssumption, EncodesSelf DEF Strings
  <2>4. RequestTypeOK'
    BY <1>1, <1>2, <2>2, <2>3 DEF RequestTypeOK, Strings, Params
  <2>5. Standing'
    BY <1>1, <1>3, <2>2, <2>3 DEF Standing
  <2>6. Sending'
    BY <2>2 DEF Sending
  <2> QED
    BY <2>1, <2>4, <2>5, <2>6, EncodeSearched DEF RequestInv
<1>4. CASE ~IsHelp(message)
  <2> DEFINE query == query_str(Meant(message))
  <2>1. Encode(query, "query")
    BY <1>1, <1>4 DEF process_bot_command, IsHelp
  <2>2. str' = query /\ stage' = "query" /\ round' = 1 /\ start_pos' = 1
    BY <2>1 DEF Encode
  <2>3. query \in Strings /\ Len(query) \in Nat /\ Encodes(query, query)
    <3>1. query \in Strings
      BY <1>2, QueryType
    <3> HIDE DEF query
    <3> QED
      BY <3>1, EncodesSelf DEF Strings
  <2>4. RequestTypeOK'
    <3> HIDE DEF query
    <3> QED
      BY <1>1, <1>2, <2>2, <2>3 DEF RequestTypeOK, Strings, Params
  <2>5. Standing'
    BY <1>1, <1>4, <2>2, <2>3 DEF Standing
  <2>6. Sending'
    BY <2>2 DEF Sending
  <2> QED
    BY <2>1, <2>4, <2>5, <2>6, EncodeSearched DEF RequestInv
<1> QED
  BY <1>3, <1>4

LEMMA ReplaceInv == RequestInv /\ replace => RequestInv' /\ TurnAdvances
<1> SUFFICES ASSUME RequestInv, replace PROVE RequestInv' /\ TurnAdvances
  OBVIOUS
<1>1. /\ stage \in {"help", "query"} /\ round \in 1..3 /\ str \in Strings /\ Len(str) \in Nat
      /\ start_pos \in 1..(Len(str) + 1) /\ message \in Messages /\ params \in Params /\ target \in Strings
      /\ message' = message /\ stage' = stage /\ params' = params /\ target' = target
  BY DEF RequestInv, RequestTypeOK, replace, Strings, Params
<1>2. Standing /\ Searched
  BY DEF RequestInv
<1>3. CASE \E k \in 1..Len(str) : Found(k)
  <2>1. PICK k \in 1..Len(str) :
          /\ Found(k) /\ \A j \in 1..(k - 1) : ~Found(j)
          /\ str' = SubSeq(str, 1, k - 1) \o replacements[round][2] \o SubSeq(str, k + 1, Len(str))
          /\ start_pos' = k + Len(replacements[round][2]) /\ round' = round
    BY <1>3 DEF replace
  <2>2. /\ str' = Replaced(str, k, "%", Hex(str[k])) /\ str[k] \in Specials
        /\ str' \in Strings /\ Len(str') = Len(str) + 1 /\ start_pos' = k + 2 /\ k >= start_pos
        /\ Searched'
    BY <1>1, <1>2, <2>1, FoundTurn
  <2>3. RequestTypeOK'
    <3>1. start_pos' \in 1..(Len(str') + 1)
      BY <1>1, <2>2
    <3> QED
      <4>1. message' \in Messages /\ stage' \in {"new", "help", "query", "sent"} /\ round' \in 1..4
        BY <1>1, <2>1
      <4>2. params' \in Seq(Character \X Seq(Character)) /\ str' \in Seq(Character) /\ target' \in Seq(Character)
        BY <1>1, <2>2 DEF Strings, Params
      <4> QED
        BY <3>1, <4>1, <4>2 DEF RequestTypeOK
  <2>4. ASSUME NEW v \in Strings, Encodes(str, v) PROVE Encodes(str', v)
    BY <1>1, <2>2, <2>4, ReplaceEncodes
  <2>5. Standing'
    <3>1. HelpText \in Strings /\ query_str(Meant(message)) \in Strings
      BY <1>1, RequestAssumption, MeantType, QueryType DEF Strings
    <3>2. stage = "help" => Encodes(str', HelpText)
      BY <1>2, <2>4, <3>1 DEF Standing
    <3>3. stage = "query" => Encodes(str', query_str(Meant(message)))
      BY <1>2, <2>4, <3>1 DEF Standing
    <3> QED
      BY <1>1, <1>2, <3>2, <3>3 DEF Standing
  <2>6. Sending'
    BY <1>1 DEF Sending
  <2>7. TurnAdvances
    <3>1. Len(str') - start_pos' < Len(str) - start_pos
      BY <1>1, <2>2
    <3> QED
      BY <2>1, <3>1 DEF TurnAdvances
  <2> QED
    BY <2>2, <2>3, <2>5, <2>6, <2>7 DEF RequestInv
<1>4. CASE ~\E k \in 1..Len(str) : Found(k)
  <2>1. round' = round + 1 /\ start_pos' = 1 /\ str' = str
    BY <1>4 DEF replace
  <2>2. RequestTypeOK'
    BY <1>1, <2>1 DEF RequestTypeOK, Strings, Params
  <2>3. Standing'
    BY <1>1, <1>2, <2>1 DEF Standing
  <2>4. Searched'
    <3>1. ASSUME NEW k \in 1..Len(str) PROVE str[k] # replacements[round][1]
      <4>1. CASE k < start_pos
        <5>1. k \in 1..(start_pos - 1)
          BY <1>1, <4>1
        <5> QED
          BY <1>1, <1>2, <5>1 DEF Searched
      <4>2. CASE ~(k < start_pos)
        <5>1. k \in start_pos..Len(str)
          BY <1>1, <4>2
        <5> QED
          BY <1>4, <5>1 DEF Found
      <4> QED
        BY <4>1, <4>2
    <3>2. \A j \in 1..3 : j < round + 1 => j < round \/ j = round
      BY <1>1
    <3>3. \A j \in 1..3 : j < round + 1 => \A k \in 1..Len(str) : str[k] # replacements[j][1]
      BY <1>2, <3>1, <3>2 DEF Searched
    <3>4. \A k \in 1..(1 - 1) : FALSE
      OBVIOUS
    <3> QED
      BY <2>1, <3>3, <3>4 DEF Searched
  <2>5. Sending'
    BY <1>1 DEF Sending
  <2>6. TurnAdvances
    BY <2>1 DEF TurnAdvances
  <2> QED
    BY <2>2, <2>3, <2>4, <2>5, <2>6 DEF RequestInv
<1> QED
  BY <1>3, <1>4

LEMMA GetInv == RequestInv /\ get_tg_req => RequestInv'
<1> SUFFICES ASSUME RequestInv, get_tg_req PROVE RequestInv'
  OBVIOUS
<1> DEFINE ps == HelpParams(HelpText)
           qs == HelpParams(str)
<1>1. /\ stage = "help" /\ message \in Messages /\ str \in Strings /\ target \in Strings
      /\ message' = message /\ target' = target
      /\ IsHelp(message) /\ params = Meant(message) /\ Encodes(str, HelpText)
      /\ params' = [params EXCEPT ![3] = <<"text", str>>]
  BY DEF RequestInv, RequestTypeOK, Standing, get_tg_req, Strings
<1>2. params = ps
  BY <1>1, MeantCases
<1>3. params' = qs
  BY <1>1, <1>2 DEF HelpParams
<1>4. HelpText \in Strings
  BY RequestAssumption DEF Strings
<1>5. ps \in Params /\ qs \in Params /\ Len(ps) = 3 /\ Len(qs) = 3
  BY <1>1, <1>4, ParamTypes
<1>6. ASSUME NEW i \in 1..3 PROVE qs[i][1] = ps[i][1] /\ Encodes(qs[i][2], ps[i][2])
  <2>1. /\ ps[1] = <<"chat_id", <<"chat">>>> /\ ps[2] = <<"reply_to_message_id", <<"id">>>>
        /\ ps[3] = <<"text", HelpText>>
        /\ qs[1] = <<"chat_id", <<"chat">>>> /\ qs[2] = <<"reply_to_message_id", <<"id">>>>
        /\ qs[3] = <<"text", str>>
    BY DEF HelpParams
  <2>2. Encodes(<<"chat">>, <<"chat">>) /\ Encodes(<<"id">>, <<"id">>)
    <3>1. "chat" \in Character /\ "id" \in Character
      BY DEF Character
    <3>2. <<"chat">> \in Strings /\ <<"id">> \in Strings
      BY <3>1, Written DEF Strings
    <3> QED
      BY <3>2, EncodesSelf
  <2> HIDE DEF ps, qs
  <2>3. CASE i = 1
    <3>1. qs[1][1] = ps[1][1] /\ qs[1][2] = <<"chat">> /\ ps[1][2] = <<"chat">>
      BY <2>1
    <3> QED
      BY <2>2, <2>3, <3>1
  <2>4. CASE i = 2
    <3>1. qs[2][1] = ps[2][1] /\ qs[2][2] = <<"id">> /\ ps[2][2] = <<"id">>
      BY <2>1
    <3> QED
      BY <2>2, <2>4, <3>1
  <2>5. CASE i = 3
    <3>1. qs[3][1] = ps[3][1] /\ qs[3][2] = str /\ ps[3][2] = HelpText
      BY <2>1
    <3> QED
      BY <1>1, <2>5, <3>1
  <2> QED
    BY <2>3, <2>4, <2>5
<1> HIDE DEF ps, qs
<1>7. Encodes(query_str(qs), query_str(ps)) /\ query_str(qs) \in Strings
  BY <1>5, <1>6, QueryEncodes, QueryType
<1>8. Encode(query_str(qs), "query")
  BY <1>3 DEF get_tg_req
<1>9. str' = query_str(qs) /\ stage' = "query" /\ round' = 1 /\ start_pos' = 1
  BY <1>8 DEF Encode
<1>10. RequestTypeOK'
  <2>1. Len(str') \in Nat /\ str' \in Strings
    BY <1>7, <1>9 DEF Strings
  <2> QED
    <3>1. start_pos' \in 1..(Len(str') + 1) /\ round' \in 1..4 /\ stage' \in {"new", "help", "query", "sent"}
      BY <1>9, <2>1
    <3>2. message' \in Messages /\ target' \in Seq(Character) /\ str' \in Seq(Character)
      BY <1>1, <2>1 DEF Strings
    <3>3. params' \in Seq(Character \X Seq(Character))
      BY <1>3, <1>5 DEF Params, Strings
    <3> QED
      BY <3>1, <3>2, <3>3 DEF RequestTypeOK
<1>11. Standing'
  <2>1. Meant(message') = ps /\ IsHelp(message')
    BY <1>1, <1>2
  <2> QED
    BY <1>7, <1>9, <2>1 DEF Standing
<1>12. Sending'
  BY <1>9 DEF Sending
<1> QED
  BY <1>8, <1>10, <1>11, <1>12, EncodeSearched DEF RequestInv

LEMMA SendInv == RequestInv /\ send => RequestInv'
<1> SUFFICES ASSUME RequestInv, send PROVE RequestInv'
  OBVIOUS
<1>1. /\ stage = "query" /\ round = 4 /\ message \in Messages /\ str \in Strings /\ params \in Params
      /\ start_pos \in 1..(Len(str) + 1)
      /\ message' = message /\ params' = params /\ str' = str /\ round' = round /\ start_pos' = start_pos
      /\ stage' = "sent" /\ target' = IF Last(str) = "&" THEN Front(str) ELSE str
  BY DEF RequestInv, RequestTypeOK, send, Strings, Params
<1>2. target' \in Strings
  <2>1. Len(str) \in Nat /\ \A i \in 1..(Len(str) - 1) : str[i] \in Character
    BY <1>1, ElementOfSeq DEF Strings
  <2>2. Front(str) \in Strings
    <3>1. 1 \in Int /\ Len(str) - 1 \in Int
      BY <2>1
    <3>2. SubSeq(str, 1, Len(str) - 1) \in Seq(Character)
      BY <2>1, <3>1, SubSeqProperties
    <3> QED
      BY <3>2 DEF Front, Strings
  <2> QED
    BY <1>1, <2>2
<1>3. RequestTypeOK'
  BY <1>1, <1>2 DEF RequestTypeOK, Strings, Params
<1>4. Standing'
  BY <1>1 DEF RequestInv, Standing
<1>5. Searched'
  BY <1>1 DEF RequestInv, Searched
<1>6. Sending'
  BY <1>1 DEF Sending
<1> QED
  BY <1>3, <1>4, <1>5, <1>6 DEF RequestInv

LEMMA RequestInvNext == RequestInv /\ [RequestNext]_requestVars => RequestInv'
<1> SUFFICES ASSUME RequestInv, [RequestNext]_requestVars PROVE RequestInv'
  OBVIOUS
<1>1. CASE RequestNext
  BY <1>1, CommandInv, ReplaceInv, GetInv, SendInv DEF RequestNext
<1>2. CASE UNCHANGED requestVars
  <2>1. /\ message' = message /\ stage' = stage /\ params' = params /\ str' = str
        /\ round' = round /\ start_pos' = start_pos /\ target' = target
    BY <1>2 DEF requestVars
  <2>2. RequestTypeOK'
    BY <2>1 DEF RequestInv, RequestTypeOK
  <2>3. Standing'
    BY <2>1 DEF RequestInv, Standing
  <2>4. Searched' /\ Sending'
    BY <2>1 DEF RequestInv, Searched, Sending
  <2> QED
    BY <2>2, <2>3, <2>4 DEF RequestInv
<1> QED
  BY <1>1, <1>2

LEMMA RequestInvariance == RequestSpec => []RequestInv
<1>1. RequestInit => RequestInv
  BY RequestInvInit
<1>2. RequestInv /\ [RequestNext]_requestVars => RequestInv'
  BY RequestInvNext
<1> QED
  BY <1>1, <1>2, PTL DEF RequestSpec

------------------------------------------------------------------------------
(* The theorems.                                                           *)

\* The search of a replacement never goes on outside the string, and every request
\* has its parameters: get_tg_req, replace in bot_utility.cpp.
THEOREM RequestTypeCorrect == RequestSpec => []RequestTypeOK
<1>1. RequestInv => RequestTypeOK
  BY DEF RequestInv
<1> QED
  BY <1>1, RequestInvariance, PTL

\* For every table of languages, the keyboard of the language command has every
\* language once, two in a row: process_language_command.
THEOREM EveryLanguageOffered == RequestSpec => []KeyboardOffersEveryLanguage
<1>1. RequestInv => KeyboardOffersEveryLanguage
  <2> SUFFICES ASSUME RequestInv, stage = "sent", IsLanguage(message)
               PROVE  params[4] = <<"reply_markup",
                        serialize([i \in 1..((Len(Languages) + 1) \div 2) |-> Row(i)])>>
    BY DEF KeyboardOffersEveryLanguage, IsLanguage
  <2>1. params = LanguageParams
    BY OneCommand, MeantCases DEF RequestInv, Standing
  <2>2. params[4] = <<"reply_markup", serialize(keyboard)>>
    BY <2>1 DEF LanguageParams
  <2>3. keyboard = [i \in 1..((Len(Languages) + 1) \div 2) |-> Row(i)]
    BY KeyboardRows DEF Rows
  <2> QED
    BY <2>2, <2>3
<1> QED
  BY <1>1, RequestInvariance, PTL

\* Each turn of the loop of replace leaves less to be searched, so that the loop
\* ends for every text, although the text grows.
THEOREM TurnsAdvance == RequestSpec => EveryTurnAdvances
<1>1. RequestInv /\ [RequestNext]_requestVars => [TurnAdvances]_requestVars
  <2> SUFFICES ASSUME RequestInv, RequestNext PROVE TurnAdvances
    OBVIOUS
  <2>1. CASE replace
    BY <2>1, ReplaceInv
  <2>2. CASE process_bot_command
    BY <2>2 DEF process_bot_command, Encode, TurnAdvances
  <2>3. CASE get_tg_req
    BY <2>3 DEF get_tg_req, Encode, TurnAdvances
  <2>4. CASE send
    BY <2>4 DEF send, TurnAdvances
  <2> QED
    BY <2>1, <2>2, <2>3, <2>4 DEF RequestNext
<1> QED
  BY <1>1, RequestInvariance, PTL DEF RequestSpec, EveryTurnAdvances

\* A target that is sent holds no space, no line break and no plus, whatever the
\* texts hold: the safety half of RequestIsSent.
LEMMA SentIsClean == RequestInv /\ stage = "sent" => TargetIsClean
<1> SUFFICES ASSUME RequestInv, stage = "sent", NEW k \in 1..Len(target)
             PROVE  target[k] \notin Specials
  BY DEF TargetIsClean, Specials
<1>1. str \in Strings /\ round = 4 /\ target = IF Last(str) = "&" THEN Front(str) ELSE str
  BY DEF RequestInv, RequestTypeOK, Sending, Strings
<1>2. Len(str) \in Nat
  BY <1>1 DEF Strings
<1>3. ASSUME NEW j \in 1..Len(str) PROVE str[j] \notin Specials
  <2>1. \A r \in 1..3 : r < 4 /\ str[j] # replacements[r][1]
    BY <1>1 DEF RequestInv, Searched
  <2> QED
    BY <2>1, Replacement
<1>4. k \in 1..Len(str) /\ target[k] = str[k]
  <2>1. CASE Last(str) = "&"
    <3>1. \A i \in 1..(Len(str) - 1) : str[i] \in Character
      BY <1>1, <1>2, ElementOfSeq DEF Strings
    <3>2. target = SubSeq(str, 1, Len(str) - 1)
      BY <1>1, <2>1 DEF Front
    <3> DEFINE l == Len(str) - 1
    <3>3. l \in Int /\ 1 \in Int
      BY <1>2
    <3> HIDE DEF l
    <3>4. /\ Len(SubSeq(str, 1, l)) = IF 1 <= l THEN l - 1 + 1 ELSE 0
          /\ \A i \in 1..(l - 1 + 1) : SubSeq(str, 1, l)[i] = str[1 + i - 1]
      BY <3>1, <3>3, SubSeqProperties DEF l
    <3>5. k \in 1..l /\ k \in 1..(l - 1 + 1) /\ 1 + k - 1 = k
      BY <3>2, <3>3, <3>4 DEF l
    <3>6. k \in 1..Len(str)
      BY <1>2, <3>5 DEF l
    <3> QED
      BY <3>2, <3>4, <3>5, <3>6 DEF l
  <2>2. CASE Last(str) # "&"
    BY <1>1, <2>2
  <2> QED
    BY <2>1, <2>2
<1> QED
  BY <1>3, <1>4

\* No space, line break or plus is left in the target of a request that is sent:
\* get_correct_encoded_url_str in bot_utility.cpp.
THEOREM SentTargetsAreClean == RequestSpec => [](stage = "sent" => TargetIsClean)
<1>1. RequestInv => (stage = "sent" => TargetIsClean)
  BY SentIsClean
<1> QED
  BY <1>1, RequestInvariance, PTL

------------------------------------------------------------------------------
(* What Telegram reads.                                                    *)

Names == Character \cup {""}
Parts == {"path", "name", "value", "escape", "over"}
Readings == [got : Seq(Names \X Strings), name : Names, value : Strings, part : Parts]

LEMMA ReadType ==
  ASSUME NEW r \in Readings, NEW c \in Character PROVE Read(r, c) \in Readings
<1>1. /\ r.got \in Seq(Names \X Strings) /\ r.name \in Names /\ r.value \in Strings /\ r.part \in Parts
      /\ "" \in Names /\ c \in Names /\ <<>> \in Strings
      /\ "name" \in Parts /\ "value" \in Parts /\ "escape" \in Parts /\ "over" \in Parts
  BY EmptySeq DEF Readings, Names, Parts, Strings
<1>2. /\ [r EXCEPT !.part = "over"] \in Readings /\ [r EXCEPT !.part = "name"] \in Readings
      /\ [r EXCEPT !.part = "value"] \in Readings /\ [r EXCEPT !.part = "escape"] \in Readings
      /\ [r EXCEPT !.name = c] \in Readings
  BY <1>1 DEF Readings
<1>3. [got |-> Append(r.got, <<r.name, r.value>>), name |-> "", value |-> <<>>, part |-> "name"] \in Readings
  <2>1. <<r.name, r.value>> \in Names \X Strings
    BY <1>1
  <2>2. Append(r.got, <<r.name, r.value>>) \in Seq(Names \X Strings)
    BY <1>1, <2>1, AppendProperties
  <2> QED
    BY <1>1, <2>2 DEF Readings
<1>4. ASSUME NEW d \in Character
      PROVE  /\ [r EXCEPT !.value = Append(r.value, d)] \in Readings
             /\ [r EXCEPT !.value = Append(r.value, d), !.part = "value"] \in Readings
  <2>1. Append(r.value, d) \in Strings
    BY <1>1, AppendProperties DEF Strings
  <2> QED
    BY <1>1, <2>1 DEF Readings
<1>5. Unescaped(c) \in Character
  BY DEF Unescaped, Character
<1>6. (IF c = "+" THEN " " ELSE c) \in Character
  BY DEF Character
<1> DEFINE d == Unescaped(c)
           e == IF c = "+" THEN " " ELSE c
<1>7. /\ [r EXCEPT !.value = Append(r.value, d), !.part = "value"] \in Readings
      /\ [r EXCEPT !.value = Append(r.value, e)] \in Readings
  <2> HIDE DEF d, e
  <2> QED
    BY <1>4, <1>5, <1>6 DEF d, e
<1>8. CASE r.part = "over" \/ c \in {" ", "\n"}
  BY <1>2, <1>8 DEF Read
<1>9. CASE ~(r.part = "over" \/ c \in {" ", "\n"})
  <2>1. CASE r.part = "path"
    BY <1>2, <1>9, <2>1 DEF Read
  <2>2. CASE r.part # "path" /\ c = "&"
    BY <1>3, <1>9, <2>2 DEF Read
  <2>3. CASE r.part = "name" /\ c = "="
    BY <1>2, <1>9, <2>3 DEF Read
  <2>4. CASE r.part = "name" /\ c \notin {"&", "="}
    BY <1>2, <1>9, <2>4 DEF Read
  <2>5. CASE r.part = "escape" /\ c # "&"
    BY <1>7, <1>9, <2>5 DEF Read
  <2>6. CASE r.part = "value" /\ c = "%"
    BY <1>2, <1>9, <2>6 DEF Read
  <2>7. CASE r.part = "value" /\ c \notin {"&", "%"}
    BY <1>7, <1>9, <2>7 DEF Read
  <2> QED
    BY <1>1, <1>9, <2>1, <2>2, <2>3, <2>4, <2>5, <2>6, <2>7 DEF Parts
<1> QED
  BY <1>8, <1>9

LEMMA UnreadType == Unread \in Readings
<1>1. <<>> \in Seq(Names \X Strings) /\ <<>> \in Strings /\ "" \in Names /\ "path" \in Parts
  BY EmptySeq DEF Names, Parts, Strings
<1> QED
  BY <1>1 DEF Unread, Readings

\* A string is read from left to right.
LEMMA ReadingSteps ==
  ASSUME NEW s \in Strings
  PROVE  /\ Reading(s) \in [0..Len(s) -> Readings] /\ Reading(s)[0] = Unread
         /\ \A i \in 1..Len(s) : Reading(s)[i] = Read(Reading(s)[i - 1], s[i])
<1> DEFINE n == Len(s)
           body(f) == [k \in 0..n |-> IF k = 0 THEN Unread ELSE Read(f[k - 1], s[k])]
           F == CHOOSE f : f = body(f)
           step == [u \in Readings \X (1..n) |-> Read(u[1], s[u[2]])]
<1>1. n \in Nat /\ \A i \in 1..n : s[i] \in Character
  BY ElementOfSeq DEF Strings
<1>2. Reading(s) = F
  BY Zenon DEF Reading
<1>3. step \in [Readings \X (1..n) -> Readings]
  <2>1. ASSUME NEW r \in Readings, NEW i \in 1..n PROVE Read(r, s[i]) \in Readings
    BY <1>1, ReadType
  <2> HIDE DEF n
  <2>2. \A u \in Readings \X (1..n) : u[1] \in Readings /\ u[2] \in 1..n
    OBVIOUS
  <2> QED
    BY <2>1, <2>2
<1> HIDE DEF step
<1>4. PICK g : Iterates(g, Readings, Unread, step, n)
  BY <1>1, <1>3, UnreadType, Recursion
<1>5. g \in [0..n -> Readings] /\ g[0] = Unread /\ \A i \in 1..n : g[i] = Read(g[i - 1], s[i])
  <2>1. g \in [0..n -> Readings] /\ g[0] = Unread /\ \A i \in 1..n : g[i] = step[<<g[i - 1], i>>]
    BY <1>4 DEF Iterates
  <2> HIDE DEF n
  <2>2. ASSUME NEW i \in 1..n PROVE g[i] = Read(g[i - 1], s[i])
    <3>1. i - 1 \in 0..n
      BY <1>1
    <3>2. <<g[i - 1], i>> \in Readings \X (1..n)
      BY <2>1, <3>1
    <3>3. step[<<g[i - 1], i>>] = Read(g[i - 1], s[i])
      BY <3>2 DEF step
    <3> QED
      BY <2>1, <3>3
  <2> QED
    BY <2>1, <2>2
<1> HIDE DEF n
<1>6. F = body(F)
  <2> DEFINE h == [i \in 0..n |-> g[i]]
  <2>1. h = body(h)
    <3> SUFFICES ASSUME NEW i \in 0..n PROVE h[i] = IF i = 0 THEN Unread ELSE Read(h[i - 1], s[i])
      BY Zenon
    <3>1. CASE i = 0
      BY <1>5, <3>1
    <3>2. CASE i # 0
      <4>1. i \in 1..n /\ i - 1 \in 0..n
        BY <1>1, <3>2
      <4>2. g[i] = Read(g[i - 1], s[i])
        BY <1>5, <4>1
      <4> QED
        BY <3>2, <4>1, <4>2
    <3> QED
      BY <3>1, <3>2
  <2> HIDE DEF h, body
  <2> QED
    BY <2>1, Zenon
<1>7. \A i \in 0..n : F[i] = IF i = 0 THEN Unread ELSE Read(F[i - 1], s[i])
  BY <1>6, Zenon
<1>8. F = [i \in 0..n |-> F[i]]
  <2> DEFINE b == [k \in 0..n |-> IF k = 0 THEN Unread ELSE Read(F[k - 1], s[k])]
  <2>1. F = b
    BY <1>6, Zenon
  <2>2. b = [i \in 0..n |-> b[i]]
    <3> HIDE DEF F
    <3> QED
      OBVIOUS
  <2> HIDE DEF F, b
  <2> QED
    BY <2>1, <2>2
<1> HIDE DEF F
<1>9. F[0] = Unread /\ \A i \in 1..n : F[i] = Read(F[i - 1], s[i])
  <2>1. 0 \in 0..n /\ \A i \in 1..n : i \in 0..n /\ i # 0
    BY <1>1
  <2> QED
    BY <1>7, <2>1
<1>10. \A i \in 0..n : F[i] \in Readings
  <2> DEFINE S == {m \in Nat : m <= n => F[m] \in Readings}
  <2>1. 0 \in S
    BY <1>9, UnreadType
  <2>2. ASSUME NEW m \in Nat, m \in S PROVE m + 1 \in S
    <3> SUFFICES ASSUME m + 1 <= n PROVE F[m + 1] \in Readings
      OBVIOUS
    <3>1. m + 1 \in 1..n /\ (m + 1) - 1 = m /\ m <= n
      BY <1>1
    <3>2. F[m + 1] = Read(F[(m + 1) - 1], s[m + 1]) /\ F[m] \in Readings
      BY <1>9, <2>2, <3>1
    <3>3. s[m + 1] \in Character
      BY <1>1, <3>1
    <3> QED
      BY <3>1, <3>2, <3>3, ReadType
  <2>3. \A m \in Nat : m \in S
    <3> HIDE DEF S
    <3> QED
      BY <2>1, <2>2, SetInduction
  <2> QED
    BY <1>1, <2>3
<1> QED
  BY <1>2, <1>8, <1>9, <1>10 DEF n

\* Where c leads from r when it need not be encoded.
Goes(r, c, q) ==
  IF c \in Specials THEN r.part = "value" /\ q = [r EXCEPT !.value = Append(r.value, c)]
  ELSE q = Read(r, c)

\* s is read as r when none of its characters need be encoded.
Understood(s, r) ==
  \E f : /\ f \in [0..Len(s) -> Readings] /\ f[0] = Unread /\ f[Len(s)] = r
         /\ \A i \in 1..Len(s) : Goes(f[i - 1], s[i], f[i])

\* The code of a character is read as the character.
LEMMA CodeRead ==
  ASSUME NEW r \in Readings, r.part = "value", NEW c \in Specials
  PROVE  Read(Read(r, "%"), Hex(c)) = [r EXCEPT !.value = Append(r.value, c)]
<1> DEFINE q == [r EXCEPT !.part = "escape"]
           h == Hex(c)
<1>1. Read(r, "%") = q
  BY DEF Read
<1>2. h \in {"20", "0A", "2B"} /\ Unescaped(h) = c
  BY DEF Specials, Hex, Unescaped
<1>3. q.part = "escape" /\ q.value = r.value
  BY DEF Readings
<1> HIDE DEF h, q
<1>4. h # "&" /\ h \notin {" ", "\n"}
  BY <1>2
<1>5. Read(q, h) = [q EXCEPT !.value = Append(q.value, Unescaped(h)), !.part = "value"]
  BY <1>3, <1>4 DEF Read
<1> DEFINE a == Append(r.value, c)
<1> HIDE DEF a
<1>6. [q EXCEPT !.value = a, !.part = "value"] = [r EXCEPT !.value = a]
  BY DEF q, Readings
<1> QED
  BY <1>1, <1>2, <1>3, <1>5, <1>6 DEF a, h

\* An encoded string in which nothing is left to be encoded is read as what it
\* stands for.
LEMMA Decoded ==
  ASSUME NEW t \in Strings, NEW s \in Strings, NEW r, Encodes(t, s), Understood(s, r),
         \A k \in 1..Len(t) : t[k] \notin Specials
  PROVE  Reading(t)[Len(t)] = r
<1> DEFINE n == Len(s)
           l == Len(t)
           F == Reading(t)
<1>1. PICK p : EncodesBy(t, s, p)
  BY DEF Encodes
<1>2. PICK f : /\ f \in [0..n -> Readings] /\ f[0] = Unread /\ f[n] = r
               /\ \A i \in 1..n : Goes(f[i - 1], s[i], f[i])
  BY DEF Understood
<1>3. /\ n \in Nat /\ l \in Nat /\ p \in [0..n -> 0..l] /\ p[0] = 0 /\ p[n] = l
      /\ \A i \in 1..n : Stands(t, p[i - 1], p[i], s[i])
  BY <1>1 DEF EncodesBy, Strings
<1>4. F \in [0..l -> Readings] /\ F[0] = Unread /\ \A i \in 1..l : F[i] = Read(F[i - 1], t[i])
  BY ReadingSteps
<1>5. \A k \in 1..l : t[k] \notin Specials
  OBVIOUS
<1> HIDE DEF n, l, F
<1> DEFINE S == {m \in Nat : m <= n => F[p[m]] = f[m]}
<1>6. 0 \in S
  BY <1>2, <1>3, <1>4
<1>7. ASSUME NEW m \in Nat, m \in S PROVE m + 1 \in S
  <2> SUFFICES ASSUME m + 1 <= n PROVE F[p[m + 1]] = f[m + 1]
    OBVIOUS
  <2> DEFINE a == p[m]
             b == p[m + 1]
             c == s[m + 1]
  <2>1. m + 1 \in 1..n /\ (m + 1) - 1 = m /\ m <= n /\ m \in 0..n /\ m + 1 \in 0..n
    BY <1>3
  <2>2. F[a] = f[m] /\ a \in 0..l /\ b \in 0..l /\ f[m] \in Readings
    BY <1>2, <1>3, <1>7, <2>1
  <2>3. Stands(t, a, b, c) /\ Goes(f[m], c, f[m + 1])
    <3>1. Stands(t, p[(m + 1) - 1], b, c) /\ Goes(f[(m + 1) - 1], c, f[m + 1])
      BY <1>2, <1>3, <2>1
    <3> QED
      BY <2>1, <3>1
  <2> HIDE DEF a, b, c
  <2>4. CASE b = a + 1 /\ t[a + 1] = c
    <3>1. a + 1 \in 1..l /\ (a + 1) - 1 = a
      BY <1>3, <2>2, <2>4
    <3>2. F[a + 1] = Read(F[(a + 1) - 1], t[a + 1]) /\ c \notin Specials
      BY <1>4, <1>5, <2>4, <3>1
    <3>3. f[m + 1] = Read(f[m], c)
      BY <2>3, <3>2 DEF Goes
    <3> QED
      BY <2>2, <2>4, <3>1, <3>2, <3>3 DEF b
  <2>5. CASE b = a + 2 /\ c \in Specials /\ t[a + 1] = "%" /\ t[a + 2] = Hex(c)
    <3>1. a + 1 \in 1..l /\ (a + 1) - 1 = a /\ a + 2 \in 1..l /\ (a + 2) - 1 = a + 1
      BY <1>3, <2>2, <2>5
    <3>2. F[a + 1] = Read(F[(a + 1) - 1], t[a + 1]) /\ F[a + 2] = Read(F[(a + 2) - 1], t[a + 2])
      BY <1>4, <3>1
    <3>3. F[a + 2] = Read(Read(f[m], "%"), Hex(c))
      BY <2>2, <2>5, <3>1, <3>2
    <3>4. f[m].part = "value" /\ f[m + 1] = [f[m] EXCEPT !.value = Append(f[m].value, c)]
      BY <2>3, <2>5 DEF Goes
    <3>5. Read(Read(f[m], "%"), Hex(c)) = [f[m] EXCEPT !.value = Append(f[m].value, c)]
      BY <2>2, <2>5, <3>4, CodeRead
    <3> QED
      BY <2>5, <3>3, <3>4, <3>5 DEF b
  <2> QED
    BY <2>3, <2>4, <2>5 DEF Stands
<1>8. n \in S
  <2> HIDE DEF S
  <2> QED
    BY <1>3, <1>6, <1>7, SetInduction
<1>9. F[l] = r
  BY <1>2, <1>3, <1>8
<1> QED
  BY <1>9 DEF F, l

\* One character more.
LEMMA UnderstoodAppend ==
  ASSUME NEW s \in Strings, NEW r, Understood(s, r), NEW c \in Character, NEW q \in Readings, Goes(r, c, q)
  PROVE  Understood(Append(s, c), q)
<1> DEFINE n == Len(s)
           t == Append(s, c)
<1>1. PICK f : /\ f \in [0..n -> Readings] /\ f[0] = Unread /\ f[n] = r
               /\ \A i \in 1..n : Goes(f[i - 1], s[i], f[i])
  BY DEF Understood
<1>2. n \in Nat /\ Len(t) = n + 1 /\ (\A i \in 1..n : t[i] = s[i]) /\ t[n + 1] = c
  BY AppendProperties DEF Strings
<1> DEFINE g == [i \in 0..(n + 1) |-> IF i <= n THEN f[i] ELSE q]
<1> HIDE DEF n, t
<1>3. g \in [0..(n + 1) -> Readings]
  <2>1. \A i \in 0..(n + 1) : (IF i <= n THEN f[i] ELSE q) \in Readings
    BY <1>1, <1>2
  <2> QED
    BY <2>1
<1>4. (\A i \in 0..n : g[i] = f[i]) /\ g[n + 1] = q
  BY <1>2
<1> HIDE DEF g
<1>5. ASSUME NEW i \in 1..(n + 1) PROVE Goes(g[i - 1], t[i], g[i])
  <2>1. CASE i = n + 1
    <3>1. i - 1 = n /\ n \in 0..n
      BY <1>2, <2>1
    <3> QED
      BY <1>1, <1>2, <1>4, <2>1, <3>1
  <2>2. CASE i # n + 1
    <3>1. i \in 1..n /\ i - 1 \in 0..n /\ i \in 0..n
      BY <1>2, <2>2
    <3> QED
      BY <1>1, <1>2, <1>4, <3>1
  <2> QED
    BY <2>1, <2>2
<1>6. g[0] = Unread
  BY <1>1, <1>2, <1>4
<1> QED
  BY <1>2, <1>3, <1>4, <1>5, <1>6 DEF Understood, t

Free(v) == \A k \in 1..Len(v) : v[k] \notin {"&", "%"}

\* A value is read as it is.
LEMMA UnderstoodValue ==
  ASSUME NEW s \in Strings, NEW r \in Readings, Understood(s, r), r.part = "value", r.value = <<>>,
         NEW v \in Strings, Free(v)
  PROVE  Understood(s \o v, [r EXCEPT !.value = v])
<1> DEFINE n == Len(v)
           head(m) == SubSeq(v, 1, m)
           S == {m \in Nat : m <= n => Understood(s \o head(m), [r EXCEPT !.value = head(m)])}
<1>1. n \in Nat /\ \A i \in 1..n : v[i] \in Character
  BY ElementOfSeq DEF Strings
<1>2. \A i \in 1..n : v[i] \notin {"&", "%"}
  BY DEF Free
<1>3. head(0) = <<>> /\ head(n) = v
  BY SubSeqEmpty, SubSeqFull DEF Strings
<1>4. ASSUME NEW m \in Nat, m + 1 <= n
      PROVE  head(m) \in Strings /\ head(m + 1) = Append(head(m), v[m + 1])
  <2>1. m + 1 \in 1..n /\ 1 \in 1..n /\ m + 1 \in 1..n /\ (m + 1) - 1 = m
    BY <1>1, <1>4
  <2>2. SubSeq(v, 1, m + 1) = SubSeq(v, 1, (m + 1) - 1) \o <<v[m + 1]>>
    BY <2>1, SubSeqRecursiveSecond DEF Strings
  <2>3. SubSeq(v, 1, m) \in Strings
    <3>1. 1 \in Int /\ m \in Int /\ \A i \in 1..m : v[i] \in Character
      BY <1>1, <1>4
    <3> QED
      BY <3>1, SubSeqProperties DEF Strings
  <2>4. v[m + 1] \in Character
    BY <1>1, <2>1
  <2> DEFINE a == SubSeq(v, 1, m)
             c == v[m + 1]
  <2> HIDE DEF a, c
  <2>5. Append(a, c) = a \o <<c>>
    BY <2>3, <2>4, AppendIsConcat DEF Strings, a, c
  <2> QED
    BY <2>1, <2>2, <2>3, <2>5 DEF a, c
<1> HIDE DEF n, head
<1>5. 0 \in S
  <2>1. s \o <<>> = s /\ [r EXCEPT !.value = <<>>] = r
    BY ConcatEmptySeq DEF Strings, Readings
  <2> QED
    BY <1>3, <2>1
<1>6. ASSUME NEW m \in Nat, m \in S PROVE m + 1 \in S
  <2> SUFFICES ASSUME m + 1 <= n PROVE Understood(s \o head(m + 1), [r EXCEPT !.value = head(m + 1)])
    OBVIOUS
  <2> DEFINE a == head(m)
             c == v[m + 1]
             ra == [r EXCEPT !.value = a]
             rc == [r EXCEPT !.value = Append(a, c)]
  <2>1. m <= n /\ m + 1 \in 1..n
    BY <1>1
  <2>2. a \in Strings /\ head(m + 1) = Append(a, c) /\ c \in Character /\ c \notin {"&", "%"}
    BY <1>1, <1>2, <1>4, <2>1
  <2>3. Understood(s \o a, ra)
    BY <1>6, <2>1
  <2> HIDE DEF a, c
  <2>4. s \o a \in Strings /\ Append(a, c) \in Strings
    BY <2>2, ConcatProperties, AppendProperties DEF Strings
  <2>5. ra \in Readings /\ rc \in Readings /\ ra.part = "value" /\ ra.value = a
        /\ [ra EXCEPT !.value = Append(a, c)] = rc
    BY <2>2, <2>4 DEF Readings
  <2> HIDE DEF ra, rc
  <2>6. Goes(ra, c, rc)
    <3>1. CASE c \in Specials
      BY <2>5, <3>1 DEF Goes
    <3>2. CASE c \notin Specials
      <4>1. c \notin {" ", "\n"} /\ c # "+"
        BY <3>2 DEF Specials
      <4>2. Read(ra, c) = [ra EXCEPT !.value = Append(ra.value, c)]
        BY <2>2, <2>5, <4>1 DEF Read
      <4> QED
        BY <2>5, <3>2, <4>2 DEF Goes
    <3> QED
      BY <3>1, <3>2
  <2>7. Understood(Append(s \o a, c), rc)
    BY <2>2, <2>3, <2>4, <2>5, <2>6, UnderstoodAppend
  <2>8. Append(s \o a, c) = s \o Append(a, c)
    <3>1. Append(s \o a, c) = (s \o a) \o <<c>> /\ Append(a, c) = a \o <<c>>
      BY <2>2, <2>4, AppendIsConcat DEF Strings
    <3>2. <<c>> \in Seq(Character) /\ s \in Seq(Character) /\ a \in Seq(Character)
      BY <2>2, Written DEF Strings
    <3>3. (s \o a) \o <<c>> = s \o (a \o <<c>>)
      BY <3>2, ConcatAssociative
    <3> QED
      BY <3>1, <3>3
  <2> QED
    BY <2>2, <2>7, <2>8 DEF rc
<1>7. n \in S
  <2> HIDE DEF S
  <2> QED
    BY <1>1, <1>5, <1>6, SetInduction
<1> QED
  BY <1>1, <1>3, <1>7

\* A key that means nothing but itself.
Keys == {"chat_id", "message_id", "reply_to_message_id", "text", "reply_markup"}

LEMMA KeyType ==
  ASSUME NEW key \in Keys
  PROVE  key \in Character /\ key \notin Specials /\ key \notin {"&", "=", "%"} /\ key # ""
  BY DEF Keys, Character, Specials

\* After a whole parameter, and in front of the '&' that ends it.
After(ps) == [got |-> ps, name |-> "", value |-> <<>>, part |-> "name"]
Within(ps, p) == [got |-> ps, name |-> p[1], value |-> p[2], part |-> "value"]

LEMMA UnderstoodParam ==
  ASSUME NEW s \in Strings, NEW ps \in Seq(Names \X Strings), Understood(s, After(ps)),
         NEW p \in Character \X Strings, p[1] \in Keys, Free(p[2])
  PROVE  \E t \in Strings : /\ s \o Pair(p) = Append(t, "&")
                            /\ Understood(t, Within(ps, p))
                            /\ Understood(s \o Pair(p), After(Append(ps, p)))
<1> DEFINE key == p[1]
           v == p[2]
<1>1. /\ key \in Character /\ v \in Strings /\ key \notin Specials /\ key \notin {"&", "=", "%"} /\ key # ""
      /\ Free(v) /\ p = <<key, v>>
  <2>1. key \in Keys /\ v \in Strings /\ Free(v) /\ p = <<key, v>>
    OBVIOUS
  <2> HIDE DEF key, v
  <2> QED
    BY <2>1, KeyType
<1> HIDE DEF key, v
<1>2. /\ "=" \in Character /\ "&" \in Character /\ "=" \notin Specials /\ "&" \notin Specials
  BY DEF Character, Specials
<1> DEFINE r0 == After(ps)
           r1 == [got |-> ps, name |-> key, value |-> <<>>, part |-> "name"]
           r2 == [got |-> ps, name |-> key, value |-> <<>>, part |-> "value"]
           r3 == [got |-> ps, name |-> key, value |-> v, part |-> "value"]
           r4 == [got |-> Append(ps, <<key, v>>), name |-> "", value |-> <<>>, part |-> "name"]
<1>3. r0 \in Readings /\ r1 \in Readings /\ r2 \in Readings /\ r3 \in Readings /\ r4 \in Readings
  <2>1. /\ "" \in Names /\ key \in Names /\ <<>> \in Strings /\ "name" \in Parts /\ "value" \in Parts
    BY <1>1, EmptySeq DEF Names, Parts, Strings
  <2>2. <<key, v>> \in Names \X Strings
    BY <1>1, <2>1
  <2>3. Append(ps, <<key, v>>) \in Seq(Names \X Strings)
    BY <2>2, AppendProperties
  <2> QED
    BY <1>1, <2>1, <2>3 DEF After, Readings
<1>4. Goes(r0, key, r1)
  <2>1. r0.part = "name" /\ [r0 EXCEPT !.name = key] = r1
    <3>1. r0 = [got |-> ps, name |-> "", value |-> <<>>, part |-> "name"]
      BY DEF After
    <3>2. ASSUME NEW e, NEW x, x = [got |-> ps, name |-> e, value |-> <<>>, part |-> "name"]
          PROVE  x.part = "name" /\ [x EXCEPT !.name = key] = r1
      BY <3>2
    <3> HIDE DEF r0, r1
    <3> QED
      BY <3>1, <3>2
  <2>2. key \notin {" ", "\n"}
    BY <1>1 DEF Specials
  <2> HIDE DEF r0, r1
  <2>3. Read(r0, key) = [r0 EXCEPT !.name = key]
    BY <1>1, <2>1, <2>2 DEF Read
  <2> QED
    BY <1>1, <2>1, <2>3 DEF Goes
<1>5. Goes(r1, "=", r2)
  <2>1. r1.part = "name" /\ [r1 EXCEPT !.part = "value"] = r2
    OBVIOUS
  <2> HIDE DEF r1, r2
  <2>2. Read(r1, "=") = [r1 EXCEPT !.part = "value"]
    BY <2>1 DEF Read
  <2> QED
    BY <1>2, <2>1, <2>2 DEF Goes
<1>6. Goes(r3, "&", r4)
  <2>1. r3.part = "value" /\ r3.got = ps /\ r3.name = key /\ r3.value = v
    OBVIOUS
  <2> HIDE DEF r3
  <2>2. Read(r3, "&") = [got |-> Append(r3.got, <<r3.name, r3.value>>), name |-> "", value |-> <<>>, part |-> "name"]
    BY <2>1 DEF Read
  <2>3. Read(r3, "&") = r4
    BY <2>1, <2>2
  <2> HIDE DEF r4
  <2> QED
    BY <1>2, <2>3 DEF Goes
<1>7. r2.part = "value" /\ r2.value = <<>> /\ [r2 EXCEPT !.value = v] = r3
  OBVIOUS
<1>8. r3 = Within(ps, p) /\ r4 = After(Append(ps, p))
  BY <1>1 DEF Within, After
<1> HIDE DEF r0, r1, r2, r3, r4
<1> DEFINE s1 == Append(s, key)
           s2 == Append(s1, "=")
           s3 == s2 \o v
           s4 == Append(s3, "&")
<1>9. s1 \in Strings /\ s2 \in Strings
  <2>1. s1 \in Strings
    BY <1>1, AppendProperties DEF Strings
  <2> HIDE DEF s1
  <2> QED
    BY <1>2, <2>1, AppendProperties DEF Strings
<1>10. s3 \in Strings
  <2> HIDE DEF s2
  <2> QED
    BY <1>1, <1>9, ConcatProperties DEF Strings
<1>11. s4 = s \o Pair(p)
  <2> DEFINE e == <<"=">>
             k == <<key>>
             and == <<"&">>
             ke == <<key, "=">>
  <2>1. e \in Seq(Character) /\ k \in Seq(Character) /\ and \in Seq(Character) /\ ke \in Seq(Character)
        /\ s \in Seq(Character) /\ v \in Seq(Character) /\ s1 \in Seq(Character) /\ s2 \in Seq(Character)
        /\ s3 \in Seq(Character)
    BY <1>1, <1>2, <1>9, <1>10, Written DEF Strings
  <2>2. ke = k \o e
    <3>1. Append(k, "=") = ke
      BY <1>1, <1>2, Appended
    <3> HIDE DEF ke, k
    <3> QED
      BY <1>2, <2>1, <3>1, AppendIsConcat
  <2>3. s1 = s \o k
    BY <1>1, <2>1, AppendIsConcat
  <2>4. s2 = s1 \o e
    <3> HIDE DEF s1
    <3> QED
      BY <1>2, <2>1, AppendIsConcat
  <2>5. s4 = s3 \o and
    <3> HIDE DEF s3
    <3> QED
      BY <1>2, <2>1, AppendIsConcat
  <2>6. Pair(p) = ke \o v \o and
    BY DEF Pair, key, v
  <2>7. s3 = s2 \o v
    OBVIOUS
  <2> HIDE DEF s1, s2, s3, s4, e, k, and, ke
  <2>8. s2 = s \o ke
    <3>1. s \in Seq(Character) /\ k \in Seq(Character) /\ e \in Seq(Character)
      BY <2>1
    <3>2. (s \o k) \o e = s \o (k \o e)
      BY <3>1, ConcatAssociative
    <3> QED
      BY <2>2, <2>3, <2>4, <3>2
  <2>9. ke \o v \in Seq(Character)
    BY <2>1, ConcatProperties
  <2>10. s3 = s \o (ke \o v)
    <3>2. s \in Seq(Character) /\ ke \in Seq(Character) /\ v \in Seq(Character)
      BY <2>1
    <3>1. (s \o ke) \o v = s \o (ke \o v)
      BY <3>2, ConcatAssociative
    <3> QED
      BY <2>7, <2>8, <3>1
  <2>11. (s \o (ke \o v)) \o and = s \o ((ke \o v) \o and)
    <3> DEFINE x == ke \o v
    <3> HIDE DEF x
    <3>1. x \in Seq(Character)
      BY <2>9 DEF x
    <3>3. s \in Seq(Character) /\ and \in Seq(Character)
      BY <2>1
    <3>2. (s \o x) \o and = s \o (x \o and)
      BY <3>1, <3>3, ConcatAssociative
    <3> QED
      BY <3>2 DEF x
  <2> QED
    BY <2>5, <2>6, <2>10, <2>11
<1>12. Understood(s1, r1)
  BY <1>1, <1>3, <1>4, UnderstoodAppend DEF r0
<1>13. Understood(s2, r2)
  <2> HIDE DEF s1
  <2> QED
    BY <1>2, <1>3, <1>5, <1>9, <1>12, UnderstoodAppend
<1>14. Understood(s3, r3)
  <2> HIDE DEF s2
  <2>1. Understood(s2 \o v, [r2 EXCEPT !.value = v])
    BY <1>1, <1>3, <1>7, <1>9, <1>13, UnderstoodValue
  <2> QED
    BY <1>7, <2>1
<1>15. Understood(s4, r4)
  <2> HIDE DEF s3
  <2> QED
    BY <1>2, <1>3, <1>6, <1>10, <1>14, UnderstoodAppend
<1> HIDE DEF s3
<1> QED
  BY <1>8, <1>10, <1>11, <1>14, <1>15

\* The path in front of the parameters.
LEMMA PathUnderstood ==
  <<"sendMessage?">> \in Strings /\ Understood(<<"sendMessage?">>, After(<<>>))
<1> DEFINE c == "sendMessage?"
<1>1. c \in Character /\ c \notin Specials
  BY DEF Character, Specials
<1> HIDE DEF c
<1>2. <<>> \in Strings /\ Len(<<>>) = 0 /\ Append(<<>>, c) = <<c>> /\ <<c>> \in Strings
  BY <1>1, EmptySeq, Appended, Written DEF Strings
<1>3. Understood(<<>>, Unread)
  <2> DEFINE f == [i \in 0..0 |-> Unread]
  <2>1. f \in [0..0 -> Readings] /\ f[0] = Unread /\ \A i \in 1..0 : Goes(f[i - 1], <<>>[i], f[i])
    BY UnreadType
  <2> HIDE DEF f
  <2> QED
    BY <1>2, <2>1 DEF Understood
<1>4. After(<<>>) \in Readings /\ Goes(Unread, c, After(<<>>))
  <2>1. [Unread EXCEPT !.part = "name"] = After(<<>>) /\ Unread.part = "path"
    <3>1. ASSUME NEW e, NEW x, x = [got |-> <<>>, name |-> e, value |-> <<>>, part |-> "path"]
          PROVE  x.part = "path" /\ [x EXCEPT !.part = "name"] = [got |-> <<>>, name |-> e, value |-> <<>>, part |-> "name"]
      BY <3>1
    <3>2. Unread = [got |-> <<>>, name |-> "", value |-> <<>>, part |-> "path"]
      BY DEF Unread
    <3>3. After(<<>>) = [got |-> <<>>, name |-> "", value |-> <<>>, part |-> "name"]
      BY DEF After
    <3> QED
      BY <3>1, <3>2, <3>3
  <2>2. Read(Unread, c) = [Unread EXCEPT !.part = "name"]
    <3>1. c \notin {" ", "\n"}
      BY <1>1 DEF Specials
    <3> QED
      BY <2>1, <3>1 DEF Read
  <2> QED
    BY <1>1, <2>1, <2>2, UnreadType, ReadType DEF Goes
<1>5. Understood(Append(<<>>, c), After(<<>>))
  BY <1>1, <1>2, <1>3, <1>4, UnderstoodAppend
<1> QED
  BY <1>2, <1>5 DEF c

\* Keys and values in which no character has a meaning of its own.
Readable(ps) == \A i \in 1..Len(ps) : ps[i][1] \in Keys /\ Free(ps[i][2])

\* The parameters are read in their query, the last one to the end.
LEMMA QueryUnderstood ==
  ASSUME NEW ps \in Params, Len(ps) # 0, Readable(ps)
  PROVE  \E t \in Strings : /\ query_str(ps) = Append(t, "&")
                            /\ Understood(t, Within(SubSeq(ps, 1, Len(ps) - 1), ps[Len(ps)]))
<1> DEFINE n == Len(ps)
           head(m) == SubSeq(ps, 1, m)
           C == Names \X Strings
<1>1. /\ n \in Nat /\ n # 0
      /\ \A i \in 1..n : ps[i] \in Character \X Strings /\ ps[i][1] \in Keys /\ Free(ps[i][2])
  BY ElementOfSeq DEF Params, Readable
<1>2. \A i \in 1..n : ps[i] \in C
  BY <1>1 DEF Names
<1>3. PICK f : /\ f \in [0..n -> Strings] /\ f[0] = <<"sendMessage?">>
               /\ \A i \in 1..n : f[i] = f[i - 1] \o Pair(ps[i])
               /\ query_str(ps) = f[n]
  BY QuerySteps
<1>4. head(0) = <<>>
  BY SubSeqEmpty
<1>5. ASSUME NEW m \in Nat, m + 1 <= n
      PROVE  head(m) \in Seq(C) /\ head(m + 1) = Append(head(m), ps[m + 1])
  <2>1. m + 1 \in 1..n /\ 1 \in 1..n /\ m + 1 \in 1..n /\ (m + 1) - 1 = m
    BY <1>1, <1>5
  <2>2. SubSeq(ps, 1, m + 1) = SubSeq(ps, 1, (m + 1) - 1) \o <<ps[m + 1]>>
    BY <2>1, SubSeqRecursiveSecond DEF Params
  <2>3. SubSeq(ps, 1, m) \in Seq(C)
    <3>1. 1 \in Int /\ m \in Int /\ \A i \in 1..m : ps[i] \in C
      BY <1>2, <1>5
    <3> HIDE DEF C
    <3> QED
      BY <3>1, SubSeqProperties
  <2>4. ps[m + 1] \in C
    BY <1>2, <2>1
  <2> DEFINE a == SubSeq(ps, 1, m)
             c == ps[m + 1]
  <2> HIDE DEF a, c, C
  <2>5. Append(a, c) = a \o <<c>>
    BY <2>3, <2>4, AppendIsConcat DEF a, c
  <2> QED
    BY <2>1, <2>2, <2>3, <2>5 DEF a, c
<1> HIDE DEF n, head, C
\* One parameter more.
<1>6. ASSUME NEW m \in Nat, m + 1 <= n, Understood(f[m], After(head(m)))
      PROVE  /\ \E t \in Strings : /\ f[m + 1] = Append(t, "&")
                                   /\ Understood(t, Within(head(m), ps[m + 1]))
             /\ Understood(f[m + 1], After(head(m + 1)))
  <2> DEFINE s == f[m]
             p == ps[m + 1]
             h == head(m)
  <2>1. m + 1 \in 1..n /\ (m + 1) - 1 = m /\ m \in 0..n
    BY <1>1, <1>6
  <2>2. s \in Strings /\ f[m + 1] = s \o Pair(p) /\ h \in Seq(C) /\ head(m + 1) = Append(h, p)
    <3>1. f[m + 1] = f[(m + 1) - 1] \o Pair(ps[m + 1])
      BY <1>3, <2>1
    <3> QED
      BY <1>3, <1>5, <1>6, <2>1, <3>1
  <2>3. p \in Character \X Strings /\ p[1] \in Keys /\ Free(p[2])
    BY <1>1, <2>1
  <2>4. Understood(s, After(h))
    BY <1>6
  <2> HIDE DEF s, p, h
  <2>5. \E t \in Strings : /\ s \o Pair(p) = Append(t, "&")
                           /\ Understood(t, Within(h, p))
                           /\ Understood(s \o Pair(p), After(Append(h, p)))
    BY <2>2, <2>3, <2>4, UnderstoodParam DEF C
  <2> QED
    BY <2>2, <2>5 DEF p, h
<1> DEFINE S == {m \in Nat : m <= n => Understood(f[m], After(head(m)))}
<1>7. 0 \in S
  BY <1>3, <1>4, PathUnderstood
<1>8. ASSUME NEW m \in Nat, m \in S PROVE m + 1 \in S
  <2> SUFFICES ASSUME m + 1 <= n PROVE Understood(f[m + 1], After(head(m + 1)))
    OBVIOUS
  <2>1. m <= n
    BY <1>1
  <2> QED
    BY <1>6, <1>8, <2>1
<1>9. n - 1 \in S /\ n - 1 \in Nat /\ (n - 1) + 1 = n /\ (n - 1) + 1 <= n /\ n - 1 <= n
  <2>1. n - 1 \in Nat /\ (n - 1) + 1 = n /\ (n - 1) + 1 <= n /\ n - 1 <= n
    BY <1>1
  <2>2. \A m \in Nat : m \in S
    <3> HIDE DEF S
    <3> QED
      BY <1>7, <1>8, SetInduction
  <2> QED
    BY <2>1, <2>2
<1> DEFINE k == n - 1
<1>10. k \in Nat /\ k + 1 = n /\ k + 1 <= n /\ Understood(f[k], After(head(k)))
  BY <1>9
<1> HIDE DEF k, S
<1>11. \E t \in Strings : f[k + 1] = Append(t, "&") /\ Understood(t, Within(head(k), ps[k + 1]))
  BY <1>6, <1>10
<1> QED
  BY <1>3, <1>10, <1>11 DEF n, head, k

\* The '&' at the end is no part of what is encoded.
LEMMA EncodesFront ==
  ASSUME NEW s \in Strings, NEW v \in Strings, Encodes(s, Append(v, "&"))
  PROVE  Last(s) = "&" /\ Front(s) \in Strings /\ Encodes(Front(s), v)
<1> DEFINE l == Len(s)
           n == Len(v)
           w == Append(v, "&")
           t == Front(s)
<1>1. "&" \in Character /\ "&" \notin Specials
  BY DEF Character, Specials
<1>2. l \in Nat /\ n \in Nat /\ Len(w) = n + 1 /\ (\A i \in 1..n : w[i] = v[i]) /\ w[n + 1] = "&"
  BY <1>1, AppendProperties DEF Strings
<1>3. PICK p : EncodesBy(s, w, p)
  BY DEF Encodes
<1>4. /\ p \in [0..(n + 1) -> 0..l] /\ p[0] = 0 /\ p[n + 1] = l
      /\ \A i, j \in 0..(n + 1) : i <= j => p[i] <= p[j]
      /\ \A i \in 1..(n + 1) : Stands(s, p[i - 1], p[i], w[i])
  BY <1>2, <1>3 DEF EncodesBy
<1> HIDE DEF w
<1>5. l = p[n] + 1 /\ s[p[n] + 1] = "&" /\ p[n] \in 0..l
  <2>1. n + 1 \in 1..(n + 1) /\ (n + 1) - 1 = n /\ n \in 0..(n + 1)
    BY <1>2
  <2>2. Stands(s, p[(n + 1) - 1], p[n + 1], w[n + 1])
    BY <1>4, <2>1
  <2>3. Stands(s, p[n], l, "&")
    BY <1>2, <1>4, <2>1, <2>2
  <2>4. p[n] \in 0..l
    BY <1>4, <2>1
  <2> QED
    BY <1>1, <2>3, <2>4 DEF Stands
<1>6. Last(s) = "&"
  BY <1>5 DEF Last
<1>7. t \in Strings /\ Len(t) = l - 1 /\ \A i \in 1..(l - 1) : t[i] = s[i]
  <2> DEFINE k == l - 1
  <2>1. k \in Int /\ k \in Nat /\ k - 1 + 1 = k /\ 1 \in Int /\ (~(1 <= k) => k = 0) /\ k <= l
    BY <1>2, <1>5
  <2>2. \A i \in 1..k : s[i] \in Character
    <3>1. \A i \in 1..k : i \in 1..l
      BY <1>2, <2>1
    <3> QED
      BY <3>1, ElementOfSeq DEF Strings
  <2>3. t = SubSeq(s, 1, k)
    BY DEF Front
  <2> HIDE DEF k, t
  <2>4. /\ SubSeq(s, 1, k) \in Seq(Character) /\ Len(SubSeq(s, 1, k)) = IF 1 <= k THEN k - 1 + 1 ELSE 0
        /\ \A i \in 1..(k - 1 + 1) : SubSeq(s, 1, k)[i] = s[1 + i - 1]
    BY <2>1, <2>2, SubSeqProperties
  <2>5. \A i \in 1..k : 1 + i - 1 = i
    BY <2>1
  <2> QED
    BY <2>1, <2>3, <2>4, <2>5 DEF k, Strings
<1> HIDE DEF t, l, n
<1>8. \A i \in 0..n : p[i] \in 0..(l - 1)
  <2> SUFFICES ASSUME NEW i \in 0..n PROVE p[i] \in 0..(l - 1)
    OBVIOUS
  <2>1. i \in 0..(n + 1) /\ n \in 0..(n + 1) /\ i <= n
    BY <1>2
  <2>2. p[i] <= p[n] /\ p[i] \in 0..l
    BY <1>4, <2>1
  <2> QED
    BY <1>2, <1>5, <2>2
<1> DEFINE q == [i \in 0..n |-> p[i]]
<1>9. q \in [0..n -> 0..(l - 1)] /\ \A i \in 0..n : q[i] = p[i]
  BY <1>8
<1> HIDE DEF q
<1>10. q[0] = 0 /\ q[n] = l - 1
  <2>1. 0 \in 0..n /\ n \in 0..n /\ p[n] = l - 1
    BY <1>2, <1>5
  <2> QED
    BY <1>4, <1>9, <2>1
<1>11. ASSUME NEW i \in 0..n, NEW j \in 0..n, i <= j PROVE q[i] <= q[j]
  <2>1. i \in 0..(n + 1) /\ j \in 0..(n + 1)
    BY <1>2
  <2> QED
    BY <1>4, <1>9, <1>11, <2>1
<1>12. ASSUME NEW i \in 1..n PROVE Stands(t, q[i - 1], q[i], v[i])
  <2> DEFINE a == p[i - 1]
             b == p[i]
  <2>1. i \in 1..(n + 1) /\ i - 1 \in 0..n /\ i \in 0..n
    BY <1>2
  <2>2. Stands(s, a, b, v[i]) /\ a \in 0..(l - 1) /\ b \in 0..(l - 1) /\ q[i - 1] = a /\ q[i] = b
    BY <1>2, <1>4, <1>8, <1>9, <2>1
  <2> HIDE DEF a, b
  <2>3. b = a + 1 => t[a + 1] = s[a + 1]
    <3>1. b = a + 1 => a + 1 \in 1..(l - 1)
      BY <1>2, <2>2
    <3> QED
      BY <1>7, <3>1 DEF l
  <2>4. b = a + 2 => t[a + 1] = s[a + 1] /\ t[a + 2] = s[a + 2]
    <3>1. b = a + 2 => a + 1 \in 1..(l - 1) /\ a + 2 \in 1..(l - 1)
      BY <1>2, <2>2
    <3> QED
      BY <1>7, <3>1
  <2> QED
    BY <2>2, <2>3, <2>4 DEF Stands
<1>13. EncodesBy(t, v, q)
  BY <1>7, <1>9, <1>10, <1>11, <1>12 DEF EncodesBy, n, l
<1> QED
  BY <1>6, <1>7, <1>13 DEF Encodes, t

\* The path alone is never encoded.
LEMMA EncodesPath ==
  ASSUME NEW s \in Strings, Encodes(s, <<"sendMessage?">>) PROVE Last(s) # "&"
<1> DEFINE v == <<"sendMessage?">>
<1>1. Len(v) = 1 /\ v[1] = "sendMessage?" /\ "sendMessage?" \notin Specials /\ "sendMessage?" # "&"
  BY DEF Specials
<1>2. PICK p : EncodesBy(s, v, p)
  BY DEF Encodes
<1>3. p[0] = 0 /\ p[1] = Len(s) /\ Stands(s, p[0], p[1], v[1])
  <2> HIDE DEF v
  <2>1. 1 \in 1..Len(v) /\ 1 - 1 = 0
    BY <1>1
  <2>2. Stands(s, p[1 - 1], p[1], v[1])
    BY <1>2, <2>1 DEF EncodesBy
  <2> QED
    BY <1>1, <1>2, <2>1, <2>2 DEF EncodesBy
<1> HIDE DEF v
<1>4. Len(s) = 1 /\ s[1] = "sendMessage?"
  BY <1>1, <1>3 DEF Stands
<1> QED
  BY <1>1, <1>4 DEF Last

\* The keys that the code sends.
LEMMA MeantKeys ==
  ASSUME NEW m \in Messages, NEW i \in 1..Len(Meant(m)) PROVE Meant(m)[i][1] \in Keys
<1> DEFINE ps == Meant(m)
<1>1. ASSUME NEW a, ps = HelpParams(a) PROVE ps[i][1] \in Keys
  <2>1. Len(ps) = 3 /\ ps[1][1] = "chat_id" /\ ps[2][1] = "reply_to_message_id" /\ ps[3][1] = "text"
    <3> HIDE DEF ps
    <3> QED
      BY <1>1 DEF HelpParams
  <2>2. i \in 1..Len(ps)
    OBVIOUS
  <2> HIDE DEF ps
  <2>3. i = 1 \/ i = 2 \/ i = 3
    BY <2>1, <2>2
  <2> QED
    BY <2>1, <2>3 DEF Keys
<1>2. ASSUME ps = ButtonParams PROVE ps[i][1] \in Keys
  <2>1. Len(ps) = 2 /\ ps[1][1] = "chat_id" /\ ps[2][1] = "message_id"
    <3> HIDE DEF ps
    <3> QED
      BY <1>2 DEF ButtonParams
  <2>2. i \in 1..Len(ps)
    OBVIOUS
  <2> HIDE DEF ps
  <2>3. i = 1 \/ i = 2
    BY <2>1, <2>2
  <2> QED
    BY <2>1, <2>3 DEF Keys
<1>3. ASSUME ps = LanguageParams PROVE ps[i][1] \in Keys
  <2>1. /\ Len(ps) = 4 /\ ps[1][1] = "chat_id" /\ ps[2][1] = "message_id" /\ ps[3][1] = "text"
        /\ ps[4][1] = "reply_markup"
    <3> HIDE DEF ps
    <3> QED
      BY <1>3 DEF LanguageParams
  <2>2. i \in 1..Len(ps)
    OBVIOUS
  <2> HIDE DEF ps
  <2>3. i = 1 \/ i = 2 \/ i = 3 \/ i = 4
    BY <2>1, <2>2
  <2> QED
    BY <2>1, <2>3 DEF Keys
<1>4. ASSUME ps = <<>> PROVE FALSE
  <2>1. Len(ps) = 0 /\ i \in 1..Len(ps)
    BY <1>4, EmptySeq
  <2> HIDE DEF ps
  <2> QED
    BY <2>1
<1>5. \/ ps = HelpParams(m.text) \/ ps = HelpParams(HelpText)
      \/ ps = ButtonParams \/ ps = LanguageParams \/ ps = <<>>
  <2>1. TranscriptParams(m) = HelpParams(m.text)
    BY DEF TranscriptParams, HelpParams
  <2> QED
    BY <2>1, MeantCases
<1> QED
  BY <1>1, <1>2, <1>3, <1>4, <1>5

------------------------------------------------------------------------------

LEMMA SentArrives == RequestInv => ParamsArrive
<1> DEFINE ps == Meant(message)
           n == Len(ps)
<1> SUFFICES ASSUME RequestInv, stage = "sent",
                    \A i \in 1..n : ToSet(ps[i][2]) \cap Reserved = {}
             PROVE  Received = ps
  BY DEF ParamsArrive
<1>1. /\ message \in Messages /\ str \in Strings /\ target \in Strings
      /\ Encodes(str, query_str(ps))
      /\ target = IF Last(str) = "&" THEN Front(str) ELSE str
  BY DEF RequestInv, RequestTypeOK, Standing, Sending, Strings
<1>2. ps \in Params /\ n \in Nat
  <2>1. ps \in Params
    BY <1>1, MeantType
  <2> HIDE DEF ps
  <2> QED
    BY <2>1 DEF Params
<1>3. Readable(ps)
  <2> SUFFICES ASSUME NEW i \in 1..n PROVE ps[i][1] \in Keys /\ Free(ps[i][2])
    BY DEF Readable
  <2>1. ps[i][1] \in Keys
    BY <1>1, MeantKeys
  <2>2. ps[i][2] \in Strings
    <3> HIDE DEF ps
    <3>1. ps[i] \in Character \X Strings
      BY <1>2, ElementOfSeq DEF Params
    <3> QED
      BY <3>1
  <2> DEFINE v == ps[i][2]
  <2>3. ToSet(v) \cap Reserved = {}
    OBVIOUS
  <2> HIDE DEF v
  <2>4. DOMAIN v = 1..Len(v)
    BY <2>2, LenProperties DEF Strings, v
  <2>5. Free(v)
    BY <2>3, <2>4 DEF Free, ToSet, Reserved
  <2> QED
    BY <2>1, <2>5 DEF v
<1>4. \A k \in 1..Len(target) : target[k] \notin Specials
  BY SentIsClean DEF TargetIsClean, Specials
<1> DEFINE r == Reading(target)[Len(target)]
<1>5. Received = IF r.name = "" THEN r.got ELSE Append(r.got, <<r.name, r.value>>)
  BY DEF Received
<1> HIDE DEF ps, n, r
<1>6. CASE n = 0
  <2>1. ps = <<>>
    BY <1>2, <1>6, EmptySeq DEF n, Params
  <2>2. query_str(ps) = <<"sendMessage?">>
    <3>1. PICK f : f[0] = <<"sendMessage?">> /\ query_str(ps) = f[Len(ps)]
      BY <1>2, QuerySteps
    <3> QED
      BY <1>6, <3>1 DEF n
  <2>3. Last(str) # "&"
    BY <1>1, <2>2, EncodesPath
  <2>4. Encodes(target, <<"sendMessage?">>)
    BY <1>1, <2>2, <2>3
  <2>5. r = After(<<>>)
    BY <1>1, <1>4, <2>4, PathUnderstood, Decoded DEF r
  <2>6. r.name = "" /\ r.got = <<>>
    BY <2>5 DEF After
  <2> QED
    BY <1>5, <2>1, <2>6
<1>7. CASE n # 0
  <2> DEFINE k == n - 1
             head == SubSeq(ps, 1, k)
             p == ps[n]
             C == Character \X Strings
  <2>1. PICK t \in Strings : query_str(ps) = Append(t, "&") /\ Understood(t, Within(head, p))
    BY <1>2, <1>3, <1>7, QueryUnderstood DEF n
  <2>2. Last(str) = "&" /\ Front(str) \in Strings /\ Encodes(Front(str), t)
    <3>1. Encodes(str, Append(t, "&"))
      BY <1>1, <2>1
    <3> QED
      BY <1>1, <3>1, EncodesFront
  <2>3. Encodes(target, t)
    BY <1>1, <2>2
  <2>4. n \in 1..n /\ 1 \in 1..n /\ n - 1 = k
    BY <1>2, <1>7
  <2>5. p \in C /\ p[1] \in Keys
    BY <1>2, <1>3, <2>4, ElementOfSeq DEF Params, Readable, n
  <2>6. r = Within(head, p)
    <3> HIDE DEF head, p
    <3> QED
      BY <1>1, <1>4, <2>1, <2>3, Decoded DEF r
  <2>7. r.name = p[1] /\ r.got = head /\ r.value = p[2] /\ r.name # ""
    <3> HIDE DEF head, p
    <3>1. r.name = p[1] /\ r.got = head /\ r.value = p[2]
      BY <2>6 DEF Within
    <3> QED
      BY <2>5, <3>1, KeyType
  <2>8. Received = Append(head, p)
    <3>1. <<p[1], p[2]>> = p
      <4> HIDE DEF p
      <4> QED
        BY <2>5
    <3> HIDE DEF head, p
    <3> QED
      BY <1>5, <2>7, <3>1
  <2>9. Append(head, p) = ps
    <3> HIDE DEF C
    <3>1. ps \in Seq(C)
      BY <1>2 DEF Params, C
    <3>2. SubSeq(ps, 1, n) = SubSeq(ps, 1, n - 1) \o <<ps[n]>>
      BY <2>4, <3>1, SubSeqRecursiveSecond DEF n
    <3>3. SubSeq(ps, 1, n) = ps
      BY <3>1, SubSeqFull DEF n
    <3>4. head \in Seq(C)
      <4>1. 1 \in Int /\ k \in Int /\ \A i \in 1..k : ps[i] \in C
        BY <1>2, <3>1, ElementOfSeq DEF n
      <4> HIDE DEF k
      <4> QED
        BY <4>1, SubSeqProperties
    <3> HIDE DEF head, p
    <3>5. Append(head, p) = head \o <<p>>
      BY <2>5, <3>4, AppendIsConcat
    <3> QED
      BY <3>2, <3>3, <3>5 DEF head, p
  <2> QED
    BY <2>8, <2>9
<1> QED
  BY <1>6, <1>7

\* Telegram receives the parameters that are meant, whatever the texts hold but
\* '&', '%' and '#', and however often a text has been encoded: get_tg_req and
\* get_correct_encoded_url_str in bot_utility.cpp.
THEOREM ParametersArrive == RequestSpec => []ParamsArrive
BY SentArrives, RequestInvariance, PTL

------------------------------------------------------------------------------
(* The session.                                                            *)

\* The place of a function in the chain.
Rank ==
  [f \in Functions |->
     CASE f = "run" -> 0 [] f = "on_resolve" -> 1 [] f = "on_connect" -> 2 [] f = "on_handshake" -> 3
       [] f = "on_write" -> 4 [] f = "on_read" -> 5 [] f = "on_shutdown" -> 6]

\* Functions begin in the order of the chain: one at most is before its last
\* statement, and then no operation is under way.
ChainInv ==
  \A s \in Sessions :
    /\ pending[s] # NoOperation =>
         entered[s] = {} /\ \A g \in leaving[s] : Rank[g] < Rank[pending[s]]
    /\ \A f \in entered[s] :
         /\ \A g \in entered[s] : f = g
         /\ \A g \in leaving[s] : Rank[g] < Rank[f]

\* What a session has not begun has left no trace.
FreshInv ==
  \A s \in Sessions : s \notin started =>
    /\ holders[s] = {} /\ pending[s] = NoOperation /\ entered[s] = {} /\ leaving[s] = {}
    /\ request[s] = "here" /\ ~response[s] /\ called[s] = 0

\* An answer was sent, and is read once; only then the callback is called.
AnswerInv ==
  \A s \in Sessions :
    /\ response[s] => /\ request[s] = "served"
                      /\ pending[s] \in {NoOperation, "on_shutdown"}
                      /\ entered[s] \subseteq {"on_read", "on_shutdown"}
    /\ called[s] > 0 => response[s]

SessionInv == SessionTypeOK /\ NotUsedAfterDestruction /\ ChainInv /\ FreshInv /\ AnswerInv

\* The next handler comes one place later.
LEMMA NextRank ==
  ASSUME NEW f \in Functions, f # "on_shutdown"
  PROVE  /\ bind_front_handler[f] \in Functions
         /\ Rank[f] \in Nat /\ Rank[bind_front_handler[f]] = Rank[f] + 1
         /\ f = "on_read" <=> bind_front_handler[f] = "on_shutdown"
         /\ bind_front_handler[f] # NoOperation
<1>1. /\ \A g \in Functions : Rank[g] =
                CASE g = "run" -> 0 [] g = "on_resolve" -> 1 [] g = "on_connect" -> 2 [] g = "on_handshake" -> 3
                  [] g = "on_write" -> 4 [] g = "on_read" -> 5 [] g = "on_shutdown" -> 6
  BY DEF Rank
<1>2. CASE f = "run"
  BY <1>1, <1>2 DEF Functions, bind_front_handler, NoOperation
<1>3. CASE f = "on_resolve"
  BY <1>1, <1>3 DEF Functions, bind_front_handler, NoOperation
<1>4. CASE f = "on_connect"
  BY <1>1, <1>4 DEF Functions, bind_front_handler, NoOperation
<1>5. CASE f = "on_handshake"
  BY <1>1, <1>5 DEF Functions, bind_front_handler, NoOperation
<1>6. CASE f = "on_write"
  BY <1>1, <1>6 DEF Functions, bind_front_handler, NoOperation
<1>7. CASE f = "on_read"
  BY <1>1, <1>7 DEF Functions, bind_front_handler, NoOperation
<1> QED
  BY <1>2, <1>3, <1>4, <1>5, <1>6, <1>7 DEF Functions

LEMMA RankIsNat == \A f \in Functions : Rank[f] \in Nat
  BY DEF Functions, Rank

LEMMA RunStep == ASSUME SessionInv, NEW s \in Sessions, run(s) PROVE SessionInv'
<1> USE DEF SessionInv, run
<1>1. SessionTypeOK'
  BY DEF SessionTypeOK, Functions
<1>2. NotUsedAfterDestruction'
  BY DEF SessionTypeOK, NotUsedAfterDestruction, FreshInv
<1>3. ChainInv'
  BY DEF SessionTypeOK, ChainInv, FreshInv
<1>4. FreshInv'
  BY DEF SessionTypeOK, FreshInv
<1>5. AnswerInv'
  BY DEF SessionTypeOK, FreshInv, AnswerInv
<1> QED
  BY <1>1, <1>2, <1>3, <1>4, <1>5

LEMMA GoOnStep ==
  ASSUME SessionInv, NEW s \in Sessions, NEW f \in Functions, go_on(s, f) PROVE SessionInv'
<1> USE DEF SessionInv
<1> DEFINE h == bind_front_handler[f]
<1>1. /\ f \in entered[s] /\ f # "on_shutdown" /\ Ready(s, f)
      /\ pending' = [pending EXCEPT ![s] = h]
      /\ holders' = [holders EXCEPT ![s] = @ \cup {h}]
      /\ entered' = [entered EXCEPT ![s] = @ \ {f}]
      /\ leaving' = [leaving EXCEPT ![s] = @ \cup {f}]
      /\ UNCHANGED <<started, request, response, called>>
  BY DEF go_on, start, Leave
<1>2. /\ h \in Functions /\ Rank[f] \in Nat /\ Rank[h] = Rank[f] + 1
      /\ f = "on_read" <=> h = "on_shutdown"
      /\ h # NoOperation
  BY <1>1, NextRank
<1> HIDE DEF h
<1>3. pending[s] = NoOperation /\ entered[s] = {f}
  BY <1>1 DEF ChainInv, SessionTypeOK
<1>4. SessionTypeOK'
  BY <1>1, <1>2 DEF SessionTypeOK
<1>5. NotUsedAfterDestruction'
  BY <1>1, <1>2, <1>3 DEF SessionTypeOK, NotUsedAfterDestruction
<1>6. ChainInv'
  BY <1>1, <1>2, <1>3, RankIsNat DEF SessionTypeOK, ChainInv
<1>7. FreshInv'
  BY <1>1 DEF SessionTypeOK, FreshInv
<1>8. AnswerInv'
  <2>1. response[s] => f = "on_read"
    BY <1>1 DEF AnswerInv
  <2> QED
    BY <1>1, <1>2, <1>3, <2>1 DEF SessionTypeOK, AnswerInv
<1> QED
  BY <1>4, <1>5, <1>6, <1>7, <1>8

LEMMA GiveUpStep ==
  ASSUME SessionInv, NEW s \in Sessions, NEW f \in Functions, give_up(s, f) PROVE SessionInv'
<1> USE DEF SessionInv, give_up, Leave
<1>1. SessionTypeOK'
  BY DEF SessionTypeOK
<1>2. NotUsedAfterDestruction'
  BY DEF SessionTypeOK, NotUsedAfterDestruction
<1>3. ChainInv'
  BY RankIsNat DEF SessionTypeOK, ChainInv
<1>4. FreshInv'
  BY DEF SessionTypeOK, FreshInv
<1>5. AnswerInv'
  BY DEF SessionTypeOK, AnswerInv
<1> QED
  BY <1>1, <1>2, <1>3, <1>4, <1>5

LEMMA ReturnStep ==
  ASSUME SessionInv, NEW s \in Sessions, NEW f \in Functions, return(s, f) PROVE SessionInv'
<1> USE DEF SessionInv, return
<1>1. f \in leaving[s] /\ Rank[f] \in Nat /\ f # NoOperation
  BY RankIsNat DEF Functions, NoOperation
<1>2. f \notin entered[s] /\ pending[s] # f
  BY <1>1 DEF ChainInv
<1>3. SessionTypeOK'
  BY DEF SessionTypeOK
<1>4. NotUsedAfterDestruction'
  BY <1>2 DEF SessionTypeOK, NotUsedAfterDestruction
<1>5. ChainInv'
  BY DEF SessionTypeOK, ChainInv
<1>6. FreshInv'
  BY DEF SessionTypeOK, FreshInv
<1>7. AnswerInv'
  BY DEF SessionTypeOK, AnswerInv
<1> QED
  BY <1>3, <1>4, <1>5, <1>6, <1>7

LEMMA CallbackStep == ASSUME SessionInv, NEW s \in Sessions, callback(s) PROVE SessionInv'
  BY DEF SessionInv, callback, SessionTypeOK, NotUsedAfterDestruction, ChainInv, FreshInv, AnswerInv

LEMMA CompleteStep == ASSUME SessionInv, NEW s \in Sessions, complete(s) PROVE SessionInv'
<1> USE DEF SessionInv, complete
<1>1. SessionTypeOK'
  BY DEF SessionTypeOK
<1>2. NotUsedAfterDestruction'
  BY DEF SessionTypeOK, NotUsedAfterDestruction
<1>3. ChainInv'
  BY DEF SessionTypeOK, ChainInv
<1>4. FreshInv'
  BY DEF SessionTypeOK, FreshInv
<1>5. AnswerInv'
  BY DEF SessionTypeOK, ChainInv, AnswerInv
<1> QED
  BY <1>1, <1>2, <1>3, <1>4, <1>5

LEMMA NetworkStep == ASSUME SessionInv, NEW s \in Sessions, transmit(s) \/ serve(s) PROVE SessionInv'
<1> USE DEF SessionInv
<1> DEFINE how == IF transmit(s) THEN "written" ELSE "served"
<1>1. /\ request' = [request EXCEPT ![s] = how]
      /\ how \in {"written", "served"} /\ s \in started /\ (response[s] => how = "served")
      /\ UNCHANGED <<started, holders, pending, entered, leaving, response, called>>
  BY DEF transmit, serve, SessionTypeOK, FreshInv, AnswerInv, NoOperation
<1> HIDE DEF how
<1>2. SessionTypeOK'
  BY <1>1 DEF SessionTypeOK
<1>3. NotUsedAfterDestruction' /\ ChainInv'
  BY <1>1 DEF NotUsedAfterDestruction, ChainInv
<1>4. FreshInv'
  BY <1>1 DEF SessionTypeOK, FreshInv
<1>5. AnswerInv'
  BY <1>1 DEF SessionTypeOK, AnswerInv
<1> QED
  BY <1>2, <1>3, <1>4, <1>5

LEMMA SessionInvariance == SessionSpec => []SessionInv
<1>1. SessionInit => SessionInv
  <2> SUFFICES ASSUME SessionInit PROVE SessionInv
    OBVIOUS
  <2> USE DEF SessionInit
  <2>1. SessionTypeOK
    BY DEF SessionTypeOK
  <2>2. NotUsedAfterDestruction
    BY DEF NotUsedAfterDestruction
  <2>3. ChainInv
    BY DEF ChainInv
  <2>4. FreshInv /\ AnswerInv
    BY DEF FreshInv, AnswerInv
  <2> QED
    BY <2>1, <2>2, <2>3, <2>4 DEF SessionInv
<1>2. SessionInv /\ [SessionNext]_sessionVars => SessionInv'
  <2> SUFFICES ASSUME SessionInv, [SessionNext]_sessionVars PROVE SessionInv'
    OBVIOUS
  <2>1. CASE UNCHANGED sessionVars
    BY <2>1 DEF sessionVars, SessionInv, SessionTypeOK, NotUsedAfterDestruction, ChainInv, FreshInv, AnswerInv
  <2>2. ASSUME NEW s \in Sessions, Execute(s) PROVE SessionInv'
    BY <2>2, GoOnStep, GiveUpStep, ReturnStep, CallbackStep DEF Execute
  <2> QED
    BY <2>1, <2>2, RunStep, CompleteStep, NetworkStep DEF SessionNext, Act
<1> QED
  BY <1>1, <1>2, PTL DEF SessionSpec

\* Every variable keeps its type, and no callback is called twice.
THEOREM SessionTypeCorrect == SessionSpec => []SessionTypeOK
  BY SessionInvariance, PTL DEF SessionInv

\* Each function that is executed, and each that an operation will call, holds the
\* session, whatever threads they run on.
THEOREM SessionOutlivesItsUse == SessionSpec => []NotUsedAfterDestruction
  BY SessionInvariance, PTL DEF SessionInv

------------------------------------------------------------------------------
(* The refinement.                                                         *)

\* The state of one session as SessionStep sees it.
State(s) ==
  IF s \notin started THEN "new"
  ELSE IF Answered(s) THEN "answered"
  ELSE IF destroyed(s) THEN "failed"
  ELSE "running"

\* A step that changes the state of one session changes the abstract function so.
LEMMA StateFunction ==
  ASSUME NEW s \in Sessions, NEW v, State(s)' = v,
         \A t \in Sessions \ {s} : State(t)' = State(t)
  PROVE  [t \in Sessions |-> State(t)]' = [[t \in Sessions |-> State(t)] EXCEPT ![s] = v]
  OBVIOUS

LEMMA RefinementStep ==
  ASSUME SessionInv, [SessionNext]_sessionVars PROVE [Step!Next]_(Step!vars)
<1> DEFINE states == [t \in Sessions |-> State(t)]
           answers == [t \in Sessions |-> request[t] = "served"]
<1> USE DEF SessionInv
<1>1. ASSUME NEW s \in Sessions, run(s) PROVE Step!start(s)
  <2>1. State(s) = "new" /\ State(s)' = "running"
    BY <1>1 DEF run, State, destroyed, Answered, FreshInv, SessionTypeOK
  <2>2. \A t \in Sessions \ {s} : State(t)' = State(t)
    BY <1>1 DEF run, State, destroyed, Answered, SessionTypeOK
  <2>3. states' = [states EXCEPT ![s] = "running"]
    BY <2>1, <2>2, StateFunction
  <2> QED
    BY <1>1, <2>1, <2>3 DEF Step!start, State, run
<1>2. ASSUME NEW s \in Sessions, NEW f \in Functions, go_on(s, f) \/ give_up(s, f)
      PROVE UNCHANGED Step!vars
  <2>1. \A t \in Sessions : State(t)' = State(t)
    BY <1>2 DEF go_on, give_up, start, Leave, State, destroyed, Answered, SessionTypeOK, NotUsedAfterDestruction
  <2> QED
    BY <1>2, <2>1 DEF go_on, give_up, State, Step!vars
<1>3. ASSUME NEW s \in Sessions, NEW f \in Functions, return(s, f)
      PROVE Step!fail(s) \/ UNCHANGED Step!vars
  <2>1. \A t \in Sessions \ {s} : State(t)' = State(t)
    BY <1>3 DEF return, State, destroyed, Answered, SessionTypeOK
  <2>2. State(s)' = State(s) \/ (State(s) = "running" /\ State(s)' = "failed")
    BY <1>3 DEF return, State, destroyed, Answered, SessionTypeOK, NotUsedAfterDestruction, FreshInv
  <2>3. CASE State(s)' = State(s)
    BY <1>3, <2>1, <2>3 DEF return, State, Step!vars
  <2>4. CASE State(s) = "running" /\ State(s)' = "failed"
    <3>1. states' = [states EXCEPT ![s] = "failed"]
      BY <2>1, <2>4, StateFunction
    <3> QED
      BY <1>3, <2>4, <3>1 DEF return, State, Step!fail
  <2> QED
    BY <2>2, <2>3, <2>4
<1>4. ASSUME NEW s \in Sessions, callback(s) PROVE Step!answer(s)
  <2>1. \A t \in Sessions \ {s} : State(t)' = State(t)
    BY <1>4 DEF callback, State, destroyed, Answered, SessionTypeOK
  <2>2. State(s) = "running" /\ State(s)' = "answered" /\ request[s] = "served"
    BY <1>4 DEF callback, State, destroyed, Answered, SessionTypeOK, NotUsedAfterDestruction, FreshInv, AnswerInv
  <2>3. states' = [states EXCEPT ![s] = "answered"]
    BY <2>1, <2>2, StateFunction
  <2> QED
    BY <1>4, <2>2, <2>3 DEF callback, State, Step!answer
<1>5. ASSUME NEW s \in Sessions, complete(s) PROVE Step!answer(s) \/ UNCHANGED Step!vars
  <2>1. \A t \in Sessions \ {s} : State(t)' = State(t)
    BY <1>5 DEF complete, State, destroyed, Answered, SessionTypeOK
  <2>2. \/ State(s)' = State(s)
        \/ s \notin WithCallback /\ State(s) = "running" /\ State(s)' = "answered" /\ request[s] = "served"
    BY <1>5 DEF complete, State, destroyed, Answered, SessionTypeOK, NotUsedAfterDestruction, FreshInv, AnswerInv
  <2>3. CASE State(s)' = State(s)
    BY <1>5, <2>1, <2>3 DEF complete, State, Step!vars
  <2>4. CASE s \notin WithCallback /\ State(s) = "running" /\ State(s)' = "answered" /\ request[s] = "served"
    <3>1. states' = [states EXCEPT ![s] = "answered"]
      BY <2>1, <2>4, StateFunction
    <3> QED
      BY <1>5, <2>4, <3>1 DEF complete, State, Step!answer
  <2> QED
    BY <2>2, <2>3, <2>4
<1>6. ASSUME NEW s \in Sessions, transmit(s) PROVE UNCHANGED Step!vars
  <2>1. \A t \in Sessions : State(t)' = State(t) /\ (request[t] = "served")' = (request[t] = "served")
    BY <1>6 DEF transmit, State, destroyed, Answered, SessionTypeOK
  <2> QED
    BY <1>6, <2>1 DEF transmit, State, Step!vars
<1>7. ASSUME NEW s \in Sessions, serve(s) PROVE Step!serve(s)
  <2>1. \A t \in Sessions : State(t)' = State(t)
    BY <1>7 DEF serve, State, destroyed, Answered, SessionTypeOK
  <2>2. answers' = [answers EXCEPT ![s] = TRUE]
    BY <1>7 DEF serve, SessionTypeOK
  <2>3. State(s) # "new" /\ ~(request[s] = "served")
    BY <1>7 DEF serve, State, FreshInv
  <2> QED
    BY <1>7, <2>1, <2>2, <2>3 DEF serve, State, Step!serve
<1>8. CASE UNCHANGED sessionVars
  <2>1. \A t \in Sessions : State(t)' = State(t)
    BY <1>8 DEF sessionVars, State, destroyed, Answered
  <2> QED
    BY <1>8, <2>1 DEF sessionVars, State, Step!vars
<1> QED
  BY <1>1, <1>2, <1>3, <1>4, <1>5, <1>6, <1>7, <1>8 DEF SessionNext, Act, Execute, Step!Next

\* To its callers a session is one step: its callback is called once at most, with
\* the answer to its own request, and not after an error.
THEOREM SessionRefinesStep == SessionSpec => ImplementsSessionStep
<1>1. SessionInit => Step!Init
  BY DEF SessionInit, Step!Init, destroyed, Answered
<1>2. SessionInv /\ [SessionNext]_sessionVars => [Step!Next]_(Step!vars)
  BY RefinementStep
<1> QED
  BY <1>1, <1>2, SessionInvariance, PTL DEF SessionSpec, ImplementsSessionStep, Step!Spec
==============================================================================
