------------------------------ MODULE HostsProofs ------------------------------
(***************************************************************************)
(* Theorems of Hosts, for every alphabet, every set of device identifiers, *)
(* topics, commands and other payloads, and every size of the buffers.     *)
(***************************************************************************)
EXTENDS Hosts, WellFoundedInduction, SequenceTheorems, TLAPS

-------------------------------------------------------------------------------
(* Searches. The code takes texts apart by looking for the first character   *)
(* that passes a test, or the last.                                          *)

LessThan == {ss \in Nat \X Nat : ss[1] < ss[2]}

LEMMA LessThanWellFounded == IsWellFoundedOn(LessThan, Nat)
  BY NatLessThanWellFounded, Zenon DEF OpToRel, LessThan

\* A set of natural numbers that is not empty has a least one.
LEMMA LeastOf ==
  ASSUME NEW I \in SUBSET Nat, I # {}
  PROVE  \E x \in I : \A y \in I : x <= y
  <1>1. PICK x \in I : \A y \in I : ~ (<<y, x>> \in LessThan)
    BY LessThanWellFounded, WFMin
  <1>2. ASSUME NEW a \in Nat, NEW b \in Nat, ~ (a <= b) PROVE <<b, a>> \in LessThan
    BY <1>2 DEF LessThan
  <1>3. ASSUME NEW y \in I PROVE x <= y
    BY <1>1, <1>2
  <1> QED BY <1>3

LEMMA MinIsLeast ==
  ASSUME NEW I \in SUBSET Nat, I # {}
  PROVE  Min(I) \in I /\ \A i \in I : Min(I) <= i
  BY LeastOf DEF Min

LEMMA MaxIsGreatest ==
  ASSUME NEW n \in Nat, NEW I \in SUBSET (1 .. n), I # {}
  PROVE  Max(I) \in I /\ \A i \in I : i <= Max(I)
  <1> DEFINE J == {j \in 0 .. n : n - j \in I}
  <1>1. J # {}
    <2>1. PICK i \in I : TRUE
      OBVIOUS
    <2>2. n - i \in 0 .. n /\ n - (n - i) = i
      OBVIOUS
    <2> QED BY <2>1, <2>2
  <1>2. PICK x \in J : \A y \in J : x <= y
    <2>1. J \in SUBSET Nat
      OBVIOUS
    <2> HIDE DEF J
    <2> QED BY <1>1, <2>1, LeastOf
  <1>3. ASSUME NEW i \in I PROVE n - x >= i
    <2>1. n - i \in 0 .. n /\ n - (n - i) = i
      OBVIOUS
    <2>2. x <= n - i
      BY <1>2, <2>1
    <2> QED BY <2>2
  <1>4. n - x \in I /\ \A i \in I : n - x >= i
    BY <1>3
  <1> HIDE DEF J
  <1>5. \E g \in I : \A i \in I : g >= i
    BY <1>4
  <1>6. Max(I) \in I /\ \A i \in I : Max(I) >= i
    BY <1>5 DEF Max
  <1> QED BY <1>6

\* The zero byte ends a text: what is left of it has none.
LEMMA CStringIs ==
  ASSUME NEW S, NEW s \in Seq(S)
  PROVE  /\ CString(s) \in Seq(S)
         /\ Len(CString(s)) <= Len(s)
         /\ (\A i \in 1 .. Len(s) : s[i] # "nul") => CString(s) = s
  <1> DEFINE I == {i \in 1 .. Len(s) : s[i] = "nul"}
             nul == IF I # {} THEN Min(I) ELSE 0
  <1>1. CString(s) = IF nul = 0 THEN s ELSE SubSeq(s, 1, nul - 1)
    BY DEF CString, SelectInSeq
  <1>2. CASE I = {}
    BY <1>1, <1>2
  <1>3. CASE I # {}
    <2>1. nul \in I
      <3>1. I \in SUBSET Nat
        OBVIOUS
      <3> HIDE DEF I
      <3> QED BY <1>3, <3>1, MinIsLeast
    <2>2. nul \in 1 .. Len(s) /\ s[nul] = "nul"
      BY <2>1
    <2> HIDE DEF nul
    <2>3. CString(s) = SubSeq(s, 1, nul - 1) /\ nul - 1 \in 0 .. Len(s)
      BY <1>1, <2>2
    <2>4. CString(s) \in Seq(S) /\ Len(CString(s)) = nul - 1
      BY <2>3, <2>2, SubSeqProperties
    <2> QED BY <2>2, <2>4
  <1> QED BY <1>2, <1>3

\* strchr: the first place of the character, none before it.
LEMMA StrchrFinds ==
  ASSUME NEW S, NEW s \in Seq(S), NEW from \in 1 .. Len(s) + 1, NEW char
  PROVE  LET p == Strchr(s, from, char)
         IN /\ p = 0 \/ p \in from .. Len(s)
            /\ p = 0 => \A i \in from .. Len(s) : s[i] # char
            /\ p # 0 => s[p] = char /\ \A i \in from .. p - 1 : s[i] # char
  <1> DEFINE I == {i \in from .. Len(s) : s[i] = char}
  <1>1. Strchr(s, from, char) = IF I # {} THEN Min(I) ELSE 0
    BY DEF Strchr, SelectInSubSeq
  <1>2. CASE I = {}
    BY <1>1, <1>2
  <1>3. CASE I # {}
    <2> DEFINE p == Min(I)
    <2>0. I \in SUBSET Nat
      OBVIOUS
    <2>1. p \in I /\ \A i \in I : p <= i
      BY <1>3, <2>0, MinIsLeast
    <2>2. p \in from .. Len(s) /\ s[p] = char /\ p # 0
      BY <2>1
    <2>3. \A i \in from .. Len(s) : s[i] = char => p <= i
      BY <2>1
    <2>4. Strchr(s, from, char) = p
      BY <1>1, <1>3
    <2> HIDE DEF p
    <2>5. \A i \in from .. p - 1 : s[i] # char
      BY <2>2, <2>3
    <2> QED BY <2>2, <2>4, <2>5
  <1> QED BY <1>2, <1>3

LEMMA StrchrOfNull == ASSUME NEW s, NEW char PROVE Strchr(s, 0, char) = 0
  BY DEF Strchr

\* The place the search comes back with is the only one of its kind.
LEMMA StrchrIs ==
  ASSUME NEW S, NEW s \in Seq(S), NEW from \in 1 .. Len(s) + 1, NEW char, NEW p \in from .. Len(s),
         s[p] = char, \A i \in from .. p - 1 : s[i] # char
  PROVE  Strchr(s, from, char) = p
  <1> DEFINE q == Strchr(s, from, char)
  <1>1. /\ q = 0 \/ q \in from .. Len(s)
        /\ q = 0 => \A i \in from .. Len(s) : s[i] # char
        /\ q # 0 => s[q] = char /\ \A i \in from .. q - 1 : s[i] # char
    BY StrchrFinds
  <1> HIDE DEF q
  <1>2. q \in from .. Len(s) /\ s[q] = char /\ \A i \in from .. q - 1 : s[i] # char
    BY <1>1
  <1>3. ~ (q < p) /\ ~ (p < q)
    BY <1>2
  <1>4. q = p
    BY <1>2, <1>3
  <1> QED BY <1>4 DEF q

\* Parts of a text.
LEMMA PartIs ==
  ASSUME NEW S, NEW s \in Seq(S), NEW i \in 1 .. Len(s) + 1, NEW j \in i - 1 .. Len(s)
  PROVE  /\ SubSeq(s, i, j) \in Seq(S) /\ Len(SubSeq(s, i, j)) = j - i + 1
         /\ DOMAIN SubSeq(s, i, j) = 1 .. j - i + 1
         /\ \A k \in 1 .. j - i + 1 : SubSeq(s, i, j)[k] = s[i + k - 1]
  <1>1. i \in Int /\ j \in Int /\ \A k \in i .. j : s[k] \in S
    BY ElementOfSeq
  <1>2. SubSeq(s, i, j) \in Seq(S) /\ Len(SubSeq(s, i, j)) = (IF i <= j THEN j - i + 1 ELSE 0)
    BY <1>1, SubSeqProperties
  <1>3. Len(SubSeq(s, i, j)) = j - i + 1
    BY <1>2
  <1>4. \A k \in 1 .. j - i + 1 : SubSeq(s, i, j)[k] = s[i + k - 1]
    BY <1>1, SubSeqProperties
  <1> QED BY <1>2, <1>3, <1>4, LenProperties

\* A quoted word stands at place i of a text.
QuotedAt(s, word, i) ==
  i \in 1 .. Len(s) - 2 /\ s[i] = "quote" /\ s[i + 1] = word /\ s[i + 2] = "quote"

\* strstr of a quoted word.
LEMMA StrstrFinds ==
  ASSUME NEW S, NEW s \in Seq(S), NEW word
  PROVE  LET p == StrstrQuoted(s, word)
         IN /\ p \in Nat
            /\ p = 0 => \A i \in Nat : ~ QuotedAt(s, word, i)
            /\ p # 0 => QuotedAt(s, word, p) /\ \A i \in 1 .. p - 1 : ~ QuotedAt(s, word, i)
  <1> DEFINE key == <<"quote", word, "quote">>
             t == [i \in 1 .. Len(s) - 2 |-> SubSeq(s, i, i + 2)]
             I == {i \in 1 .. Len(t) : t[i] = key}
             p == StrstrQuoted(s, word)
  <1>1. p = IF I # {} THEN Min(I) ELSE 0
    BY DEF StrstrQuoted, SelectInSeq
  <1>2. ASSUME NEW i \in 1 .. Len(s) - 2 PROVE SubSeq(s, i, i + 2) = key <=> QuotedAt(s, word, i)
    <2>1. /\ Len(SubSeq(s, i, i + 2)) = 3 /\ SubSeq(s, i, i + 2) \in Seq(S)
          /\ SubSeq(s, i, i + 2)[1] = s[i]
          /\ SubSeq(s, i, i + 2)[2] = s[i + 1]
          /\ SubSeq(s, i, i + 2)[3] = s[i + 2]
      <3> DEFINE j == i + 2
                 v == SubSeq(s, i, j)
      <3>1. i \in 1 .. Len(s) + 1 /\ j \in i - 1 .. Len(s) /\ j - i + 1 = 3
        OBVIOUS
      <3> HIDE DEF j
      <3>2. v \in Seq(S) /\ Len(v) = j - i + 1 /\ \A k \in 1 .. j - i + 1 : v[k] = s[i + k - 1]
        BY <3>1, PartIs
      <3> HIDE DEF v
      <3>3. i + 1 - 1 = i /\ i + 2 - 1 = i + 1 /\ i + 3 - 1 = i + 2
        OBVIOUS
      <3>4. 1 \in 1 .. 3 /\ 2 \in 1 .. 3 /\ 3 \in 1 .. 3
        OBVIOUS
      <3>5. Len(v) = 3 /\ v \in Seq(S) /\ v[1] = s[i] /\ v[2] = s[i + 1] /\ v[3] = s[i + 2]
        BY <3>1, <3>2, <3>3, <3>4
      <3> QED BY <3>5 DEF v, j
    <2>2. SubSeq(s, i, i + 2) = <<s[i], s[i + 1], s[i + 2]>>
      <3>1. s[i] \in S /\ s[i + 1] \in S /\ s[i + 2] \in S
        BY ElementOfSeq
      <3> DEFINE u == <<s[i], s[i + 1], s[i + 2]>>
                 v == SubSeq(s, i, i + 2)
      <3>2. u \in Seq(S) /\ Len(u) = 3 /\ u[1] = s[i] /\ u[2] = s[i + 1] /\ u[3] = s[i + 2]
        BY <3>1
      <3> HIDE DEF u, v
      <3>3. v \in Seq(S) /\ Len(v) = 3 /\ \A k \in 1 .. 3 : v[k] = u[k]
        BY <2>1, <3>2 DEF v
      <3> QED BY <3>2, <3>3, SeqEqual DEF u, v
    <2> QED BY <2>2 DEF QuotedAt
  <1>3. Len(t) = (IF Len(s) >= 2 THEN Len(s) - 2 ELSE 0) /\ 1 .. Len(t) = 1 .. Len(s) - 2
    <2>1. CASE Len(s) >= 2
      BY <2>1
    <2>2. CASE ~ (Len(s) >= 2)
      <3>1. 1 .. Len(s) - 2 = {}
        BY <2>2
      <3>2. t \in [1 .. 0 -> {}]
        BY <3>1
      <3>3. t \in Seq({})
        <4> HIDE DEF t
        <4>1. 0 \in Nat
          OBVIOUS
        <4> QED BY <3>2, <4>1, SeqDef
      <3>4. DOMAIN t = 1 .. Len(t) /\ DOMAIN t = {} /\ Len(t) \in Nat
        BY <3>1, <3>3, LenProperties
      <3> HIDE DEF t
      <3>5. Len(t) = 0
        <4>1. Len(t) # 0 => 1 \in 1 .. Len(t)
          BY <3>4
        <4> QED BY <3>4, <4>1
      <3>6. 1 .. Len(t) = {}
        BY <3>5
      <3> QED BY <2>2, <3>1, <3>5, <3>6
    <2> QED BY <2>1, <2>2
  <1>4. \A i : i \in I <=> QuotedAt(s, word, i)
    <2>1. \A i : i \in I <=> i \in 1 .. Len(s) - 2 /\ SubSeq(s, i, i + 2) = key
      BY <1>3
    <2> QED BY <2>1, <1>2 DEF QuotedAt
  <1>5. I \in SUBSET Nat /\ \A i \in I : i >= 1
    BY <1>3
  <1> HIDE DEF I, t, key, p
  <1>6. CASE I = {}
    BY <1>1, <1>4, <1>6 DEF p
  <1>7. CASE I # {}
    <2>1. p \in I /\ \A i \in I : p <= i
      BY <1>1, <1>5, <1>7, MinIsLeast
    <2>2. p \in Nat /\ p >= 1 /\ QuotedAt(s, word, p)
      BY <1>4, <1>5, <2>1
    <2>3. ASSUME NEW i \in 1 .. p - 1 PROVE ~ QuotedAt(s, word, i)
      <3>1. ~ (p <= i)
        BY <2>2
      <3> QED BY <3>1, <2>1, <1>4
    <2> QED BY <2>2, <2>3 DEF p
  <1> QED BY <1>6, <1>7

LEMMA RestIs ==
  ASSUME NEW S, NEW s \in Seq(S), NEW i \in 1 .. Len(s) + 1
  PROVE  /\ SubSeq(s, i, Len(s)) \in Seq(S) /\ Len(SubSeq(s, i, Len(s))) = Len(s) - i + 1
         /\ DOMAIN SubSeq(s, i, Len(s)) = 1 .. Len(s) - i + 1
         /\ \A k \in 1 .. Len(s) - i + 1 : SubSeq(s, i, Len(s))[k] = s[i + k - 1]
  <1>1. Len(s) \in i - 1 .. Len(s)
    OBVIOUS
  <1> QED BY <1>1, PartIs

LEMMA BeginsWith ==
  ASSUME NEW S, NEW s \in Seq(S), NEW char
  PROVE  IsPrefix(<<char>>, s) <=> Len(s) >= 1 /\ s[1] = char
  <1>1. Len(<<char>>) = 1 /\ SubSeq(<<char>>, 1, 1) = <<char>>
    <2>1. <<char>> \in Seq({char}) /\ Len(<<char>>) = 1
      OBVIOUS
    <2> QED BY <2>1, SubSeqFull
  <1>2. CASE Len(s) >= 1
    <2>1. /\ SubSeq(s, 1, 1) \in Seq(S) /\ Len(SubSeq(s, 1, 1)) = 1
          /\ SubSeq(s, 1, 1)[1] = s[1]
      BY <1>2, PartIs
    <2>2. s[1] \in S
      BY <1>2, ElementOfSeq
    <2>3. <<s[1]>> \in Seq(S) /\ Len(<<s[1]>>) = 1 /\ <<s[1]>>[1] = s[1]
      BY <2>2
    <2>4. SubSeq(s, 1, 1) = <<s[1]>>
      <3> DEFINE u == SubSeq(s, 1, 1)
                 v == <<s[1]>>
      <3>1. \A i \in 1 .. 1 : u[i] = v[i]
        BY <2>1, <2>3
      <3>2. u \in Seq(S) /\ v \in Seq(S) /\ Len(u) = 1 /\ Len(v) = 1
        BY <2>1, <2>3
      <3> HIDE DEF u, v
      <3>3. u = v
        BY <3>1, <3>2, SeqEqual
      <3> QED BY <3>3 DEF u, v
    <2> QED BY <1>1, <1>2, <2>4 DEF IsPrefix
  <1>3. CASE ~ (Len(s) >= 1)
    BY <1>1, <1>3 DEF IsPrefix
  <1> QED BY <1>2, <1>3

\* Only space is trimmed, and all of it.
TrimsTo(text, a, b) ==
  /\ a \in 1 .. Len(text) /\ b \in a .. Len(text)
  /\ text[a] # "sp" /\ text[b] # "sp"
  /\ \A i \in 1 .. a - 1 : text[i] = "sp"
  /\ \A i \in b + 1 .. Len(text) : text[i] = "sp"

LEMMA TrimIs ==
  ASSUME NEW S, NEW text \in Seq(S)
  PROVE  \/ /\ trim_whitespace(text) = <<>>
            /\ \A i \in 1 .. Len(text) : text[i] = "sp"
         \/ \E a, b \in Nat : TrimsTo(text, a, b) /\ trim_whitespace(text) = SubSeq(text, a, b)
  <1> DEFINE I == {i \in 1 .. Len(text) : NotSpace(text[i])}
             first == IF I # {} THEN Min(I) ELSE 0
             last == IF I # {} THEN Max(I) ELSE 0
  <1>1. trim_whitespace(text) = IF first = 0 THEN <<>> ELSE SubSeq(text, first, last)
    BY DEF trim_whitespace, SelectInSeq, SelectLastInSeq
  <1>2. CASE I = {}
    BY <1>1, <1>2 DEF NotSpace
  <1>3. CASE I # {}
    <2>1. I \in SUBSET Nat /\ I \in SUBSET (1 .. Len(text)) /\ Len(text) \in Nat
      OBVIOUS
    <2>2. \A i : i \in I <=> i \in 1 .. Len(text) /\ text[i] # "sp"
      BY DEF NotSpace
    <2> HIDE DEF I
    <2>3. first \in I /\ \A i \in I : first <= i
      BY <1>3, <2>1, MinIsLeast
    <2>4. last \in I /\ \A i \in I : i <= last
      BY <1>3, <2>1, MaxIsGreatest
    <2> HIDE DEF first, last
    <2>5. first \in 1 .. Len(text) /\ last \in first .. Len(text) /\ text[first] # "sp" /\ text[last] # "sp"
      BY <2>2, <2>3, <2>4
    <2>6. \A i \in 1 .. first - 1 : text[i] = "sp"
      BY <2>2, <2>3, <2>5
    <2>7. \A i \in last + 1 .. Len(text) : text[i] = "sp"
      BY <2>2, <2>4, <2>5
    <2>8. TrimsTo(text, first, last) /\ first \in Nat /\ last \in Nat
      BY <2>5, <2>6, <2>7 DEF TrimsTo
    <2>9. trim_whitespace(text) = SubSeq(text, first, last)
      BY <1>1, <2>5
    <2> QED BY <2>8, <2>9
  <1> QED BY <1>2, <1>3

\* What is left is the same whichever way it is found.
LEMMA TrimmedIs ==
  ASSUME NEW S, NEW text \in Seq(S), NEW a, NEW b, TrimsTo(text, a, b)
  PROVE  trim_whitespace(text) = SubSeq(text, a, b)
  <1>1. a \in 1 .. Len(text) /\ text[a] # "sp"
    BY DEF TrimsTo
  <1>2. PICK c \in Nat, d \in Nat : TrimsTo(text, c, d) /\ trim_whitespace(text) = SubSeq(text, c, d)
    BY <1>1, TrimIs
  <1>3. /\ c \in 1 .. Len(text) /\ text[c] # "sp" /\ \A i \in 1 .. c - 1 : text[i] = "sp"
        /\ d \in 1 .. Len(text) /\ text[d] # "sp" /\ \A i \in d + 1 .. Len(text) : text[i] = "sp"
        /\ a \in 1 .. Len(text) /\ text[a] # "sp" /\ \A i \in 1 .. a - 1 : text[i] = "sp"
        /\ b \in 1 .. Len(text) /\ text[b] # "sp" /\ \A i \in b + 1 .. Len(text) : text[i] = "sp"
    BY <1>2 DEF TrimsTo
  <1>4. ~ (a < c) /\ ~ (c < a) /\ ~ (b < d) /\ ~ (d < b)
    BY <1>3
  <1>5. a = c /\ b = d
    BY <1>3, <1>4
  <1> QED BY <1>2, <1>5

-------------------------------------------------------------------------------
(* What an object says of a field *)

\* A text between two neighbouring quotes.
Enclosed(s, i, j) ==
  /\ i \in 1 .. Len(s) /\ j \in i + 1 .. Len(s)
  /\ s[i] = "quote" /\ s[j] = "quote" /\ \A k \in i + 1 .. j - 1 : s[k] # "quote"

LEMMA ExtractIs ==
  ASSUME NEW S, NEW json \in Seq(S), NEW field_name, NEW out_len \in Nat
  PROVE  LET value == extract_json_field(json, field_name, out_len)
         IN \/ value = <<>>
            \/ \E i, j \in Nat : /\ Enclosed(json, i, j) /\ value = SubSeq(json, i + 1, j - 1)
                                 /\ Len(value) < out_len
  <1> DEFINE key    == StrstrQuoted(json, field_name)
             colon  == Strchr(json, key, "colon")
             first  == Strchr(json, colon, "quote")
             second == IF first = 0 THEN 0 ELSE Strchr(json, first + 1, "quote")
             value  == SubSeq(json, first + 1, second - 1)
  <1>1. extract_json_field(json, field_name, out_len)
          = IF second = 0 \/ Len(value) >= out_len THEN <<>> ELSE value
    BY DEF extract_json_field
  <1>2. key = 0 \/ key \in 1 .. Len(json)
    <2>1. key \in Nat /\ (key # 0 => QuotedAt(json, field_name, key))
      BY StrstrFinds
    <2> QED BY <2>1 DEF QuotedAt
  <1> HIDE DEF key
  <1>3. colon = 0 \/ colon \in 1 .. Len(json)
    <2>1. CASE key = 0
      BY <2>1, StrchrOfNull
    <2>2. CASE key # 0
      <3>1. key \in 1 .. Len(json) + 1 /\ key \in 1 .. Len(json)
        BY <1>2, <2>2
      <3>2. colon = 0 \/ colon \in key .. Len(json)
        BY <3>1, StrchrFinds
      <3> QED BY <3>1, <3>2
    <2> QED BY <2>1, <2>2
  <1> HIDE DEF colon
  <1>4. first = 0 \/ (first \in 1 .. Len(json) /\ json[first] = "quote")
    <2>1. CASE colon = 0
      BY <2>1, StrchrOfNull
    <2>2. CASE colon # 0
      <3>1. colon \in 1 .. Len(json) + 1 /\ colon \in 1 .. Len(json)
        BY <1>3, <2>2
      <3>2. first = 0 \/ (first \in colon .. Len(json) /\ json[first] = "quote")
        BY <3>1, StrchrFinds
      <3> QED BY <3>1, <3>2
    <2> QED BY <2>1, <2>2
  <1> HIDE DEF first
  <1>5. second = 0 \/ Enclosed(json, first, second)
    <2>1. CASE first = 0
      BY <2>1
    <2>2. CASE first # 0
      <3>1. first + 1 \in 1 .. Len(json) + 1 /\ first \in 1 .. Len(json) /\ json[first] = "quote"
        BY <1>4, <2>2
      <3>2. second = Strchr(json, first + 1, "quote")
        BY <2>2
      <3>3. /\ second = 0 \/ second \in first + 1 .. Len(json)
            /\ second # 0 => json[second] = "quote" /\ \A i \in first + 1 .. second - 1 : json[i] # "quote"
        BY <3>1, <3>2, StrchrFinds
      <3> QED BY <3>1, <3>3 DEF Enclosed
    <2> QED BY <2>1, <2>2
  <1> HIDE DEF second
  <1>6. CASE second = 0
    BY <1>1, <1>6
  <1>7. CASE Enclosed(json, first, second)
    <2>1. first \in Nat /\ second \in Nat /\ first + 1 \in 1 .. Len(json) + 1 /\ second - 1 \in first .. Len(json)
      BY <1>7 DEF Enclosed
    <2>2. Len(value) \in Nat
      BY <2>1, PartIs
    <2> HIDE DEF value
    <2>3. ~ (Len(value) >= out_len) => Len(value) < out_len
      BY <2>2
    <2> QED BY <1>1, <1>7, <2>1, <2>3 DEF value
  <1> QED BY <1>5, <1>6, <1>7

\* The way to a field's text: its key, a colon, two quotes, each the first of its kind.
LeadsTo(json, field_name, key, colon, first, second) ==
  /\ key \in Nat /\ QuotedAt(json, field_name, key) /\ \A i \in 1 .. key - 1 : ~ QuotedAt(json, field_name, i)
  /\ colon \in key .. Len(json) /\ json[colon] = "colon" /\ \A i \in key .. colon - 1 : json[i] # "colon"
  /\ Enclosed(json, first, second) /\ first \in colon .. Len(json)
  /\ \A i \in colon .. first - 1 : json[i] # "quote"

\* A value that has no room is none.
Fitting(value, out_len) == IF Len(value) >= out_len THEN <<>> ELSE value

LEMMA ExtractAt ==
  ASSUME NEW S, NEW json \in Seq(S), NEW field_name, NEW out_len \in Nat,
         NEW key, NEW colon, NEW first, NEW second, LeadsTo(json, field_name, key, colon, first, second)
  PROVE  extract_json_field(json, field_name, out_len)
           = Fitting(SubSeq(json, first + 1, second - 1), out_len)
  <1>. USE DEF LeadsTo
  <1>0. key \in 1 .. Len(json)
    BY DEF QuotedAt
  <1>1. StrstrQuoted(json, field_name) = key
    <2> DEFINE p == StrstrQuoted(json, field_name)
    <2>1. /\ p \in Nat
          /\ p = 0 => \A i \in Nat : ~ QuotedAt(json, field_name, i)
          /\ p # 0 => QuotedAt(json, field_name, p) /\ \A i \in 1 .. p - 1 : ~ QuotedAt(json, field_name, i)
      BY StrstrFinds
    <2> HIDE DEF p
    <2>2. p # 0
      BY <2>1
    <2>3. ~ (p < key) /\ ~ (key < p)
      BY <1>0, <2>1, <2>2
    <2>4. p = key
      BY <2>1, <2>3
    <2> QED BY <2>4 DEF p
  <1>2. Strchr(json, key, "colon") = colon
    <2>1. key \in 1 .. Len(json) + 1
      BY <1>0
    <2> QED BY <2>1, StrchrIs
  <1>3. Strchr(json, colon, "quote") = first
    <2>1. colon \in 1 .. Len(json) + 1 /\ json[first] = "quote"
      BY <1>0 DEF Enclosed
    <2> QED BY <2>1, StrchrIs
  <1>4. Strchr(json, first + 1, "quote") = second
    <2>1. /\ first + 1 \in 1 .. Len(json) + 1 /\ second \in first + 1 .. Len(json)
          /\ json[second] = "quote" /\ \A i \in first + 1 .. second - 1 : json[i] # "quote"
      BY DEF Enclosed
    <2> QED BY <2>1, StrchrIs
  <1>5. first # 0 /\ second # 0
    BY DEF Enclosed
  <1> QED BY <1>1, <1>2, <1>3, <1>4, <1>5 DEF extract_json_field, Fitting

\* Without the key there is nothing.
LEMMA ExtractNothing ==
  ASSUME NEW S, NEW json \in Seq(S), NEW field_name, NEW out_len,
         \A i \in Nat : ~ QuotedAt(json, field_name, i)
  PROVE  extract_json_field(json, field_name, out_len) = <<>>
  <1>1. StrstrQuoted(json, field_name) = 0
    <2> DEFINE p == StrstrQuoted(json, field_name)
    <2>1. p \in Nat /\ (p # 0 => QuotedAt(json, field_name, p))
      BY StrstrFinds
    <2> HIDE DEF p
    <2>2. p = 0
      BY <2>1
    <2> QED BY <2>2 DEF p
  <1> QED BY <1>1, StrchrOfNull DEF extract_json_field

-------------------------------------------------------------------------------
(* Jobs have whole URLs *)

\* A part of a text that is all of it but the space around, or all between two quotes.
WholeAt(url, text, i, j) ==
  SubSeq(text, i, j) = url /\
    \/ /\ Blank(SubSeq(text, 1, i - 1)) /\ Blank(SubSeq(text, j + 1, Len(text)))
       /\ text[i] # "sp" /\ text[j] # "sp"
    \/ /\ i > 1 /\ j < Len(text) /\ text[i - 1] = "quote" /\ text[j + 1] = "quote"
       /\ \A k \in i .. j : text[k] # "quote"

Whole(url, text) == \E i \in DOMAIN text, j \in DOMAIN text : WholeAt(url, text, i, j)

LEMMA TrimmedIsWhole ==
  ASSUME NEW S, NEW text \in Seq(S), NEW a, NEW b, TrimsTo(text, a, b)
  PROVE  Whole(SubSeq(text, a, b), text)
  <1>1. /\ a \in 1 .. Len(text) /\ b \in a .. Len(text)
        /\ text[a] # "sp" /\ text[b] # "sp"
        /\ \A i \in 1 .. a - 1 : text[i] = "sp"
        /\ \A i \in b + 1 .. Len(text) : text[i] = "sp"
    BY DEF TrimsTo
  <1>2. Blank(SubSeq(text, 1, a - 1))
    <2>1. /\ 1 \in 1 .. Len(text) + 1 /\ a - 1 \in 1 - 1 .. Len(text)
      BY <1>1
    <2>2. /\ DOMAIN SubSeq(text, 1, a - 1) = 1 .. (a - 1) - 1 + 1
          /\ \A k \in 1 .. (a - 1) - 1 + 1 : SubSeq(text, 1, a - 1)[k] = text[1 + k - 1]
      BY <2>1, PartIs
    <2> QED BY <1>1, <2>2 DEF Blank
  <1>3. Blank(SubSeq(text, b + 1, Len(text)))
    <2>1. b + 1 \in 1 .. Len(text) + 1 /\ Len(text) \in (b + 1) - 1 .. Len(text)
      BY <1>1
    <2>2. /\ DOMAIN SubSeq(text, b + 1, Len(text)) = 1 .. Len(text) - (b + 1) + 1
          /\ \A k \in 1 .. Len(text) - (b + 1) + 1 : SubSeq(text, b + 1, Len(text))[k] = text[(b + 1) + k - 1]
      BY <2>1, PartIs
    <2>3. \A k \in 1 .. Len(text) - (b + 1) + 1 : (b + 1) + k - 1 \in b + 1 .. Len(text)
      BY <1>1
    <2> QED BY <1>1, <2>2, <2>3 DEF Blank
  <1>4. a \in DOMAIN text /\ b \in DOMAIN text
    BY <1>1
  <1>5. WholeAt(SubSeq(text, a, b), text, a, b)
    BY <1>1, <1>2, <1>3 DEF WholeAt
  <1> QED BY <1>4, <1>5 DEF Whole

\* A quoted text of what is left after trimming is one of the text before it, too.
LEMMA EnclosedIsWhole ==
  ASSUME NEW S, NEW text \in Seq(S), NEW a, NEW b, TrimsTo(text, a, b),
         NEW i, NEW j, Enclosed(SubSeq(text, a, b), i, j), i + 1 < j
  PROVE  Whole(SubSeq(SubSeq(text, a, b), i + 1, j - 1), text)
  <1> DEFINE s == SubSeq(text, a, b)
             from == a + i
             to == a + j - 2
  <1>1. a \in 1 .. Len(text) /\ b \in a .. Len(text)
    BY DEF TrimsTo
  <1>2. s \in Seq(S) /\ Len(s) = b - a + 1 /\ \A k \in 1 .. b - a + 1 : s[k] = text[a + k - 1]
    <2>1. a \in 1 .. Len(text) + 1 /\ b \in a - 1 .. Len(text)
      BY <1>1
    <2> QED BY <2>1, PartIs
  <1> HIDE DEF s
  <1>3. /\ i \in 1 .. Len(s) /\ j \in i + 1 .. Len(s) /\ s[i] = "quote" /\ s[j] = "quote"
        /\ \A k \in i + 1 .. j - 1 : s[k] # "quote"
    BY DEF Enclosed, s
  <1>4. /\ from \in 1 .. Len(text) /\ to \in from .. Len(text) /\ from > 1 /\ to < Len(text)
        /\ from - 1 = a + i - 1 /\ to + 1 = a + j - 1
    BY <1>1, <1>2, <1>3
  <1>5. text[from - 1] = "quote" /\ text[to + 1] = "quote"
    BY <1>2, <1>3, <1>4
  <1>6. ASSUME NEW k \in from .. to PROVE text[k] # "quote"
    <2>1. k - a + 1 \in i + 1 .. j - 1 /\ k - a + 1 \in 1 .. b - a + 1 /\ a + (k - a + 1) - 1 = k
      BY <1>1, <1>2, <1>3
    <2> QED BY <1>2, <1>3, <2>1
  <1>7. SubSeq(s, i + 1, j - 1) = SubSeq(text, from, to)
    <2> DEFINE u == SubSeq(s, i + 1, j - 1)
               v == SubSeq(text, from, to)
    <2>1. i + 1 \in 1 .. Len(s) + 1 /\ j - 1 \in (i + 1) - 1 .. Len(s)
      BY <1>3
    <2>2. /\ u \in Seq(S) /\ Len(u) = (j - 1) - (i + 1) + 1
          /\ \A k \in 1 .. (j - 1) - (i + 1) + 1 : u[k] = s[(i + 1) + k - 1]
      <3> DEFINE m == i + 1
                 n == j - 1
      <3> HIDE DEF m, n
      <3>1. m \in 1 .. Len(s) + 1 /\ n \in m - 1 .. Len(s)
        BY <2>1 DEF m, n
      <3>2. /\ SubSeq(s, m, n) \in Seq(S) /\ Len(SubSeq(s, m, n)) = n - m + 1
            /\ \A k \in 1 .. n - m + 1 : SubSeq(s, m, n)[k] = s[m + k - 1]
        BY <1>2, <3>1, PartIs
      <3> QED BY <3>2 DEF m, n
    <2>3. from \in 1 .. Len(text) + 1 /\ to \in from - 1 .. Len(text)
      BY <1>4
    <2>4. /\ v \in Seq(S) /\ Len(v) = to - from + 1
          /\ \A k \in 1 .. to - from + 1 : v[k] = text[from + k - 1]
      BY <2>3, PartIs
    <2>5. Len(u) = j - i - 1 /\ Len(v) = j - i - 1 /\ j - i - 1 \in Nat
      BY <1>1, <1>2, <1>3, <2>2, <2>4
    <2> HIDE DEF u, v
    <2>6. ASSUME NEW k \in 1 .. j - i - 1 PROVE u[k] = v[k]
      <3>1. /\ k \in 1 .. (j - 1) - (i + 1) + 1 /\ (i + 1) + k - 1 = i + k
            /\ k \in 1 .. to - from + 1 /\ i + k \in 1 .. b - a + 1 /\ from + k - 1 = a + (i + k) - 1
        BY <1>1, <1>2, <1>3
      <3>2. u[k] = s[i + k] /\ v[k] = text[a + (i + k) - 1]
        BY <2>2, <2>4, <3>1
      <3> QED BY <1>2, <3>1, <3>2
    <2>7. u = v
      BY <2>2, <2>4, <2>5, <2>6, SeqEqual
    <2> QED BY <2>7 DEF u, v
  <1>8. from \in DOMAIN text /\ to \in DOMAIN text
    BY <1>4
  <1>9. Whole(SubSeq(text, from, to), text)
    <2> HIDE DEF from, to
    <2>1. \A k \in from .. to : text[k] # "quote"
      BY <1>6
    <2>2. from > 1 /\ to < Len(text)
      BY <1>4
    <2>3. WholeAt(SubSeq(text, from, to), text, from, to)
      BY <1>5, <2>1, <2>2 DEF WholeAt
    <2> QED BY <1>8, <2>3 DEF Whole
  <1> QED BY <1>7, <1>9 DEF s

\* parse_ota_payload makes no job of a part of a URL.
LEMMA JobIsWhole ==
  ASSUME NEW S, NEW payload \in Seq(S), NEW job, job = parse_ota_payload(payload), job.kind = "job"
  PROVE  IsPrefix(<<"https">>, job.url) /\ Len(job.url) < MaxUrl /\ Whole(job.url, CString(payload))
  <1> DEFINE text   == CString(payload)
             buffer == trim_whitespace(text)
             json   == IsPrefix(<<"{">>, buffer)
             field  == extract_json_field(buffer, "url", MaxUrl)
             url    == IF json THEN field ELSE buffer
             sha256 == IF json THEN extract_json_field(buffer, "sha256", MaxSha) ELSE <<>>
  <1>1. job = IF payload # <<>> /\ Len(payload) < MaxUrl /\ IsPrefix(<<"https">>, url)
              THEN Job(url, sha256) ELSE BadPayload
    BY DEF parse_ota_payload
  <1>2. text \in Seq(S) /\ Len(text) <= Len(payload)
    BY CStringIs
  <1>3. MaxUrl \in Nat
    BY SizesAssumption
  <1> HIDE DEF text, buffer, json, field
  <1>4. Len(payload) < MaxUrl /\ IsPrefix(<<"https">>, url) /\ job.url = url
    BY <1>1 DEF Job, BadPayload
  <1>5. ~ IsPrefix(<<"https">>, <<>>) /\ ~ IsPrefix(<<"{">>, <<>>)
    <2>1. Len(<<>>) = 0 /\ Len(<<"https">>) = 1 /\ Len(<<"{">>) = 1
      OBVIOUS
    <2> QED BY <2>1 DEF IsPrefix
  <1>6. buffer # <<>>
    <2>1. CASE buffer = <<>>
      <3>1. ~ json
        BY <1>5, <2>1 DEF json
      <3> QED BY <1>4, <1>5, <2>1, <3>1
    <2> QED BY <2>1
  <1>7. PICK a \in Nat, b \in Nat : TrimsTo(text, a, b) /\ buffer = SubSeq(text, a, b)
    BY <1>2, <1>6, TrimIs DEF buffer
  <1>8. buffer \in Seq(S) /\ Len(buffer) <= Len(text)
    <2>1. a \in 1 .. Len(text) + 1 /\ b \in a - 1 .. Len(text)
      BY <1>7 DEF TrimsTo
    <2>2. buffer \in Seq(S) /\ Len(buffer) = b - a + 1
      BY <1>2, <1>7, <2>1, PartIs
    <2> QED BY <1>2, <2>1, <2>2
  <1>9. CASE ~ json
    <2>1. url = buffer
      BY <1>9
    <2>2. Len(url) < MaxUrl
      <3>1. Len(url) \in Nat /\ Len(text) \in Nat /\ Len(payload) \in Nat
        BY <1>2, <1>8, <2>1
      <3> QED BY <1>2, <1>3, <1>4, <1>8, <2>1, <3>1
    <2>3. Whole(url, text)
      BY <1>2, <1>7, <2>1, TrimmedIsWhole
    <2> QED BY <1>4, <2>2, <2>3 DEF text
  <1>10. CASE json
    <2>1. url = field
      BY <1>10
    <2>2. field # <<>>
      BY <1>4, <1>5, <2>1
    <2>3. PICK i \in Nat, j \in Nat : /\ Enclosed(buffer, i, j) /\ field = SubSeq(buffer, i + 1, j - 1)
                                      /\ Len(field) < MaxUrl
      BY <1>3, <1>8, <2>2, ExtractIs DEF field
    <2>4. i + 1 < j
      <3>1. i \in 1 .. Len(buffer) /\ j \in i + 1 .. Len(buffer)
        BY <2>3 DEF Enclosed
      <3>2. CASE j = i + 1
        <4>1. j - 1 < i + 1 /\ i + 1 \in Int /\ j - 1 \in Int
          BY <3>2
        <4> QED BY <2>2, <2>3, <4>1, SubSeqEmpty
      <3> QED BY <3>1, <3>2
    <2>5. Whole(field, text)
      BY <1>2, <1>7, <2>3, <2>4, EnclosedIsWhole
    <2> QED BY <1>4, <2>1, <2>3, <2>5 DEF text
  <1> QED BY <1>9, <1>10

-------------------------------------------------------------------------------
(* Texts one behind the other *)

\* What the function inside Joined is: the rest of the joined text from each place on.
Joins(f, S, texts, separator) ==
  /\ f \in [1 .. Len(texts) -> Seq(S)]
  /\ f[Len(texts)] = texts[Len(texts)]
  /\ \A i \in 1 .. Len(texts) - 1 : f[i] = texts[i] \o (separator \o f[i + 1])

LEMMA RestsExist ==
  ASSUME NEW S, NEW texts \in Seq(Seq(S)), texts # <<>>, NEW separator \in Seq(S)
  PROVE  \E f : Joins(f, S, texts, separator)
  <1> DEFINE L == Len(texts)
             From(f, k) == /\ f \in [k .. L -> Seq(S)] /\ f[L] = texts[L]
                           /\ \A i \in k .. L - 1 : f[i] = texts[i] \o (separator \o f[i + 1])
             Bad == {k \in 1 .. L : ~ \E f : From(f, k)}
  <1>1. L \in Nat \ {0} /\ \A i \in 1 .. L : texts[i] \in Seq(S)
    BY EmptySeq, ElementOfSeq
  <1>2. SUFFICES ASSUME Bad # {} PROVE FALSE
    <2>1. 1 \in 1 .. L
      BY <1>1
    <2>2. \E f : From(f, 1)
      BY <1>2, <2>1
    <2> QED BY <2>2 DEF Joins
  <1>3. PICK k \in Bad : \A j \in Bad : j <= k
    <2>1. Bad \in SUBSET (1 .. L) /\ L \in Nat
      BY <1>1
    <2> HIDE DEF Bad, L
    <2> QED BY <1>2, <2>1, MaxIsGreatest
  <1>4. k # L
    <2> DEFINE e == [i \in {L} |-> texts[L]]
    <2>1. L .. L = {L} /\ L .. L - 1 = {} /\ texts[L] \in Seq(S)
      BY <1>1
    <2>2. e \in [L .. L -> Seq(S)] /\ e[L] = texts[L]
      BY <2>1
    <2> HIDE DEF e
    <2>3. From(e, L)
      BY <2>1, <2>2
    <2> QED BY <2>3
  <1>5. k \in 1 .. L - 1 /\ k + 1 \in 1 .. L /\ ~ (k + 1 \in Bad)
    <2>1. k \in 1 .. L
      BY <1>3
    <2> HIDE DEF Bad
    <2> QED BY <1>1, <1>3, <1>4, <2>1
  <1>6. PICK f : From(f, k + 1)
    BY <1>5
  <1> DEFINE g == [i \in k .. L |-> IF i = k THEN texts[k] \o (separator \o f[k + 1]) ELSE f[i]]
  <1>7. From(g, k)
    <2>1. k \in 1 .. L /\ f[k + 1] \in Seq(S) /\ texts[k] \in Seq(S)
      <3>1. k \in 1 .. L /\ k + 1 \in k + 1 .. L
        BY <1>5
      <3> QED BY <1>1, <1>6, <3>1
    <2>2. texts[k] \o (separator \o f[k + 1]) \in Seq(S)
      BY <2>1, ConcatProperties
    <2>3. g \in [k .. L -> Seq(S)]
      <3>1. ASSUME NEW i \in k .. L PROVE g[i] \in Seq(S)
        <4>1. CASE i = k
          BY <2>2, <4>1
        <4>2. CASE i # k
          <5>1. i \in k + 1 .. L
            BY <1>1, <1>5, <4>2
          <5> QED BY <1>6, <4>2, <5>1
        <4> QED BY <4>1, <4>2
      <3> QED BY <3>1
    <2>4. g[L] = texts[L]
      BY <1>1, <1>4, <1>5, <1>6
    <2>5. ASSUME NEW i \in k .. L - 1 PROVE g[i] = texts[i] \o (separator \o g[i + 1])
      <3>1. i \in k .. L /\ i + 1 \in k .. L /\ i + 1 # k
        BY <1>1, <1>5
      <3>2. g[i + 1] = f[i + 1] /\ g[i] = IF i = k THEN texts[k] \o (separator \o f[k + 1]) ELSE f[i]
        BY <3>1
      <3>3. CASE i = k
        BY <3>2, <3>3
      <3>4. CASE i # k
        <4>1. i \in k + 1 .. L - 1
          BY <1>1, <1>5, <3>4
        <4> QED BY <1>6, <3>2, <3>4, <4>1
      <3> QED BY <3>3, <3>4
    <2> QED BY <2>3, <2>4, <2>5
  <1> QED BY <1>3, <1>7

\* A text that consists of three.
Around(w, s, u, t) ==
  /\ Len(w) = Len(s) + Len(u) + Len(t)
  /\ \A i \in 1 .. Len(s) : w[i] = s[i]
  /\ \A i \in 1 .. Len(u) : w[Len(s) + i] = u[i]
  /\ \A i \in 1 .. Len(t) : w[Len(s) + Len(u) + i] = t[i]

\* Any two texts put around a separator are a text.
LEMMA BetweenIs ==
  ASSUME NEW S, NEW s \in Seq(S), NEW u \in Seq(S), NEW t \in Seq(S)
  PROVE  s \o (u \o t) \in Seq(S) /\ Around(s \o (u \o t), s, u, t)
  <1> DEFINE v == u \o t
             w == s \o v
  <1>1. /\ v \in Seq(S) /\ Len(v) = Len(u) + Len(t)
        /\ \A i \in 1 .. Len(u) + Len(t) : v[i] = IF i <= Len(u) THEN u[i] ELSE t[i - Len(u)]
    BY ConcatProperties
  <1> HIDE DEF v
  <1>2. /\ w \in Seq(S) /\ Len(w) = Len(s) + Len(v)
        /\ \A i \in 1 .. Len(s) + Len(v) : w[i] = IF i <= Len(s) THEN s[i] ELSE v[i - Len(s)]
    <2>1. v \in Seq(S)
      BY <1>1
    <2> QED BY <2>1, ConcatProperties
  <1> HIDE DEF w
  <1>3. Len(s) \in Nat /\ Len(u) \in Nat /\ Len(t) \in Nat
    OBVIOUS
  <1>4. \A i \in 1 .. Len(s) : w[i] = s[i]
    BY <1>1, <1>2, <1>3
  <1>5. ASSUME NEW i \in 1 .. Len(u) PROVE w[Len(s) + i] = u[i]
    <2>1. /\ Len(s) + i \in 1 .. Len(s) + Len(v) /\ ~ (Len(s) + i <= Len(s)) /\ (Len(s) + i) - Len(s) = i
          /\ i \in 1 .. Len(u) + Len(t) /\ i <= Len(u)
      BY <1>1, <1>3
    <2> QED BY <1>1, <1>2, <2>1
  <1>6. ASSUME NEW i \in 1 .. Len(t) PROVE w[Len(s) + Len(u) + i] = t[i]
    <2> DEFINE n == Len(s) + Len(u) + i
    <2>1. /\ n \in 1 .. Len(s) + Len(v) /\ ~ (n <= Len(s)) /\ n - Len(s) = Len(u) + i
          /\ Len(u) + i \in 1 .. Len(u) + Len(t) /\ ~ (Len(u) + i <= Len(u)) /\ (Len(u) + i) - Len(u) = i
      BY <1>1, <1>3
    <2> QED BY <1>1, <1>2, <2>1
  <1>7. Len(w) = Len(s) + Len(u) + Len(t)
    BY <1>1, <1>2, <1>3
  <1>8. Around(w, s, u, t)
    BY <1>4, <1>5, <1>6, <1>7 DEF Around
  <1> QED BY <1>2, <1>8 DEF v, w

LEMMA JoinedIs ==
  ASSUME NEW S, NEW texts \in Seq(Seq(S)), texts # <<>>, NEW separator \in Seq(S)
  PROVE  \E f : Joins(f, S, texts, separator) /\ Joined(texts, separator) = f[1]
  <1> DEFINE L == Len(texts)
             from[i \in DOMAIN texts] == texts[i] \o (IF i = Len(texts) THEN <<>> ELSE separator \o from[i + 1])
  <1>1. L \in Nat \ {0} /\ DOMAIN texts = 1 .. L /\ \A i \in 1 .. L : texts[i] \in Seq(S)
    BY EmptySeq, LenProperties, ElementOfSeq
  <1>0. \A i \in 1 .. L : i # L => i \in 1 .. L - 1
    <2>1. L \in Nat
      BY <1>1
    <2> HIDE DEF L
    <2> QED BY <2>1
  <1>2. PICK f : Joins(f, S, texts, separator)
    BY RestsExist
  <1>3. f = [i \in DOMAIN texts |-> texts[i] \o (IF i = Len(texts) THEN <<>> ELSE separator \o f[i + 1])]
    <2>1. f = [i \in 1 .. L |-> f[i]]
      BY <1>2 DEF Joins
    <2>2. ASSUME NEW i \in 1 .. L
          PROVE  f[i] = texts[i] \o (IF i = Len(texts) THEN <<>> ELSE separator \o f[i + 1])
      <3>1. CASE i = L
        <4>1. texts[i] \o <<>> = texts[i]
          BY <1>1, ConcatEmptySeq
        <4> QED BY <1>2, <3>1, <4>1 DEF Joins
      <3>2. CASE i # L
        <4>1. i \in 1 .. L - 1
          BY <1>0, <3>2
        <4> QED BY <1>2, <3>2, <4>1 DEF Joins
      <3> QED BY <3>1, <3>2
    <2> QED BY <1>1, <2>1, <2>2
  <1>4. from = [i \in DOMAIN texts |-> texts[i] \o (IF i = Len(texts) THEN <<>> ELSE separator \o from[i + 1])]
    BY <1>3
  <1>5. Joined(texts, separator) = from[1]
    BY DEF Joined
  <1> HIDE DEF from
  <1>6. \A i \in 1 .. L - 1 : from[i] = texts[i] \o (separator \o from[i + 1])
    <2>1. ASSUME NEW i \in 1 .. L - 1 PROVE i \in DOMAIN texts /\ i # L
      <3>1. L \in Nat /\ DOMAIN texts = 1 .. L
        BY <1>1
      <3> HIDE DEF L
      <3> QED BY <3>1
    <2> QED BY <1>4, <2>1
  <1>7. from[L] = texts[L]
    <2>1. from[L] = texts[L] \o <<>>
      BY <1>1, <1>4
    <2> QED BY <1>1, <2>1, ConcatEmptySeq
  <1>8. \A i \in 1 .. L : from[i] \in Seq(S)
    <2> DEFINE Bad == {i \in 1 .. L : from[i] \notin Seq(S)}
    <2>1. SUFFICES ASSUME Bad # {} PROVE FALSE
      OBVIOUS
    <2>2. PICK k \in Bad : \A j \in Bad : j <= k
      <3>1. Bad \in SUBSET (1 .. L) /\ L \in Nat
        BY <1>1
      <3> HIDE DEF Bad, L
      <3> QED BY <2>1, <3>1, MaxIsGreatest
    <2>3. k # L
      BY <1>1, <1>7
    <2>4. k \in 1 .. L - 1 /\ k + 1 \in 1 .. L /\ ~ (k + 1 \in Bad)
      <3>1. k \in 1 .. L - 1
        BY <1>0, <2>2, <2>3
      <3>2. L \in Nat
        BY <1>1
      <3> HIDE DEF Bad, L
      <3> QED BY <2>2, <3>1, <3>2
    <2>5. from[k + 1] \in Seq(S) /\ texts[k] \in Seq(S)
      BY <1>1, <2>4
    <2>6. texts[k] \o (separator \o from[k + 1]) \in Seq(S)
      BY <2>5, BetweenIs
    <2> QED BY <1>6, <2>4, <2>6
  <1>9. from \in [1 .. L -> Seq(S)]
    BY <1>1, <1>4, <1>8
  <1> QED BY <1>5, <1>6, <1>7, <1>9 DEF Joins

\* A list that ends with the elements of another, and a number that follows another.
EndsWith(a, b) == Len(a) >= Len(b) /\ \A i \in 1 .. Len(b) : a[(Len(a) - Len(b)) + i] = b[i]
Follows(i, j)  == j = i + 1
Splits(t, l, r) == t = l \o (<<"/">> \o r)

\* The rests of two lists that end alike.
LEMMA RestsAgree ==
  ASSUME NEW S, NEW a \in Seq(Seq(S)), NEW b \in Seq(Seq(S)), b # <<>>, NEW separator, EndsWith(a, b),
         NEW f, Joins(f, S, a, separator), NEW g, Joins(g, S, b, separator)
  PROVE  \A i \in 1 .. Len(b) : f[(Len(a) - Len(b)) + i] = g[i]
  <1> DEFINE L == Len(b)
             k == Len(a) - Len(b)
             Bad == {i \in 1 .. L : f[k + i] # g[i]}
  <1>1. SUFFICES ASSUME Bad # {} PROVE FALSE
    OBVIOUS
  <1>2. L \in Nat \ {0} /\ k \in Nat /\ Len(a) = k + L /\ L = Len(b)
    BY EmptySeq DEF EndsWith
  <1>5. \A i \in 1 .. L : a[k + i] = b[i]
    BY DEF EndsWith
  <1>f. f[Len(a)] = a[Len(a)] /\ \A i \in 1 .. Len(a) - 1 : f[i] = a[i] \o (separator \o f[i + 1])
    BY DEF Joins
  <1>g. g[Len(b)] = b[Len(b)] /\ \A i \in 1 .. Len(b) - 1 : g[i] = b[i] \o (separator \o g[i + 1])
    BY DEF Joins
  <1> HIDE DEF L, k
  <1>3. f[k + L] = g[L]
    <2>1. L \in 1 .. L
      BY <1>2
    <2>2. a[k + L] = b[L]
      BY <1>5, <2>1
    <2> QED BY <1>2, <1>f, <1>g, <2>2
  <1>4. \A i \in 1 .. L - 1 : f[k + i] = a[k + i] \o (separator \o f[(k + i) + 1]) /\ g[i] = b[i] \o (separator \o g[i + 1])
    <2>1. ASSUME NEW i \in 1 .. L - 1 PROVE k + i \in 1 .. Len(a) - 1
      BY <1>2
    <2> QED BY <1>2, <1>f, <1>g, <2>1
  <1>6. PICK i \in Bad : \A j \in Bad : j <= i
    <2>1. Bad \in SUBSET (1 .. L) /\ L \in Nat
      BY <1>2
    <2> HIDE DEF Bad
    <2> QED BY <1>1, <2>1, MaxIsGreatest
  <1>7. i \in 1 .. L - 1 /\ i + 1 \in 1 .. L
    <2>1. i \in 1 .. L /\ i # L
      BY <1>3, <1>6
    <2> QED BY <1>2, <2>1
  <1>8. ~ (i + 1 \in Bad)
    <2> HIDE DEF Bad
    <2> QED BY <1>6, <1>7
  <1>9. f[k + (i + 1)] = g[i + 1] /\ k + (i + 1) = (k + i) + 1
    BY <1>2, <1>7, <1>8
  <1>10. f[k + i] = g[i]
    <2>1. /\ f[k + i] = a[k + i] \o (separator \o f[(k + i) + 1])
          /\ g[i] = b[i] \o (separator \o g[i + 1])
      BY <1>4, <1>7
    <2>2. a[k + i] = b[i] /\ f[(k + i) + 1] = g[i + 1]
      BY <1>2, <1>5, <1>7, <1>9
    <2> QED BY <2>1, <2>2
  <1> QED BY <1>6, <1>10

Slash == <<"/">>

LEMMA SlashIs == Slash \in Seq(Chars) /\ Len(Slash) = 1 /\ Slash[1] = "/"
  <1>1. "/" \in Chars
    BY CharsAssumption
  <1>2. <<"/">> \in Seq(Chars) /\ Len(<<"/">>) = 1 /\ <<"/">>[1] = "/"
    BY <1>1
  <1> QED BY <1>2 DEF Slash

LEMMA SlashBetween ==
  ASSUME NEW l \in Seq(Chars), NEW r \in Seq(Chars)
  PROVE  /\ l \o (Slash \o r) \in Seq(Chars) /\ Len(l \o (Slash \o r)) = Len(l) + 1 + Len(r)
         /\ \A i \in 1 .. Len(l) : (l \o (Slash \o r))[i] = l[i]
         /\ (l \o (Slash \o r))[Len(l) + 1] = "/"
         /\ \A i \in 1 .. Len(r) : (l \o (Slash \o r))[Len(l) + 1 + i] = r[i]
  <1>1. Slash \in Seq(Chars)
    BY SlashIs
  <1> DEFINE t == l \o (Slash \o r)
  <1>2. t \in Seq(Chars) /\ Around(t, l, Slash, r)
    BY <1>1, BetweenIs
  <1> HIDE DEF t
  <1>3. Len(Slash) = 1 /\ Slash[1] = "/" /\ 1 \in 1 .. 1
    BY SlashIs
  <1>4. /\ t \in Seq(Chars) /\ Len(t) = Len(l) + 1 + Len(r)
        /\ \A i \in 1 .. Len(l) : t[i] = l[i]
        /\ t[Len(l) + 1] = "/"
        /\ \A i \in 1 .. Len(r) : t[Len(l) + 1 + i] = r[i]
    BY <1>2, <1>3 DEF Around
  <1> QED BY <1>4 DEF t

LEMMA LevelIs ==
  ASSUME NEW l \in Level
  PROVE  l \in Seq(Chars) /\ \A i \in 1 .. Len(l) : l[i] # "/"
  <1>1. l \in Seq(Chars \ {"/"}) /\ Chars \ {"/"} \subseteq Chars
    BY DEF Level
  <1>2. \A i \in 1 .. Len(l) : l[i] \in Chars \ {"/"}
    BY <1>1, ElementOfSeq
  <1> QED BY <1>1, <1>2, SeqMonotonic

\* The first slash is where the first level ends.
LEMMA LevelSplits ==
  ASSUME NEW l \in Level, NEW m \in Level, NEW r \in Seq(Chars), NEW q \in Seq(Chars),
         l \o (Slash \o r) = m \o (Slash \o q)
  PROVE  l = m /\ r = q
  <1> DEFINE t == l \o (Slash \o r)
  <1>1. /\ l \in Seq(Chars) /\ m \in Seq(Chars) /\ Slash \in Seq(Chars) /\ Len(Slash) = 1 /\ Slash[1] = "/"
        /\ \A i \in 1 .. Len(l) : l[i] # "/"
        /\ \A i \in 1 .. Len(m) : m[i] # "/"
    BY LevelIs, SlashIs
  <1>2. /\ Len(t) = Len(l) + 1 + Len(r)
        /\ \A i \in 1 .. Len(l) : t[i] = l[i]
        /\ t[Len(l) + 1] = "/"
        /\ \A i \in 1 .. Len(r) : t[Len(l) + 1 + i] = r[i]
    BY <1>1, SlashBetween
  <1>3. /\ Len(t) = Len(m) + 1 + Len(q)
        /\ \A i \in 1 .. Len(m) : t[i] = m[i]
        /\ t[Len(m) + 1] = "/"
        /\ \A i \in 1 .. Len(q) : t[Len(m) + 1 + i] = q[i]
    <2>1. /\ Len(m \o (Slash \o q)) = Len(m) + 1 + Len(q)
          /\ \A i \in 1 .. Len(m) : (m \o (Slash \o q))[i] = m[i]
          /\ (m \o (Slash \o q))[Len(m) + 1] = "/"
          /\ \A i \in 1 .. Len(q) : (m \o (Slash \o q))[Len(m) + 1 + i] = q[i]
      BY <1>1, SlashBetween
    <2>2. t = m \o (Slash \o q)
      OBVIOUS
    <2> HIDE DEF t
    <2> QED BY <2>1, <2>2
  <1> HIDE DEF t
  <1>4. Len(l) \in Nat /\ Len(m) \in Nat /\ Len(r) \in Nat /\ Len(q) \in Nat
    BY <1>1
  <1>5. ~ (Len(l) < Len(m))
    <2>1. Len(l) < Len(m) => Len(l) + 1 \in 1 .. Len(m)
      BY <1>4
    <2> QED BY <1>1, <1>2, <1>3, <2>1
  <1>6. ~ (Len(m) < Len(l))
    <2>1. Len(m) < Len(l) => Len(m) + 1 \in 1 .. Len(l)
      BY <1>4
    <2> QED BY <1>1, <1>2, <1>3, <2>1
  <1>7. Len(l) = Len(m)
    BY <1>4, <1>5, <1>6
  <1>8. Len(r) = Len(q)
    BY <1>2, <1>3, <1>4, <1>7
  <1>9. l = m
    BY <1>1, <1>2, <1>3, <1>7, SeqEqual
  <1>10. r = q
    <2>1. \A i \in 1 .. Len(r) : r[i] = q[i]
      BY <1>2, <1>3, <1>7, <1>8
    <2> QED BY <1>8, <2>1, SeqEqual
  <1> QED BY <1>9, <1>10

Parts(t) == CHOOSE p \in Level \X Seq(Chars) : t = p[1] \o (Slash \o p[2])

LEMMA PartsAre ==
  ASSUME NEW l \in Level, NEW r \in Seq(Chars)
  PROVE  Parts(l \o (Slash \o r)) = <<l, r>>
  <1> DEFINE p == Parts(l \o (Slash \o r))
  <1>1. <<l, r>> \in Level \X Seq(Chars) /\ l \o (Slash \o r) = <<l, r>>[1] \o (Slash \o <<l, r>>[2])
    OBVIOUS
  <1>2. p \in Level \X Seq(Chars) /\ l \o (Slash \o r) = p[1] \o (Slash \o p[2])
    BY <1>1 DEF Parts
  <1> HIDE DEF p
  <1>3. PICK m \in Level, q \in Seq(Chars) : p = <<m, q>>
    BY <1>2
  <1>4. l \o (Slash \o r) = m \o (Slash \o q)
    BY <1>2, <1>3
  <1>5. l = m /\ r = q
    BY <1>4, LevelSplits
  <1> QED BY <1>3, <1>5 DEF p

LEMMA LevelIsWhole ==
  ASSUME NEW l \in Level, NEW m \in Level, NEW r \in Seq(Chars)
  PROVE  l \o (Slash \o r) # m
  <1>1. /\ l \in Seq(Chars) /\ Slash \in Seq(Chars) /\ Len(Slash) = 1 /\ Slash[1] = "/"
        /\ \A i \in 1 .. Len(m) : m[i] # "/"
    BY LevelIs, SlashIs
  <1>2. Len(l \o (Slash \o r)) = Len(l) + 1 + Len(r) /\ (l \o (Slash \o r))[Len(l) + 1] = "/"
    BY <1>1, SlashBetween
  <1>3. Len(l) + 1 \in 1 .. Len(l) + 1 + Len(r)
    BY <1>1
  <1> QED BY <1>1, <1>2, <1>3

\* A list is the same as another from place k on.
Agree(a, b, k) == Len(a) = k + Len(b) /\ \A i \in 1 .. Len(b) : a[k + i] = b[i]

\* A topic has one list of levels only: the rest of one that reads like another is it.
LEMMA LevelsOfText ==
  ASSUME NEW a \in Seq(Level), NEW b \in Seq(Level), b # <<>>, NEW k \in Nat, k < Len(a),
         NEW f, Joins(f, Chars, a, Slash), NEW g, Joins(g, Chars, b, Slash), NEW n, Follows(k, n), f[n] = g[1]
  PROVE  Agree(a, b, k)
  <1> DEFINE L == Len(b)
             N == Len(a)
             Good(i) == k + i <= N /\ f[k + i] = g[i]
             Bad == {i \in 1 .. L : ~ Good(i)}
  <1>1. L \in Nat \ {0} /\ N \in Nat /\ (\A i \in 1 .. N : a[i] \in Level) /\ (\A i \in 1 .. L : b[i] \in Level)
    BY EmptySeq, ElementOfSeq
  <1>2. /\ \A i \in 1 .. N : f[i] \in Seq(Chars)
        /\ \A i \in 1 .. L : g[i] \in Seq(Chars)
        /\ f[N] = a[N] /\ g[L] = b[L]
        /\ \A i \in 1 .. N - 1 : f[i] = a[i] \o (Slash \o f[i + 1])
        /\ \A i \in 1 .. L - 1 : g[i] = b[i] \o (Slash \o g[i + 1])
    BY DEF Joins
  <1>0. f[k + 1] = g[1]
    BY DEF Follows
  <1>3. k + 1 <= N
    BY <1>1
  <1> HIDE DEF L, N
  <1>4. ASSUME NEW i \in 1 .. L, Good(i)
        PROVE  /\ i = L => k + i = N /\ a[k + i] = b[i]
               /\ i # L => i + 1 \in 1 .. L /\ Good(i + 1) /\ a[k + i] = b[i]
    <2>1. k + i \in 1 .. N
      BY <1>1, <1>4
    <2>2. a[k + i] \in Level /\ b[i] \in Level
      BY <1>1, <2>1
    <2>3. CASE i = L /\ k + i = N
      BY <1>2, <1>4, <2>3
    <2>4. CASE i = L /\ k + i # N
      <3>1. k + i \in 1 .. N - 1 /\ (k + i) + 1 \in 1 .. N
        BY <1>1, <2>1, <2>4
      <3>2. f[k + i] = a[k + i] \o (Slash \o f[(k + i) + 1]) /\ f[(k + i) + 1] \in Seq(Chars)
        BY <1>2, <3>1
      <3>3. a[k + i] \o (Slash \o f[(k + i) + 1]) = b[i]
        BY <1>2, <1>4, <2>4, <3>2
      <3>4. FALSE
        BY <2>2, <3>2, <3>3, LevelIsWhole
      <3> QED BY <3>4
    <2>5. CASE i # L /\ k + i = N
      <3>1. i \in 1 .. L - 1 /\ i + 1 \in 1 .. L
        BY <1>1, <2>5
      <3>2. g[i] = b[i] \o (Slash \o g[i + 1]) /\ g[i + 1] \in Seq(Chars)
        BY <1>2, <3>1
      <3> QED BY <1>2, <1>4, <2>2, <2>5, <3>2, LevelIsWhole
    <2>6. CASE i # L /\ k + i # N
      <3>1. i \in 1 .. L - 1 /\ i + 1 \in 1 .. L
        BY <1>1, <2>6
      <3>2. k + i \in 1 .. N - 1 /\ (k + i) + 1 \in 1 .. N
        BY <1>1, <2>1, <2>6
      <3>3. g[i] = b[i] \o (Slash \o g[i + 1]) /\ g[i + 1] \in Seq(Chars)
        BY <1>2, <3>1
      <3>4. f[k + i] = a[k + i] \o (Slash \o f[(k + i) + 1]) /\ f[(k + i) + 1] \in Seq(Chars)
        BY <1>2, <3>2
      <3>5. a[k + i] = b[i] /\ f[(k + i) + 1] = g[i + 1]
        <4>1. a[k + i] \o (Slash \o f[(k + i) + 1]) = b[i] \o (Slash \o g[i + 1])
          BY <1>4, <3>3, <3>4
        <4>2. Parts(a[k + i] \o (Slash \o f[(k + i) + 1])) = <<a[k + i], f[(k + i) + 1]>>
          BY <2>2, <3>4, PartsAre
        <4>3. Parts(b[i] \o (Slash \o g[i + 1])) = <<b[i], g[i + 1]>>
          BY <2>2, <3>3, PartsAre
        <4>4. <<a[k + i], f[(k + i) + 1]>> = <<b[i], g[i + 1]>>
          BY <4>1, <4>2, <4>3
        <4> QED BY <4>4
      <3>6. (k + i) + 1 = k + (i + 1) /\ k + (i + 1) <= N
        BY <1>1, <3>2
      <3> QED BY <2>6, <3>1, <3>5, <3>6
    <2> QED BY <2>3, <2>4, <2>5, <2>6
  <1>5. \A i \in 1 .. L : Good(i)
    <2>1. SUFFICES ASSUME Bad # {} PROVE FALSE
      OBVIOUS
    <2>2. PICK i \in Bad : \A j \in Bad : i <= j
      <3>1. Bad \in SUBSET Nat
        BY <1>1
      <3> HIDE DEF Bad
      <3> QED BY <2>1, <3>1, LeastOf
    <2>3. i # 1
      BY <1>0, <1>3, <2>2
    <2>4. i - 1 \in 1 .. L /\ i - 1 # L /\ (i - 1) + 1 = i
      <3>1. i \in 1 .. L
        BY <2>2
      <3> QED BY <1>1, <2>3, <3>1
    <2>5. ~ (i - 1 \in Bad)
      <3>1. ~ (i <= i - 1)
        BY <2>4, <1>1
      <3> HIDE DEF Bad
      <3> QED BY <2>2, <3>1
    <2>6. Good(i - 1)
      BY <2>4, <2>5
    <2> HIDE DEF Good
    <2>7. Good((i - 1) + 1)
      BY <1>4, <2>4, <2>6
    <2> QED BY <2>2, <2>4, <2>7
  <1>6. \A i \in 1 .. L : a[k + i] = b[i]
    <2> HIDE DEF Good
    <2> QED BY <1>4, <1>5
  <1>7. N = k + L
    <2>1. L \in 1 .. L
      BY <1>1
    <2> HIDE DEF Good
    <2> QED BY <1>4, <1>5, <2>1
  <1> QED BY <1>6, <1>7 DEF L, N, Agree

-------------------------------------------------------------------------------
(* Metric requests *)

\* A topic of two levels and an identifier.
Under(first, second, id) == <<first>> \o (Slash \o (<<second>> \o (Slash \o id)))
MetricTopic(m, id)       == Under("Metrics", m, id)

\* What its characters are.
ReadsUnder(t, first, second, id) ==
  /\ t \in Seq(Chars) /\ Len(t) = 4 + Len(id)
  /\ t[1] = first /\ t[2] = "/" /\ t[3] = second /\ t[4] = "/"
  /\ \A i \in 1 .. Len(id) : t[4 + i] = id[i]

LEMMA UnderIs ==
  ASSUME NEW first \in Chars, NEW second \in Chars, NEW id \in Seq(Chars)
  PROVE  ReadsUnder(Under(first, second, id), first, second, id)
  <1> DEFINE t == Under(first, second, id)
             u == <<second>> \o (Slash \o id)
             one == <<first>>
             two == <<second>>
  <1>1. first \in Chars /\ second \in Chars
    OBVIOUS
  <1>2. /\ one \in Seq(Chars) /\ Len(one) = 1 /\ one[1] = first
        /\ two \in Seq(Chars) /\ Len(two) = 1 /\ two[1] = second
    BY <1>1
  <1>3. t = one \o (Slash \o u) /\ u = two \o (Slash \o id)
    BY DEF Under
  <1> HIDE DEF one, two, u, t
  <1>4. /\ two \o (Slash \o id) \in Seq(Chars) /\ Len(two \o (Slash \o id)) = Len(two) + 1 + Len(id)
        /\ \A i \in 1 .. Len(two) : (two \o (Slash \o id))[i] = two[i]
        /\ (two \o (Slash \o id))[Len(two) + 1] = "/"
        /\ \A i \in 1 .. Len(id) : (two \o (Slash \o id))[Len(two) + 1 + i] = id[i]
    BY <1>2, SlashBetween
  <1>5. /\ u \in Seq(Chars) /\ Len(u) = 2 + Len(id) /\ u[1] = second /\ u[2] = "/"
        /\ \A i \in 1 .. Len(id) : u[2 + i] = id[i]
    <2>1. Len(two) + 1 = 2 /\ 1 \in 1 .. Len(two)
      BY <1>2
    <2> QED BY <1>2, <1>3, <1>4, <2>1
  <1>6. /\ one \o (Slash \o u) \in Seq(Chars) /\ Len(one \o (Slash \o u)) = Len(one) + 1 + Len(u)
        /\ \A i \in 1 .. Len(one) : (one \o (Slash \o u))[i] = one[i]
        /\ (one \o (Slash \o u))[Len(one) + 1] = "/"
        /\ \A i \in 1 .. Len(u) : (one \o (Slash \o u))[Len(one) + 1 + i] = u[i]
    BY <1>2, <1>5, SlashBetween
  <1>7. /\ t \in Seq(Chars) /\ Len(t) = 2 + Len(u) /\ t[1] = first /\ t[2] = "/"
        /\ \A i \in 1 .. Len(u) : t[2 + i] = u[i]
    <2>1. Len(one) + 1 = 2 /\ 1 \in 1 .. Len(one)
      BY <1>2
    <2>2. t = one \o (Slash \o u)
      BY <1>3
    <2>3. /\ t \in Seq(Chars) /\ Len(t) = Len(one) + 1 + Len(u)
          /\ \A i \in 1 .. Len(one) : t[i] = one[i]
          /\ t[Len(one) + 1] = "/"
          /\ \A i \in 1 .. Len(u) : t[Len(one) + 1 + i] = u[i]
      BY <1>6, <2>2
    <2>4. t[1] = one[1]
      BY <2>1, <2>3
    <2> QED BY <1>2, <2>1, <2>3, <2>4
  <1>8. Len(id) \in Nat
    OBVIOUS
  <1>9. t[3] = second /\ t[4] = "/"
    <2>1. 1 \in 1 .. Len(u) /\ 2 \in 1 .. Len(u)
      BY <1>5, <1>8
    <2>2. t[2 + 1] = u[1] /\ t[2 + 2] = u[2]
      BY <1>7, <2>1
    <2> QED BY <1>5, <2>2
  <1>10. ASSUME NEW i \in 1 .. Len(id) PROVE t[4 + i] = id[i]
    <2>1. 2 + i \in 1 .. Len(u) /\ 2 + (2 + i) = 4 + i
      BY <1>5, <1>8
    <2>2. t[4 + i] = u[2 + i]
      BY <1>7, <2>1
    <2> QED BY <1>5, <2>2
  <1> QED BY <1>5, <1>7, <1>8, <1>9, <1>10 DEF t, ReadsUnder

LEMMA MetricTopicIs ==
  ASSUME NEW m \in Metrics, NEW id \in Seq(Chars), NEW t, t = MetricTopic(m, id)
  PROVE  /\ t \in Seq(Chars) /\ Len(t) = 4 + Len(id)
         /\ t[1] = "Metrics" /\ t[2] = "/" /\ t[3] = m /\ t[4] = "/"
         /\ \A i \in 1 .. Len(id) : t[4 + i] = id[i]
  <1> DEFINE word == "Metrics"
  <1>1. word \in Chars /\ m \in Chars
    BY CharsAssumption
  <1>2. t = Under(word, m, id)
    BY DEF MetricTopic
  <1> HIDE DEF word
  <1>3. ReadsUnder(t, word, m, id)
    BY <1>1, <1>2, UnderIs
  <1> QED BY <1>3 DEF word, ReadsUnder

\* The prefix that topics of metrics begin with.
LEMMA BeginsMetrics ==
  ASSUME NEW t \in Seq(Chars), Len(t) > 2
  PROVE  IsPrefix(<<"Metrics", "/">>, t) <=> t[1] = "Metrics" /\ t[2] = "/"
  <1> DEFINE p == <<"Metrics", "/">>
             u == SubSeq(t, 1, 2)
  <1>1. p \in Seq({"Metrics", "/"}) /\ Len(p) = 2 /\ p[1] = "Metrics" /\ p[2] = "/"
    OBVIOUS
  <1>2. 1 \in 1 .. Len(t) + 1 /\ 2 \in 1 - 1 .. Len(t) /\ Len(t) \in Nat
    OBVIOUS
  <1>3. u \in Seq(Chars) /\ Len(u) = 2 - 1 + 1 /\ \A k \in 1 .. 2 - 1 + 1 : u[k] = t[1 + k - 1]
    BY <1>2, PartIs
  <1> HIDE DEF p, u
  <1>4. Len(u) = 2 /\ u[1] = t[1] /\ u[2] = t[2]
    BY <1>3
  <1>5. SubSeq(p, 1, Len(p)) = p
    BY <1>1, SubSeqFull
  <1>6. p = u <=> t[1] = "Metrics" /\ t[2] = "/"
    <2>1. CASE t[1] = "Metrics" /\ t[2] = "/"
      <3>1. u \in Seq(Chars \cup {"Metrics", "/"}) /\ p \in Seq(Chars \cup {"Metrics", "/"})
        BY <1>1, <1>3, SeqMonotonic
      <3>2. \A i \in 1 .. Len(p) : p[i] = u[i]
        BY <1>1, <1>4, <2>1
      <3>3. p = u
        BY <1>1, <1>4, <3>1, <3>2, SeqEqual
      <3> QED BY <2>1, <3>3
    <2>2. CASE ~ (t[1] = "Metrics" /\ t[2] = "/")
      BY <1>1, <1>4, <2>2
    <2> QED BY <2>1, <2>2
  <1>7. IsPrefix(p, t) <=> p = u
    BY <1>1, <1>2, <1>5 DEF IsPrefix, u
  <1> QED BY <1>6, <1>7 DEF p

\* parse_metrics_topic takes this topic, for this device, and no other.
LEMMA ParsesMetrics ==
  ASSUME NEW m \in Metrics, NEW t \in Seq(Chars), NEW id \in Seq(Chars), id # <<>>
  PROVE  parse_metrics_topic(t, id) = <<m>> <=> t = MetricTopic(m, id)
  <1> DEFINE slash  == Strchr(t, 3, "/")
             metric == SubSeq(t, 3, slash - 1)
             dev    == SubSeq(t, slash + 1, Len(t))
  <1>1. parse_metrics_topic(t, id)
          = IF /\ Len(t) > 2 + 2 /\ IsPrefix(<<"Metrics", "/">>, t)
               /\ slash # 0 /\ metric # <<>> /\ dev # <<>>
               /\ dev = id /\ Len(metric) < MaxMetric
            THEN metric ELSE <<>>
    BY DEF parse_metrics_topic
  <1>2. MaxMetric \in Nat /\ 1 < MaxMetric
    BY SizesAssumption, MetricsAssumption
  <1>3. <<m>> # <<>> /\ Len(<<m>>) = 1 /\ <<m>>[1] = m /\ m # "/"
    BY DEF Metrics
  <1>4. Len(t) \in Nat /\ Len(id) \in Nat /\ Len(id) >= 1
    BY EmptySeq
  <1>5. ASSUME Len(t) > 4
        PROVE  /\ slash = 0 \/ slash \in 3 .. Len(t)
               /\ slash # 0 => t[slash] = "/" /\ \A i \in 3 .. slash - 1 : t[i] # "/"
    <2>1. 3 \in 1 .. Len(t) + 1
      BY <1>4, <1>5
    <2> QED BY <2>1, StrchrFinds
  <1>6. ASSUME t = MetricTopic(m, id) PROVE parse_metrics_topic(t, id) = <<m>>
    <2>1. /\ Len(t) = 4 + Len(id)
          /\ t[1] = "Metrics" /\ t[2] = "/" /\ t[3] = m /\ t[4] = "/"
          /\ \A i \in 1 .. Len(id) : t[4 + i] = id[i]
      BY <1>6, MetricTopicIs
    <2>2. slash = 4
      <3>1. 3 \in 1 .. Len(t) + 1 /\ 4 \in 3 .. Len(t) /\ \A i \in 3 .. 4 - 1 : t[i] # "/"
        BY <1>3, <1>4, <2>1
      <3> QED BY <2>1, <3>1, StrchrIs
    <2>3. metric = <<m>>
      <3> DEFINE u == SubSeq(t, 3, 3)
                 v == <<m>>
      <3>1. 3 \in 1 .. Len(t) + 1 /\ 3 \in 3 - 1 .. Len(t)
        BY <1>4, <2>1
      <3>2. u \in Seq(Chars) /\ Len(u) = 3 - 3 + 1 /\ \A k \in 1 .. 3 - 3 + 1 : u[k] = t[3 + k - 1]
        BY <3>1, PartIs
      <3>3. m \in Chars
        BY CharsAssumption
      <3>4. v \in Seq(Chars) /\ Len(v) = 1 /\ v[1] = m
        BY <3>3
      <3> HIDE DEF u, v
      <3>5. Len(u) = 1 /\ u[1] = m
        BY <2>1, <3>2
      <3>6. \A k \in 1 .. Len(u) : u[k] = v[k]
        BY <3>4, <3>5
      <3>7. u = v
        BY <3>2, <3>4, <3>5, <3>6, SeqEqual
      <3>8. metric = SubSeq(t, 3, 3)
        BY <2>2
      <3> QED BY <3>7, <3>8 DEF u, v
    <2>4. dev = id
      <3> DEFINE u == SubSeq(t, 5, Len(t))
      <3>1. 5 \in 1 .. Len(t) + 1
        BY <1>4, <2>1
      <3>2. u \in Seq(Chars) /\ Len(u) = Len(t) - 5 + 1 /\ \A k \in 1 .. Len(t) - 5 + 1 : u[k] = t[5 + k - 1]
        BY <3>1, RestIs
      <3> HIDE DEF u
      <3>3. Len(u) = Len(id)
        BY <1>4, <2>1, <3>2
      <3>4. ASSUME NEW k \in 1 .. Len(id) PROVE u[k] = id[k]
        <4>1. k \in 1 .. Len(t) - 5 + 1 /\ 5 + k - 1 = 4 + k
          BY <1>4, <2>1
        <4> QED BY <2>1, <3>2, <4>1
      <3>5. u = id
        BY <3>2, <3>3, <3>4, SeqEqual
      <3>6. dev = SubSeq(t, 5, Len(t))
        BY <2>2
      <3> QED BY <3>5, <3>6 DEF u
    <2>5. Len(t) > 2 + 2 /\ IsPrefix(<<"Metrics", "/">>, t)
      <3>1. Len(t) > 2 /\ Len(t) > 2 + 2
        BY <1>4, <2>1
      <3> QED BY <2>1, <3>1, BeginsMetrics
    <2> HIDE DEF slash, metric, dev
    <2> QED BY <1>1, <1>2, <1>3, <2>2, <2>3, <2>4, <2>5
  <1>7. ASSUME parse_metrics_topic(t, id) = <<m>> PROVE t = MetricTopic(m, id)
    <2>1. /\ Len(t) > 4 /\ IsPrefix(<<"Metrics", "/">>, t) /\ slash # 0 /\ dev = id /\ metric = <<m>>
      <3> HIDE DEF slash, metric, dev
      <3>1. 2 + 2 = 4
        OBVIOUS
      <3> QED BY <1>1, <1>3, <1>7, <3>1
    <2>2. t[1] = "Metrics" /\ t[2] = "/"
      <3>1. Len(t) > 2
        BY <1>4, <2>1
      <3> QED BY <2>1, <3>1, BeginsMetrics
    <2>3. slash \in 3 .. Len(t) /\ t[slash] = "/"
      BY <1>5, <2>1
    <2>4. Len(metric) = slash - 3 /\ (slash > 3 => metric[1] = t[3])
      <3>1. 3 \in 1 .. Len(t) + 1 /\ slash - 1 \in 3 - 1 .. Len(t)
        BY <1>4, <2>3
      <3> HIDE DEF slash
      <3>2. Len(metric) = (slash - 1) - 3 + 1 /\ \A k \in 1 .. (slash - 1) - 3 + 1 : metric[k] = t[3 + k - 1]
        BY <3>1, PartIs
      <3> HIDE DEF metric
      <3>3. slash > 3 => metric[1] = t[3]
        <4>1. slash > 3 => 1 \in 1 .. (slash - 1) - 3 + 1
          BY <1>4, <2>3
        <4> QED BY <3>2, <4>1
      <3> QED BY <1>4, <2>3, <3>2, <3>3
    <2>5. slash = 4 /\ t[3] = m /\ t[4] = "/"
      <3> HIDE DEF slash, metric
      <3> QED BY <1>3, <1>4, <2>1, <2>3, <2>4
    <2>6. Len(id) = Len(t) - 4 /\ \A i \in 1 .. Len(id) : id[i] = t[4 + i]
      <3>1. dev = SubSeq(t, 5, Len(t))
        BY <2>5
      <3>2. 5 \in 1 .. Len(t) + 1
        BY <1>4, <2>1
      <3>3. /\ Len(SubSeq(t, 5, Len(t))) = Len(t) - 5 + 1
            /\ \A k \in 1 .. Len(t) - 5 + 1 : SubSeq(t, 5, Len(t))[k] = t[5 + k - 1]
        BY <3>2, RestIs
      <3>4. SubSeq(t, 5, Len(t)) = id
        BY <2>1, <3>1
      <3>5. Len(id) = Len(t) - 4
        BY <1>4, <3>3, <3>4
      <3>6. ASSUME NEW i \in 1 .. Len(id) PROVE id[i] = t[4 + i]
        <4>1. i \in 1 .. Len(t) - 5 + 1 /\ 5 + i - 1 = 4 + i
          BY <1>4, <3>5
        <4> QED BY <3>3, <3>4, <4>1
      <3> QED BY <3>5, <3>6
    <2> HIDE DEF slash, metric, dev
    <2> DEFINE w == MetricTopic(m, id)
    <2>7. /\ w \in Seq(Chars) /\ Len(w) = 4 + Len(id)
          /\ w[1] = "Metrics" /\ w[2] = "/" /\ w[3] = m /\ w[4] = "/"
          /\ \A i \in 1 .. Len(id) : w[4 + i] = id[i]
      BY MetricTopicIs
    <2> HIDE DEF w
    <2>8. Len(w) = Len(t)
      BY <1>4, <2>6, <2>7
    <2>9. ASSUME NEW i \in 1 .. Len(t) PROVE t[i] = w[i]
      <3>1. CASE i \in {1, 2, 3, 4}
        BY <2>2, <2>5, <2>7, <3>1
      <3>2. CASE i \notin {1, 2, 3, 4}
        <4>1. i - 4 \in 1 .. Len(id) /\ 4 + (i - 4) = i
          BY <1>4, <2>6, <3>2
        <4> QED BY <2>6, <2>7, <4>1
      <3> QED BY <3>1, <3>2
    <2>10. t = w
      BY <2>7, <2>8, <2>9, SeqEqual
    <2> QED BY <2>10 DEF w
  <1> QED BY <1>6, <1>7

LEMMA JoinIs ==
  ASSUME NEW levels \in Seq(Level), levels # <<>>
  PROVE  \E f : Joins(f, Chars, levels, Slash) /\ Join(levels) = f[1]
  <1>1. Level \subseteq Seq(Chars)
    BY LevelIs
  <1>2. levels \in Seq(Seq(Chars)) /\ Slash \in Seq(Chars)
    BY <1>1, SlashIs, SeqMonotonic
  <1>3. Join(levels) = Joined(levels, Slash)
    BY DEF Join, Slash
  <1> QED BY <1>2, <1>3, JoinedIs

\* What the rests of a list of levels are.
LEMMA RestsOfLevels ==
  ASSUME NEW levels \in Seq(Level), NEW f, Joins(f, Chars, levels, Slash)
  PROVE  /\ \A i \in 1 .. Len(levels) : levels[i] \in Level /\ f[i] \in Seq(Chars)
         /\ f[Len(levels)] = levels[Len(levels)]
         /\ \A i, j \in 1 .. Len(levels) : Follows(i, j) => f[i] = levels[i] \o (Slash \o f[j])
  <1>1. \A i \in 1 .. Len(levels) : levels[i] \in Level /\ f[i] \in Seq(Chars)
    BY ElementOfSeq DEF Joins
  <1>2. ASSUME NEW i \in 1 .. Len(levels), NEW j \in 1 .. Len(levels), Follows(i, j)
        PROVE  f[i] = levels[i] \o (Slash \o f[j])
    <2>1. i \in 1 .. Len(levels) - 1 /\ f[j] = f[i + 1]
      BY <1>2 DEF Follows
    <2> QED BY <2>1 DEF Joins
  <1> QED BY <1>1, <1>2 DEF Joins

\* Each rest but the last is a level, a slash and the next rest.
Continues(f, levels) ==
  \A i, j \in 1 .. Len(levels) : Follows(i, j) => f[i] = levels[i] \o (Slash \o f[j])

LEMMA RestsContinue ==
  ASSUME NEW levels \in Seq(Level), NEW f, Joins(f, Chars, levels, Slash)
  PROVE  Continues(f, levels)
  BY RestsOfLevels DEF Continues

\* The first level of a text that is made of one, a slash and a rest.
LEMMA FirstLevel ==
  ASSUME NEW levels \in Seq(Level), NEW f, Joins(f, Chars, levels, Slash), NEW i \in 1 .. Len(levels),
         NEW l \in Level, NEW r \in Seq(Chars), Splits(f[i], l, r), NEW j \in Nat, Follows(i, j)
  PROVE  j \in 1 .. Len(levels) /\ levels[i] = l /\ f[j] = r
  <1>1. levels[i] \in Level /\ (i = Len(levels) => f[i] = levels[i])
    BY RestsOfLevels
  <1>0. f[i] = l \o (Slash \o r)
    BY DEF Splits, Slash
  <1>2. i # Len(levels)
    BY <1>0, <1>1, LevelIsWhole
  <1>3. j \in 1 .. Len(levels)
    BY <1>2 DEF Follows
  <1>4. f[j] \in Seq(Chars) /\ f[i] = levels[i] \o (Slash \o f[j])
    BY <1>3, RestsOfLevels
  <1>5. Parts(f[i]) = <<l, r>>
    BY <1>0, PartsAre
  <1>6. Parts(f[i]) = <<levels[i], f[j]>>
    BY <1>1, <1>4, PartsAre
  <1>7. <<l, r>> = <<levels[i], f[j]>>
    BY <1>5, <1>6
  <1> QED BY <1>3, <1>7

LEMMA WordsAreLevels ==
  ASSUME NEW word \in Metrics \cup {"Metrics", "OTA", "update"}
  PROVE  <<word>> \in Level
  <1>1. word \in Chars /\ word # "/"
    BY CharsAssumption DEF Metrics
  <1> QED BY <1>1 DEF Level

LEMMA DevicesAre ==
  ASSUME NEW d \in DeviceIds
  PROVE  d \in Seq(Level) /\ d # <<>> /\ Join(d) \in Seq(Chars) /\ Join(d) # <<>>
  <1>1. d \in Seq(Level) /\ d # <<>> /\ d # <<<<>>>>
    BY TopicsAssumption
  <1>2. PICK g : Joins(g, Chars, d, Slash) /\ Join(d) = g[1]
    BY <1>1, JoinIs
  <1>3. 1 \in 1 .. Len(d) /\ Len(d) \in Nat
    BY <1>1, EmptySeq
  <1>0. /\ \A i \in 1 .. Len(d) : d[i] \in Level /\ g[i] \in Seq(Chars)
        /\ g[Len(d)] = d[Len(d)]
        /\ \A i, j \in 1 .. Len(d) : Follows(i, j) => g[i] = d[i] \o (Slash \o g[j])
    BY <1>1, <1>2, RestsOfLevels
  <1>4. d[1] \in Level /\ g[1] \in Seq(Chars)
    BY <1>0, <1>3
  <1>5. CASE Len(d) = 1
    <2>1. g[1] = d[1]
      BY <1>0, <1>5
    <2>2. d[1] # <<>>
      <3>1. SUFFICES ASSUME d[1] = <<>> PROVE FALSE
        OBVIOUS
      <3> DEFINE e == <<<<>>>>
      <3>2. <<>> \in Level
        BY <1>4, <3>1
      <3>3. e \in Seq(Level) /\ Len(e) = 1 /\ e[1] = <<>>
        BY <3>2
      <3> HIDE DEF e
      <3>4. d = e
        BY <1>1, <1>5, <3>1, <3>3, SeqEqual
      <3> QED BY <1>1, <3>4 DEF e
    <2> QED BY <1>1, <1>2, <1>4, <2>1, <2>2
  <1>6. CASE Len(d) # 1
    <2>0. 2 \in 1 .. Len(d) /\ Follows(1, 2)
      <3> DEFINE n == Len(d)
      <3>1. n \in Nat /\ 1 \in 1 .. n /\ n # 1
        BY <1>3, <1>6
      <3> HIDE DEF n
      <3>2. 2 \in 1 .. n
        BY <3>1
      <3> QED BY <3>2 DEF n, Follows
    <2>1. g[2] \in Seq(Chars) /\ g[1] = d[1] \o (Slash \o g[2])
      BY <1>0, <1>3, <2>0
    <2>2. d[1] \in Seq(Chars)
      BY <1>4, LevelIs
    <2>3. Len(g[1]) = Len(d[1]) + 1 + Len(g[2])
      <3>1. Len(d[1] \o (Slash \o g[2])) = Len(d[1]) + 1 + Len(g[2])
        BY <2>1, <2>2, SlashBetween
      <3> QED BY <2>1, <3>1
    <2>4. Len(g[1]) # 0
      <3>1. Len(d[1]) \in Nat /\ Len(g[2]) \in Nat
        BY <2>1, <2>2, LenProperties
      <3>2. \A x, y \in Nat : x + 1 + y # 0
        OBVIOUS
      <3> QED BY <2>3, <3>1, <3>2
    <2> QED BY <1>1, <1>2, <1>4, <2>4, EmptySeq
  <1> QED BY <1>5, <1>6

\* The broker's rule for the filter of the subscription, and the topic parse_metrics_topic takes.
LEMMA SubscribedIs ==
  ASSUME device \in DeviceIds, NEW levels \in Seq(Level), levels # <<>>, NEW m \in Metrics
  PROVE  Join(levels) = MetricTopic(m, Join(device)) <=> Subscribed(levels) /\ levels[2] = <<m>>
  <1> DEFINE L == Len(levels)
             D == Len(device)
             id == Join(device)
             u == <<m>> \o (Slash \o id)
  <1>1. device \in Seq(Level) /\ device # <<>> /\ id \in Seq(Chars)
    BY DevicesAre
  <1>2. PICK f : Joins(f, Chars, levels, Slash) /\ Join(levels) = f[1]
    BY JoinIs
  <1>3. PICK g : Joins(g, Chars, device, Slash) /\ id = g[1]
    BY <1>1, JoinIs
  <1>4. <<"Metrics">> \in Level /\ <<m>> \in Level
    BY WordsAreLevels
  <1>5. u \in Seq(Chars) /\ MetricTopic(m, id) = <<"Metrics">> \o (Slash \o u)
    BY <1>1, <1>4, LevelIs, SlashBetween DEF MetricTopic, Under
  <1>6. L \in Nat \ {0} /\ D \in Nat \ {0} /\ L = Len(levels) /\ D = Len(device)
    BY <1>1, EmptySeq
  <1> HIDE DEF L, D, id, u
  <1>7. ASSUME f[1] = MetricTopic(m, id) PROVE Subscribed(levels) /\ levels[2] = <<m>>
    <2>1. 1 \in 1 .. L
      BY <1>6
    <2>2. 2 \in 1 .. L /\ levels[1] = <<"Metrics">> /\ f[2] = u
      <3> DEFINE l == <<"Metrics">>
      <3>1. Splits(f[1], l, u) /\ l \in Level
        BY <1>4, <1>5, <1>7 DEF Splits, Slash
      <3>2. 1 \in 1 .. Len(levels) /\ Follows(1, 2) /\ 2 \in Nat
        BY <1>6, <2>1 DEF Follows
      <3> HIDE DEF l
      <3>3. 2 \in 1 .. Len(levels) /\ levels[1] = l /\ f[2] = u
        BY <1>2, <1>5, <3>1, <3>2, FirstLevel
      <3> QED BY <1>6, <3>3 DEF l
    <2>3. 3 \in 1 .. L /\ levels[2] = <<m>> /\ f[3] = id
      <3> DEFINE l == <<m>>
      <3>1. Splits(f[2], l, id) /\ l \in Level
        BY <1>4, <2>2 DEF u, Splits, Slash
      <3>2. 2 \in 1 .. Len(levels) /\ Follows(2, 3) /\ 3 \in Nat
        BY <1>6, <2>2 DEF Follows
      <3> HIDE DEF l
      <3>3. 3 \in 1 .. Len(levels) /\ levels[2] = l /\ f[3] = id
        BY <1>1, <1>2, <3>1, <3>2, FirstLevel
      <3> QED BY <1>6, <3>3 DEF l
    <2>4. L = 2 + D /\ \A i \in 1 .. D : levels[2 + i] = device[i]
      <3>1. 2 \in Nat /\ 2 < Len(levels) /\ Follows(2, 3) /\ f[3] = g[1]
        BY <1>3, <1>6, <2>3 DEF Follows
      <3>2. Agree(levels, device, 2)
        BY <1>1, <1>2, <1>3, <3>1, LevelsOfText
      <3> QED BY <1>6, <3>2 DEF Agree
    <2>5. SubSeq(levels, 3, L) = device
      <3> DEFINE v == SubSeq(levels, 3, L)
      <3>1. 3 \in 1 .. Len(levels) + 1
        BY <1>6, <2>3
      <3>2. v \in Seq(Level) /\ Len(v) = L - 3 + 1 /\ \A k \in 1 .. L - 3 + 1 : v[k] = levels[3 + k - 1]
        BY <1>6, <3>1, RestIs
      <3> HIDE DEF v
      <3>3. Len(v) = D
        BY <1>6, <2>4, <3>2
      <3>4. ASSUME NEW k \in 1 .. D PROVE v[k] = device[k]
        <4>1. k \in 1 .. L - 3 + 1 /\ 3 + k - 1 = 2 + k
          BY <1>6, <2>4
        <4> QED BY <2>4, <3>2, <4>1
      <3>5. v = device
        BY <1>1, <1>6, <3>2, <3>3, <3>4, SeqEqual
      <3> QED BY <3>5 DEF v
    <2> QED BY <1>6, <2>2, <2>3, <2>4, <2>5 DEF Subscribed
  <1>8. ASSUME Subscribed(levels), levels[2] = <<m>> PROVE f[1] = MetricTopic(m, id)
    <2>1. L = 2 + D /\ levels[1] = <<"Metrics">> /\ SubSeq(levels, 3, L) = device
      BY <1>6, <1>8 DEF Subscribed
    <2>2. \A i \in 1 .. D : levels[2 + i] = device[i]
      <3>1. 3 \in 1 .. Len(levels) + 1
        BY <1>6, <2>1
      <3>2. \A k \in 1 .. L - 3 + 1 : SubSeq(levels, 3, L)[k] = levels[3 + k - 1]
        BY <1>6, <3>1, RestIs
      <3>3. ASSUME NEW i \in 1 .. D PROVE levels[2 + i] = device[i]
        <4>1. i \in 1 .. L - 3 + 1 /\ 3 + i - 1 = 2 + i
          BY <1>6, <2>1
        <4> QED BY <2>1, <3>2, <4>1
      <3> QED BY <3>3
    <2>3. f[3] = g[1]
      <3>1. levels \in Seq(Seq(Chars)) /\ device \in Seq(Seq(Chars))
        <4>1. Level \subseteq Seq(Chars)
          BY LevelIs
        <4> QED BY <1>1, <4>1, SeqMonotonic
      <3>2. Len(levels) - Len(device) = 2 /\ EndsWith(levels, device)
        BY <1>6, <2>1, <2>2 DEF EndsWith
      <3>3. \A i \in 1 .. Len(device) : f[(Len(levels) - Len(device)) + i] = g[i]
        BY <1>1, <1>2, <1>3, <3>1, <3>2, RestsAgree
      <3>4. 1 \in 1 .. Len(device)
        BY <1>6
      <3>5. f[2 + 1] = g[1]
        BY <3>2, <3>3, <3>4
      <3> QED BY <3>5
    <2>4. f[2] = <<m>> \o (Slash \o id)
      <3>1. 2 \in 1 .. Len(levels) /\ 3 \in 1 .. Len(levels) /\ Follows(2, 3)
        BY <1>6, <2>1 DEF Follows
      <3>2. f[2] = levels[2] \o (Slash \o f[3])
        BY <1>2, <3>1, RestsOfLevels
      <3> QED BY <1>3, <1>8, <2>3, <3>2
    <2>5. f[1] = <<"Metrics">> \o (Slash \o u)
      <3>1. 1 \in 1 .. Len(levels) /\ 2 \in 1 .. Len(levels) /\ Follows(1, 2)
        BY <1>6, <2>1 DEF Follows
      <3>2. f[1] = levels[1] \o (Slash \o f[2])
        BY <1>2, <3>1, RestsOfLevels
      <3> QED BY <2>1, <2>4, <3>1, <3>2 DEF u
    <2> QED BY <1>5, <2>5
  <1>9. f[1] = MetricTopic(m, id) <=> Subscribed(levels) /\ levels[2] = <<m>>
    BY <1>7, <1>8
  <1> QED BY <1>2, <1>9 DEF id

\* The topic of OTA commands, as topic_matches_device puts it together.
LEMMA OtaTopicIs ==
  ASSUME device \in DeviceIds
  PROVE  /\ OtaTopic \in Seq(Level) /\ OtaTopic # <<>> /\ OtaTopic[1] = <<"OTA">>
         /\ Join(OtaTopic) = <<"OTA", "/", "update", "/">> \o Join(device)
         /\ Join(OtaTopic)[1] = "OTA" /\ Join(OtaTopic) # <<>>
  <1> DEFINE id == Join(device)
             words == <<<<"OTA">>, <<"update">>>>
             levels == words \o device
             t == Under("OTA", "update", id)
             w == <<"OTA", "/", "update", "/">>
             v == w \o id
  <1>1. device \in Seq(Level) /\ device # <<>> /\ id \in Seq(Chars) /\ Len(device) \in Nat \ {0}
    BY DevicesAre, EmptySeq
  <1>2. PICK g : Joins(g, Chars, device, Slash) /\ id = g[1]
    BY <1>1, JoinIs
  <1>3. <<"OTA">> \in Level /\ <<"update">> \in Level
    BY WordsAreLevels
  <1>4. words \in Seq(Level) /\ Len(words) = 2 /\ words[1] = <<"OTA">> /\ words[2] = <<"update">>
    BY <1>3
  <1>5. OtaTopic = levels
    BY DEF OtaTopic
  <1> HIDE DEF words
  <1>6. /\ levels \in Seq(Level) /\ Len(levels) = 2 + Len(device)
        /\ levels[1] = <<"OTA">> /\ levels[2] = <<"update">>
        /\ \A i \in 1 .. Len(device) : levels[2 + i] = device[i]
    <2>1. /\ levels \in Seq(Level) /\ Len(levels) = 2 + Len(device)
          /\ \A i \in 1 .. 2 + Len(device) : levels[i] = IF i <= 2 THEN words[i] ELSE device[i - 2]
      <3>1. /\ words \o device \in Seq(Level) /\ Len(words \o device) = Len(words) + Len(device)
            /\ \A i \in 1 .. Len(words) + Len(device) :
                 (words \o device)[i] = IF i <= Len(words) THEN words[i] ELSE device[i - Len(words)]
        BY <1>1, <1>4, ConcatProperties
      <3> QED BY <1>4, <3>1
    <2> HIDE DEF levels
    <2>2. 1 \in 1 .. 2 + Len(device) /\ 2 \in 1 .. 2 + Len(device) /\ 1 <= 2 /\ 2 <= 2
      BY <1>1
    <2>3. ASSUME NEW i \in 1 .. Len(device) PROVE levels[2 + i] = device[i]
      <3>1. 2 + i \in 1 .. 2 + Len(device) /\ ~ (2 + i <= 2) /\ (2 + i) - 2 = i
        BY <1>1
      <3> QED BY <2>1, <3>1
    <2> QED BY <1>4, <2>1, <2>2, <2>3
  <1> HIDE DEF levels, id
  <1>7. levels # <<>>
    BY <1>1, <1>6, EmptySeq
  <1>8. PICK f : Joins(f, Chars, levels, Slash) /\ Join(levels) = f[1]
    BY <1>6, <1>7, JoinIs
  <1>c. Continues(f, levels)
    BY <1>6, <1>8, RestsContinue
  <1>9. f[3] = g[1]
    <2>1. levels \in Seq(Seq(Chars)) /\ device \in Seq(Seq(Chars))
      <3>1. Level \subseteq Seq(Chars)
        BY LevelIs
      <3> QED BY <1>1, <1>6, <3>1, SeqMonotonic
    <2>2. Len(levels) - Len(device) = 2 /\ EndsWith(levels, device)
      BY <1>1, <1>6 DEF EndsWith
    <2>3. \A i \in 1 .. Len(device) : f[(Len(levels) - Len(device)) + i] = g[i]
      BY <1>1, <1>2, <1>8, <2>1, <2>2, RestsAgree
    <2>4. 1 \in 1 .. Len(device)
      BY <1>1
    <2>5. f[2 + 1] = g[1]
      BY <2>2, <2>3, <2>4
    <2> QED BY <2>5
  <1>10. f[2] = <<"update">> \o (Slash \o id)
    <2>1. 2 \in 1 .. Len(levels) /\ 3 \in 1 .. Len(levels) /\ Follows(2, 3)
      BY <1>1, <1>6 DEF Follows
    <2>2. f[2] = levels[2] \o (Slash \o f[3])
      BY <1>6, <2>1, <1>c DEF Continues
    <2> QED BY <1>2, <1>6, <1>9, <2>2
  <1>11. f[1] = t
    <2>1. 1 \in 1 .. Len(levels) /\ 2 \in 1 .. Len(levels) /\ Follows(1, 2)
      BY <1>1, <1>6 DEF Follows
    <2>2. f[1] = levels[1] \o (Slash \o f[2])
      BY <1>6, <2>1, <1>c DEF Continues
    <2> QED BY <1>6, <1>10, <2>2 DEF Under
  <1> HIDE DEF t
  <1>12. /\ t \in Seq(Chars) /\ Len(t) = 4 + Len(id)
         /\ t[1] = "OTA" /\ t[2] = "/" /\ t[3] = "update" /\ t[4] = "/"
         /\ \A i \in 1 .. Len(id) : t[4 + i] = id[i]
    <2> DEFINE one == "OTA"
               two == "update"
    <2>1. one \in Chars /\ two \in Chars
      BY CharsAssumption
    <2>2. t = Under(one, two, id)
      BY DEF t
    <2> HIDE DEF one, two
    <2>3. ReadsUnder(t, one, two, id)
      BY <1>1, <2>1, <2>2, UnderIs
    <2> QED BY <2>3 DEF one, two, ReadsUnder
  <1>13. w \in Seq(Chars) /\ Len(w) = 4 /\ w[1] = "OTA" /\ w[2] = "/" /\ w[3] = "update" /\ w[4] = "/"
    <2>1. "OTA" \in Chars /\ "update" \in Chars /\ "/" \in Chars
      BY CharsAssumption
    <2> QED BY <2>1
  <1> HIDE DEF w
  <1>14. /\ v \in Seq(Chars) /\ Len(v) = 4 + Len(id)
         /\ \A i \in 1 .. 4 + Len(id) : v[i] = IF i <= 4 THEN w[i] ELSE id[i - 4]
    <2>1. /\ w \o id \in Seq(Chars) /\ Len(w \o id) = Len(w) + Len(id)
          /\ \A i \in 1 .. Len(w) + Len(id) : (w \o id)[i] = IF i <= Len(w) THEN w[i] ELSE id[i - Len(w)]
      BY <1>1, <1>13, ConcatProperties
    <2> QED BY <1>13, <2>1
  <1> HIDE DEF v
  <1>15. ASSUME NEW i \in 1 .. 4 + Len(id) PROVE t[i] = v[i]
    <2>0. Len(id) \in Nat
      BY <1>1
    <2>1. CASE i \in {1, 2, 3, 4}
      <3>1. i <= 4
        BY <2>1
      <3> QED BY <1>12, <1>13, <1>14, <2>1, <3>1
    <2>2. CASE i \notin {1, 2, 3, 4}
      <3>1. ~ (i <= 4) /\ i - 4 \in 1 .. Len(id) /\ 4 + (i - 4) = i
        BY <2>0, <2>2
      <3> QED BY <1>12, <1>14, <3>1
    <2> QED BY <2>1, <2>2
  <1>16. t = v
    BY <1>12, <1>14, <1>15, SeqEqual
  <1>17. t # <<>>
    BY <1>1, <1>12, EmptySeq
  <1> QED BY <1>5, <1>6, <1>7, <1>8, <1>11, <1>12, <1>16, <1>17 DEF v, w, id

\* A payload is a request if it is blank, or if a word of requests is all there is behind some space.
LEMMA RequestIs ==
  ASSUME NEW payload \in Seq(Chars)
  PROVE  /\ (\A i \in 1 .. Len(payload) : payload[i] = "sp") => is_metrics_request_payload(payload)
         /\ \A i \in 1 .. Len(payload) :
              payload[i] # "sp" /\ (\A j \in 1 .. i - 1 : payload[j] = "sp")
                => (is_metrics_request_payload(payload) <=> i = Len(payload) /\ payload[i] \in {"get", "1"})
  <1> DEFINE I == {i \in 1 .. Len(payload) : NotSpace(payload[i])}
             start == IF I # {} THEN Min(I) ELSE 0
             rest == SubSeq(payload, start, Len(payload))
  <1>1. SelectInSeq(payload, NotSpace) = start
    BY DEF SelectInSeq
  <1>2. is_metrics_request_payload(payload) <=> start = 0 \/ (rest[1] \notin {"{", "["} /\ rest \in {<<"get">>, <<"1">>})
    BY <1>1 DEF is_metrics_request_payload
  <1>3. \A i : i \in I <=> i \in 1 .. Len(payload) /\ payload[i] # "sp"
    BY DEF NotSpace
  <1>4. I \in SUBSET Nat
    OBVIOUS
  <1> HIDE DEF I
  <1>5. ASSUME \A i \in 1 .. Len(payload) : payload[i] = "sp" PROVE is_metrics_request_payload(payload)
    <2>1. I = {}
      BY <1>3, <1>5
    <2> QED BY <1>2, <2>1
  <1>6. ASSUME NEW i \in 1 .. Len(payload), payload[i] # "sp", \A j \in 1 .. i - 1 : payload[j] = "sp"
        PROVE  is_metrics_request_payload(payload) <=> i = Len(payload) /\ payload[i] \in {"get", "1"}
    <2>1. i \in I
      BY <1>3, <1>6
    <2>2. start \in I /\ \A j \in I : start <= j
      BY <1>4, <2>1, MinIsLeast
    <2> HIDE DEF start
    <2>3. start = i
      <3>1. start \in 1 .. Len(payload) /\ payload[start] # "sp" /\ start <= i
        BY <1>3, <2>1, <2>2
      <3>2. ~ (start < i)
        BY <1>6, <3>1
      <3> QED BY <3>1, <3>2
    <2>4. /\ rest \in Seq(Chars) /\ Len(rest) = Len(payload) - i + 1 /\ rest[1] = payload[i]
      <3>1. i \in 1 .. Len(payload) + 1 /\ 1 \in 1 .. Len(payload) - i + 1 /\ i + 1 - 1 = i
        OBVIOUS
      <3>2. /\ SubSeq(payload, i, Len(payload)) \in Seq(Chars) /\ Len(SubSeq(payload, i, Len(payload))) = Len(payload) - i + 1
            /\ \A k \in 1 .. Len(payload) - i + 1 : SubSeq(payload, i, Len(payload))[k] = payload[i + k - 1]
        BY <3>1, RestIs
      <3> QED BY <2>3, <3>1, <3>2
    <2> HIDE DEF rest
    <2>5. ASSUME NEW w \in {"get", "1"} PROVE rest = <<w>> <=> i = Len(payload) /\ payload[i] = w
      <3>1. w \in Chars
        BY CharsAssumption
      <3> DEFINE v == <<w>>
      <3>2. v \in Seq(Chars) /\ Len(v) = 1 /\ v[1] = w
        BY <3>1
      <3> HIDE DEF v
      <3>3. ASSUME i = Len(payload), payload[i] = w PROVE rest = v
        <4>1. Len(rest) = 1 /\ \A k \in 1 .. 1 : rest[k] = v[k]
          BY <2>4, <3>2, <3>3
        <4> QED BY <2>4, <3>2, <4>1, SeqEqual
      <3>4. ASSUME rest = v PROVE i = Len(payload) /\ payload[i] = w
        <4>1. Len(rest) = 1 /\ rest[1] = w
          BY <3>2, <3>4
        <4>2. i = Len(payload)
          <5> DEFINE n == Len(payload)
          <5>1. Len(rest) = n - i + 1
            BY <2>4
          <5>2. i \in Int /\ n \in Int
            BY <1>6
          <5>3. n - i + 1 = 1
            BY <4>1, <5>1
          <5> HIDE DEF n
          <5>4. i = n
            BY <5>2, <5>3
          <5> QED BY <5>4 DEF n
        <4> QED BY <2>4, <4>1, <4>2
      <3> QED BY <3>3, <3>4 DEF v
    <2>6. start # 0
      BY <2>3
    <2>7. is_metrics_request_payload(payload) <=> rest[1] \notin {"{", "["} /\ (rest = <<"get">> \/ rest = <<"1">>)
      BY <1>2, <2>6
    <2> QED BY <2>4, <2>5, <2>7
  <1> QED BY <1>5, <1>6

\* The device answers requests that its subscription covers, and nothing else.
LEMMA AnswerIs ==
  ASSUME device \in DeviceIds, NEW levels \in Seq(Level), levels # <<>>, NEW payload \in Seq(Chars), NEW m \in Metrics
  PROVE  Data(Join(levels), payload, Join(device)) = Answer(m)
           <=> is_metrics_request_payload(payload) /\ Subscribed(levels) /\ levels[2] = <<m>>
  <1> DEFINE t  == Join(levels)
             id == Join(device)
             metric == parse_metrics_topic(t, id)
  <1>1. id \in Seq(Chars) /\ id # <<>>
    BY DevicesAre
  <1>2. t \in Seq(Chars)
    <2>1. PICK f : Joins(f, Chars, levels, Slash) /\ t = f[1]
      BY JoinIs
    <2>2. \A i \in 1 .. Len(levels) : f[i] \in Seq(Chars)
      BY <2>1, RestsOfLevels
    <2>3. 1 \in 1 .. Len(levels)
      BY EmptySeq
    <2> QED BY <2>1, <2>2, <2>3
  <1>3. t = MetricTopic(m, id) <=> Subscribed(levels) /\ levels[2] = <<m>>
    BY SubscribedIs
  <1>4. t = MetricTopic(m, id) => t # <<>> /\ t[1] = "Metrics"
    <2>1. SUFFICES ASSUME t = MetricTopic(m, id) PROVE t # <<>> /\ t[1] = "Metrics"
      OBVIOUS
    <2>2. Len(t) = 4 + Len(id) /\ t[1] = "Metrics"
      BY <1>1, <2>1, MetricTopicIs
    <2>3. Len(id) \in Nat
      BY <1>1
    <2> HIDE DEF t, id
    <2> QED BY <2>2, <2>3, EmptySeq
  <1>5. topic_matches_device(t, id) => t = Join(OtaTopic) /\ Join(OtaTopic)[1] = "OTA"
    BY OtaTopicIs DEF topic_matches_device
  <1>6. parse_ota_payload(payload) # Answer(m)
    BY DEF parse_ota_payload, Job, BadPayload, Answer
  <1>7. Ignored # Answer(m)
    BY DEF Ignored, Answer
  <1>8. handle_metrics_topic(t, payload, id) = Answer(m) <=> is_metrics_request_payload(payload) /\ metric = <<m>>
    <2>1. ASSUME NEW k \in Metrics, metric = <<k>> PROVE Answer(metric[1]) = Answer(m) <=> metric = <<m>>
      <3>1. metric[1] = k /\ (<<k>> = <<m>> <=> k = m)
        BY <2>1
      <3>2. Answer(k) = Answer(m) <=> k = m
        BY DEF Answer
      <3> QED BY <2>1, <3>1, <3>2
    <2>2. metric = <<m>> => \E k \in Metrics : metric = <<k>>
      OBVIOUS
    <2>3. handle_metrics_topic(t, payload, id)
            = IF is_metrics_request_payload(payload) /\ metric \in {<<k>> : k \in Metrics} THEN Answer(metric[1]) ELSE Ignored
      BY DEF handle_metrics_topic
    <2> HIDE DEF metric
    <2> QED BY <1>7, <2>1, <2>2, <2>3
  <1>9. metric = <<m>> <=> t = MetricTopic(m, id)
    BY <1>1, <1>2, ParsesMetrics
  <1>10. Data(t, payload, id) = IF t = <<>> THEN Ignored ELSE IF topic_matches_device(t, id) THEN parse_ota_payload(payload)
                                ELSE handle_metrics_topic(t, payload, id)
    BY DEF Data
  <1> HIDE DEF t, id, metric
  <1>11. topic_matches_device(t, id) => t # MetricTopic(m, id)
    <2>1. "OTA" # "Metrics"
      OBVIOUS
    <2> QED BY <1>4, <1>5, <2>1
  <1>12. Data(t, payload, id) = Answer(m) <=> is_metrics_request_payload(payload) /\ t = MetricTopic(m, id)
    <2>1. CASE t = <<>>
      BY <1>4, <1>7, <1>10, <2>1
    <2>2. CASE t # <<>> /\ topic_matches_device(t, id)
      BY <1>6, <1>10, <1>11, <2>2
    <2>3. CASE t # <<>> /\ ~ topic_matches_device(t, id)
      BY <1>8, <1>9, <1>10, <2>3
    <2> QED BY <2>1, <2>2, <2>3
  <1>13. Data(t, payload, id) = Answer(m) <=> is_metrics_request_payload(payload) /\ Subscribed(levels) /\ levels[2] = <<m>>
    BY <1>3, <1>12
  <1> QED BY <1>13 DEF t, id

-------------------------------------------------------------------------------
(* Where a text stands in another *)

Stands(s, p, t) == p \in Nat /\ p + Len(t) <= Len(s) /\ \A k \in 1 .. Len(t) : s[p + k] = t[k]

LEMMA StandsIn ==
  ASSUME NEW S, NEW s \in Seq(S), NEW t \in Seq(S)
  PROVE  /\ s \o t \in Seq(S) /\ Len(s \o t) = Len(s) + Len(t)
         /\ Stands(s \o t, 0, s) /\ Stands(s \o t, Len(s), t)
  <1> DEFINE u == s \o t
  <1>1. /\ u \in Seq(S) /\ Len(u) = Len(s) + Len(t)
        /\ \A i \in 1 .. Len(s) + Len(t) : u[i] = IF i <= Len(s) THEN s[i] ELSE t[i - Len(s)]
    BY ConcatProperties
  <1>2. Len(s) \in Nat /\ Len(t) \in Nat
    OBVIOUS
  <1> HIDE DEF u
  <1>3. Stands(u, 0, s)
    <2>1. ASSUME NEW k \in 1 .. Len(s) PROVE u[0 + k] = s[k]
      <3>1. k \in 1 .. Len(s) + Len(t) /\ k <= Len(s) /\ 0 + k = k
        BY <1>2
      <3> QED BY <1>1, <3>1
    <2> QED BY <1>1, <1>2, <2>1 DEF Stands
  <1>4. Stands(u, Len(s), t)
    <2>1. ASSUME NEW k \in 1 .. Len(t) PROVE u[Len(s) + k] = t[k]
      <3>1. Len(s) + k \in 1 .. Len(s) + Len(t) /\ ~ (Len(s) + k <= Len(s)) /\ (Len(s) + k) - Len(s) = k
        BY <1>2
      <3> QED BY <1>1, <3>1
    <2> QED BY <1>1, <1>2, <2>1 DEF Stands
  <1> QED BY <1>1, <1>3, <1>4 DEF u

LEMMA StandsThere ==
  ASSUME NEW S, NEW s \in Seq(S), NEW t \in Seq(S), NEW u \in Seq(S),
         NEW p, Stands(s, p, t), NEW q, Stands(t, q, u)
  PROVE  Stands(s, p + q, u)
  <1> DEFINE a == Len(s)
             b == Len(t)
             c == Len(u)
  <1>1. a \in Nat /\ b \in Nat /\ c \in Nat
    OBVIOUS
  <1>2. /\ p \in Nat /\ p + b <= a /\ \A k \in 1 .. b : s[p + k] = t[k]
        /\ q \in Nat /\ q + c <= b /\ \A k \in 1 .. c : t[q + k] = u[k]
    BY DEF Stands
  <1> HIDE DEF a, b, c
  <1>3. p + q \in Nat /\ (p + q) + c <= a
    BY <1>1, <1>2
  <1>4. ASSUME NEW k \in 1 .. c PROVE s[(p + q) + k] = u[k]
    <2>1. q + k \in 1 .. b /\ p + (q + k) = (p + q) + k
      BY <1>1, <1>2
    <2> QED BY <1>2, <2>1
  <1> QED BY <1>3, <1>4 DEF Stands, a, b, c

\* The part of a text where another stands is it.
LEMMA StandsAsPart ==
  ASSUME NEW S, NEW s \in Seq(S), NEW t \in Seq(S), NEW p, Stands(s, p, t)
  PROVE  SubSeq(s, p + 1, p + Len(t)) = t
  <1> DEFINE u == SubSeq(s, p + 1, p + Len(t))
             n == Len(s)
             l == Len(t)
  <1>1. n \in Nat /\ l \in Nat /\ p \in Nat /\ p + l <= n /\ \A k \in 1 .. l : s[p + k] = t[k]
    BY DEF Stands
  <1>2. p + 1 \in 1 .. Len(s) + 1 /\ p + Len(t) \in (p + 1) - 1 .. Len(s)
    <2>1. p + 1 \in 1 .. n + 1 /\ p + l \in (p + 1) - 1 .. n
      <3> HIDE DEF n, l
      <3> QED BY <1>1
    <2> QED BY <2>1
  <1>3. /\ u \in Seq(S) /\ Len(u) = (p + Len(t)) - (p + 1) + 1
        /\ \A k \in 1 .. (p + Len(t)) - (p + 1) + 1 : u[k] = s[(p + 1) + k - 1]
    BY <1>2, PartIs
  <1> HIDE DEF u
  <1>4. Len(u) = Len(t)
    BY <1>1, <1>3
  <1>5. ASSUME NEW k \in 1 .. Len(t) PROVE u[k] = t[k]
    <2>1. k \in 1 .. (p + Len(t)) - (p + 1) + 1 /\ (p + 1) + k - 1 = p + k
      BY <1>1
    <2> QED BY <1>1, <1>3, <2>1
  <1>6. u = t
    BY <1>3, <1>4, <1>5, SeqEqual
  <1> QED BY <1>6 DEF u

-------------------------------------------------------------------------------
(* Texts as hosts write them *)

Plain     == Chars \ {"nul"}
Spaces(s) == s \in Seq(Plain) /\ \A i \in 1 .. Len(s) : s[i] = "sp"

LEMMA SpacesAre ==
  ASSUME NEW s \in {<<>>, <<"sp">>, <<"sp", "sp">>}
  PROVE  Spaces(s)
  <1>1. "sp" \in Plain
    BY CharsAssumption DEF Plain
  <1>2. CASE s = <<>>
    BY <1>2 DEF Spaces
  <1>3. CASE s = <<"sp">>
    BY <1>1, <1>3 DEF Spaces
  <1>4. CASE s = <<"sp", "sp">>
    BY <1>1, <1>4 DEF Spaces
  <1> QED BY <1>2, <1>3, <1>4

\* One character as a text.
LEMMA OneIs ==
  ASSUME NEW S, NEW c \in S
  PROVE  <<c>> \in Seq(S) /\ Len(<<c>>) = 1 /\ <<c>>[1] = c
  OBVIOUS

LEMMA PlainIs ==
  /\ Plain \subseteq Chars
  /\ \A s \in Seq(Plain) : s \in Seq(Chars) /\ CString(s) = s
  <1>1. Plain \subseteq Chars
    BY DEF Plain
  <1>2. ASSUME NEW s \in Seq(Plain) PROVE s \in Seq(Chars) /\ CString(s) = s
    <2>1. \A i \in 1 .. Len(s) : s[i] # "nul"
      <3>1. \A i \in 1 .. Len(s) : s[i] \in Plain
        BY ElementOfSeq
      <3> QED BY <3>1 DEF Plain
    <2> QED BY <1>1, <2>1, CStringIs, SeqMonotonic
  <1> QED BY <1>1, <1>2

\* Space around a text that neither begins nor ends with it is all that is trimmed.
LEMMA TrimmedAround ==
  ASSUME NEW S, NEW before \in Seq(S), NEW text \in Seq(S), NEW after \in Seq(S),
         \A i \in 1 .. Len(before) : before[i] = "sp", \A i \in 1 .. Len(after) : after[i] = "sp",
         text # <<>>, text[1] # "sp", text[Len(text)] # "sp"
  PROVE  trim_whitespace(before \o text \o after) = text
  <1> DEFINE u == before \o text
             w == u \o after
             a == Len(before)
             l == Len(text)
             z == Len(after)
  <1>1. a \in Nat /\ l \in Nat \ {0} /\ z \in Nat
    BY EmptySeq
  <1>2. u \in Seq(S) /\ Len(u) = a + l /\ Stands(u, 0, before) /\ Stands(u, a, text)
    BY StandsIn
  <1> HIDE DEF u
  <1>3. w \in Seq(S) /\ Len(w) = Len(u) + z /\ Stands(w, 0, u) /\ Stands(w, Len(u), after)
    BY <1>2, StandsIn
  <1> HIDE DEF w
  <1>4. Stands(w, 0 + 0, before) /\ Stands(w, 0 + a, text)
    BY <1>2, <1>3, StandsThere
  <1>5. 0 + 0 = 0 /\ 0 + a = a /\ Len(w) = a + l + z
    BY <1>1, <1>2, <1>3
  <1>6. /\ \A k \in 1 .. a : w[k] = "sp"
        /\ \A k \in 1 .. l : w[a + k] = text[k]
        /\ \A k \in 1 .. z : w[(a + l) + k] = "sp"
    <2>1. /\ \A k \in 1 .. a : w[0 + k] = before[k]
          /\ \A k \in 1 .. l : w[a + k] = text[k]
          /\ \A k \in 1 .. z : w[(a + l) + k] = after[k]
      BY <1>2, <1>3, <1>4, <1>5 DEF Stands
    <2>2. \A k \in 1 .. a : 0 + k = k
      BY <1>1
    <2> QED BY <2>1, <2>2
  <1>7. text[l] # "sp"
    OBVIOUS
  <1> HIDE DEF a, l, z
  <1>8. TrimsTo(w, a + 1, a + l)
    <2>1. a + 1 \in 1 .. Len(w) /\ a + l \in a + 1 .. Len(w)
      BY <1>1, <1>5
    <2>2. w[a + 1] # "sp" /\ w[a + l] # "sp"
      <3>1. 1 \in 1 .. l /\ l \in 1 .. l
        BY <1>1
      <3> QED BY <1>6, <1>7, <3>1
    <2>3. \A i \in 1 .. (a + 1) - 1 : w[i] = "sp"
      <3>1. (a + 1) - 1 = a
        BY <1>1
      <3> QED BY <1>6, <3>1
    <2>4. ASSUME NEW i \in (a + l) + 1 .. Len(w) PROVE w[i] = "sp"
      <3>1. i - (a + l) \in 1 .. z /\ (a + l) + (i - (a + l)) = i
        BY <1>1, <1>5
      <3> QED BY <1>6, <3>1
    <2> QED BY <2>1, <2>2, <2>3, <2>4 DEF TrimsTo
  <1>9. trim_whitespace(w) = SubSeq(w, a + 1, a + l)
    BY <1>3, <1>8, TrimmedIs
  <1>10. SubSeq(w, a + 1, a + Len(text)) = text
    BY <1>3, <1>4, <1>5, StandsAsPart
  <1> QED BY <1>9, <1>10 DEF w, u, l

\* A URL sent as it is comes back, whatever space is around it.
LEMMA UrlTrimmed ==
  ASSUME NEW url \in RawUrls, NEW before \in {<<>>, <<"sp">>, <<"sp", "sp">>}, NEW after \in {<<>>, <<"sp">>, <<"sp", "sp">>}
  PROVE  LET payload == before \o url \o after
         IN /\ payload \in Seq(Chars) /\ Len(url) <= Len(payload)
            /\ trim_whitespace(CString(payload)) = url
            /\ ~ IsPrefix(<<"{">>, url)
  <1> DEFINE u == before \o url
             payload == u \o after
  <1>1. url \in Seq(Plain)
    BY UrlsAssumption DEF Plain
  <1>2. Spaces(before) /\ Spaces(after)
    BY SpacesAre
  <1>3. before \in Seq(Plain) /\ after \in Seq(Plain)
    BY <1>2 DEF Spaces
  <1>4. u \in Seq(Plain) /\ Len(u) = Len(before) + Len(url) /\ Stands(u, 0, before) /\ Stands(u, Len(before), url)
    BY <1>1, <1>3, StandsIn
  <1>5. /\ u \o after \in Seq(Plain) /\ Len(u \o after) = Len(u) + Len(after)
        /\ Stands(u \o after, 0, u) /\ Stands(u \o after, Len(u), after)
    <2> HIDE DEF u
    <2> QED BY <1>3, <1>4, StandsIn
  <1> HIDE DEF u
  <1>6. payload \in Seq(Chars) /\ CString(payload) = payload
    BY <1>5, PlainIs
  <1>7. Len(url) <= Len(payload)
    <2>1. Len(url) \in Nat /\ Len(before) \in Nat /\ Len(after) \in Nat
      BY <1>1, <1>3
    <2> QED BY <1>4, <1>5, <2>1
  <1>8. ~ IsPrefix(<<"{">>, url)
    <2>1. IsPrefix(<<"{">>, url) <=> Len(url) >= 1 /\ url[1] = "{"
      BY <1>1, BeginsWith
    <2>2. Len(url) >= 1 => url # <<>>
      OBVIOUS
    <2> QED BY <2>1, <2>2, UrlsAssumption
  <1>9. trim_whitespace(payload) = url
    <2>1. CASE url = <<>>
      <3>1. u = before
        BY <1>3, <2>1, ConcatEmptySeq DEF u
      <3>2. \A i \in 1 .. Len(payload) : payload[i] = "sp"
        <4> DEFINE a == Len(before)
                   z == Len(after)
        <4>1. a \in Nat /\ z \in Nat
          BY <1>3
        <4>2. /\ Len(payload) = a + z /\ \A k \in 1 .. a : payload[0 + k] = "sp"
              /\ \A k \in 1 .. z : payload[a + k] = "sp"
          BY <1>2, <1>5, <3>1 DEF Stands, Spaces
        <4> HIDE DEF a, z, payload
        <4>3. ASSUME NEW i \in 1 .. a + z PROVE payload[i] = "sp"
          <5>1. CASE i <= a
            <6>1. i \in 1 .. a /\ 0 + i = i
              BY <4>1, <5>1
            <6> QED BY <4>2, <6>1
          <5>2. CASE ~ (i <= a)
            <6>1. i - a \in 1 .. z /\ a + (i - a) = i
              BY <4>1, <5>2
            <6> QED BY <4>2, <6>1
          <5> QED BY <5>1, <5>2
        <4> QED BY <4>2, <4>3
      <3> HIDE DEF payload
      <3>3. \/ trim_whitespace(payload) = <<>>
            \/ \E a, b \in Nat : TrimsTo(payload, a, b)
        BY <1>6, TrimIs
      <3>4. ~ \E a, b \in Nat : TrimsTo(payload, a, b)
        BY <3>2 DEF TrimsTo
      <3> QED BY <2>1, <3>3, <3>4
    <2>2. CASE url # <<>>
      <3>1. url[1] # "sp" /\ url[Len(url)] # "sp"
        BY <2>2, UrlsAssumption
      <3>2. \A i \in 1 .. Len(before) : before[i] = "sp"
        BY <1>2 DEF Spaces
      <3>3. \A i \in 1 .. Len(after) : after[i] = "sp"
        BY <1>2 DEF Spaces
      <3>4. trim_whitespace(before \o url \o after) = url
        BY <1>1, <1>3, <2>2, <3>1, <3>2, <3>3, TrimmedAround
      <3> QED BY <3>4 DEF u
    <2> QED BY <2>1, <2>2
  <1> HIDE DEF payload
  <1>10. payload \in Seq(Chars) /\ Len(url) <= Len(payload) /\ trim_whitespace(CString(payload)) = url
    BY <1>6, <1>7, <1>9
  <1> QED BY <1>8, <1>10 DEF payload, u

-------------------------------------------------------------------------------
(* Objects as hosts write them *)

\* A text between quotes.
LEMMA QuotedIs ==
  ASSUME NEW text \in Seq(Plain)
  PROVE  LET v == Quoted(text)
         IN /\ v \in Seq(Plain) /\ Len(v) = Len(text) + 2
            /\ v[1] = "quote" /\ Stands(v, 1, text) /\ v[Len(text) + 2] = "quote"
  <1> DEFINE q == <<"quote">>
             u == q \o text
             v == u \o q
             l == Len(text)
  <1>1. q \in Seq(Plain) /\ Len(q) = 1 /\ q[1] = "quote"
    <2>1. "quote" \in Plain
      BY CharsAssumption DEF Plain
    <2> QED BY <2>1
  <1>2. l \in Nat
    OBVIOUS
  <1>3. Quoted(text) = v
    BY DEF Quoted
  <1> HIDE DEF q
  <1>4. u \in Seq(Plain) /\ Len(u) = Len(q) + l /\ Stands(u, 0, q) /\ Stands(u, Len(q), text)
    BY <1>1, StandsIn
  <1> HIDE DEF u
  <1>5. v \in Seq(Plain) /\ Len(v) = Len(u) + Len(q) /\ Stands(v, 0, u) /\ Stands(v, Len(u), q)
    BY <1>1, <1>4, StandsIn
  <1> HIDE DEF v
  <1>6. Stands(v, 0 + 0, q) /\ Stands(v, 0 + Len(q), text)
    BY <1>1, <1>4, <1>5, StandsThere
  <1>7. 0 + 0 = 0 /\ 0 + Len(q) = 1 /\ Len(u) = l + 1 /\ Len(v) = l + 2
    BY <1>1, <1>2, <1>4, <1>5
  <1>8. v[0 + 1] = q[1] /\ v[(l + 1) + 1] = q[1]
    <2>1. 1 \in 1 .. Len(q)
      BY <1>1
    <2> QED BY <1>5, <1>6, <1>7, <2>1 DEF Stands
  <1>9. 0 + 1 = 1 /\ (l + 1) + 1 = l + 2
    BY <1>2
  <1>10. Stands(v, 1, text)
    BY <1>6, <1>7
  <1> HIDE DEF l
  <1>11. v[1] = "quote" /\ v[l + 2] = "quote"
    BY <1>1, <1>8, <1>9
  <1> QED BY <1>3, <1>5, <1>7, <1>10, <1>11 DEF l

\* What is between the quotes of a value that is a text.
IsText(value) ==
  /\ ValueText(value) = Quoted(value.text)
  /\ value.text \in Seq(Plain) /\ Len(value.text) \in Nat
  /\ \A k \in 1 .. Len(value.text) : value.text[k] # "quote"

LEMMA ValueIs ==
  ASSUME NEW f \in Field
  PROVE  /\ f.key \in Plain /\ f.key # "quote"
         /\ ValueText(f.value) \in Seq(Plain)
         /\ f.value.kind = "text" => IsText(f.value)
  <1> DEFINE v == f.value
  <1>1. f.key \in Plain /\ f.key # "quote" /\ v \in Value
    BY DEF Field, Plain
  <1> HIDE DEF v
  <1>2. CASE v.kind = "text"
    <2>1. v.text \in Seq(Plain \ {"quote"})
      <3>1. (Chars \ {"nul", "quote"}) = Plain \ {"quote"}
        BY DEF Plain
      <3>2. v \in [kind : {"text"}, text : Seq(Chars \ {"nul", "quote"})]
        BY <1>1, <1>2 DEF Value
      <3>3. v.text \in Seq(Chars \ {"nul", "quote"})
        BY <3>2
      <3> QED BY <3>1, <3>3
    <2>2. v.text \in Seq(Plain)
      <3>1. Plain \ {"quote"} \subseteq Plain
        OBVIOUS
      <3> QED BY <2>1, <3>1, SeqMonotonic
    <2>3. \A k \in 1 .. Len(v.text) : v.text[k] # "quote"
      <3>1. \A k \in 1 .. Len(v.text) : v.text[k] \in Plain \ {"quote"}
        BY <2>1, ElementOfSeq
      <3> QED BY <3>1
    <2>4. ValueText(v) = Quoted(v.text)
      BY <1>2 DEF ValueText
    <2>5. Quoted(v.text) \in Seq(Plain)
      BY <2>2, QuotedIs
    <2>6. Len(v.text) \in Nat
      BY <2>2
    <2>7. IsText(v)
      BY <2>2, <2>3, <2>4, <2>6 DEF IsText
    <2> QED BY <1>1, <2>4, <2>5, <2>7 DEF v
  <1>3. CASE v.kind # "text"
    <2>1. v \in [kind : {"literal", "nested"}, text : Seq(Plain)]
      BY <1>1, <1>3 DEF Value, Plain
    <2>2. v.text \in Seq(Plain)
      BY <2>1
    <2>3. ValueText(v) = v.text
      BY <1>3 DEF ValueText
    <2> QED BY <1>1, <1>3, <2>2, <2>3 DEF v
  <1> QED BY <1>2, <1>3

\* What the text of a field reads like: its key in quotes, a colon between spaces, its value.
ReadsField(t, f, gap) ==
  LET g == Len(gap)
      v == ValueText(f.value)
  IN /\ Len(t) = 4 + g + g + Len(v)
     /\ t[1] = "quote" /\ t[2] = f.key /\ t[3] = "quote"
     /\ \A k \in 4 .. 3 + g : t[k] = "sp"
     /\ t[4 + g] = "colon"
     /\ \A k \in 5 + g .. 4 + g + g : t[k] = "sp"
     /\ Stands(t, 4 + g + g, v)

LEMMA FieldTextIs ==
  ASSUME NEW f \in Field, NEW gap, Spaces(gap)
  PROVE  FieldText(f, gap) \in Seq(Plain) /\ ReadsField(FieldText(f, gap), f, gap)
  <1> DEFINE g == Len(gap)
             v == ValueText(f.value)
             key == <<f.key>>
             a == Quoted(key)
             colon == <<"colon">>
             b == a \o gap
             c == b \o colon
             d == c \o gap
             t == d \o v
  <1>1. FieldText(f, gap) = t
    BY DEF FieldText
  <1>2. gap \in Seq(Plain) /\ g \in Nat /\ \A k \in 1 .. g : gap[k] = "sp"
    BY DEF Spaces
  <1>3. v \in Seq(Plain) /\ Len(v) \in Nat
    BY ValueIs
  <1>4. key \in Seq(Plain) /\ Len(key) = 1 /\ key[1] = f.key
    <2>1. f.key \in Plain
      BY ValueIs
    <2> QED BY <2>1, OneIs
  <1>5. colon \in Seq(Plain) /\ Len(colon) = 1 /\ colon[1] = "colon"
    <2>1. "colon" \in Plain
      BY CharsAssumption DEF Plain
    <2> QED BY <2>1
  <1> HIDE DEF key, colon
  <1>6. a \in Seq(Plain) /\ Len(a) = 3 /\ a[1] = "quote" /\ a[2] = f.key /\ a[3] = "quote"
    <2>1. /\ a \in Seq(Plain) /\ Len(a) = Len(key) + 2
          /\ a[1] = "quote" /\ Stands(a, 1, key) /\ a[Len(key) + 2] = "quote"
      BY <1>4, QuotedIs
    <2>2. a[1 + 1] = key[1]
      <3>1. 1 \in 1 .. Len(key)
        BY <1>4
      <3> QED BY <2>1, <3>1 DEF Stands
    <2> QED BY <1>4, <2>1, <2>2
  <1> HIDE DEF a
  <1>7. b \in Seq(Plain) /\ Len(b) = Len(a) + g /\ Stands(b, 0, a) /\ Stands(b, Len(a), gap)
    BY <1>2, <1>6, StandsIn
  <1> HIDE DEF b
  <1>8. c \in Seq(Plain) /\ Len(c) = Len(b) + Len(colon) /\ Stands(c, 0, b) /\ Stands(c, Len(b), colon)
    BY <1>5, <1>7, StandsIn
  <1> HIDE DEF c
  <1>9. d \in Seq(Plain) /\ Len(d) = Len(c) + g /\ Stands(d, 0, c) /\ Stands(d, Len(c), gap)
    BY <1>2, <1>8, StandsIn
  <1> HIDE DEF d
  <1>10. t \in Seq(Plain) /\ Len(t) = Len(d) + Len(v) /\ Stands(t, 0, d) /\ Stands(t, Len(d), v)
    BY <1>3, <1>9, StandsIn
  <1> HIDE DEF t
  <1>11. Len(b) = 3 + g /\ Len(c) = 4 + g /\ Len(d) = 4 + g + g /\ Len(t) = 4 + g + g + Len(v)
    BY <1>2, <1>3, <1>5, <1>6, <1>7, <1>8, <1>9, <1>10
  <1>12. Stands(t, 0 + 0, c) /\ Stands(t, 0 + Len(c), gap)
    BY <1>2, <1>8, <1>9, <1>10, StandsThere
  <1>13. Stands(t, 0, c) /\ Stands(t, 4 + g, gap)
    BY <1>2, <1>11, <1>12
  <1>14. Stands(t, 0 + 0, b) /\ Stands(t, 0 + Len(b), colon)
    BY <1>5, <1>7, <1>8, <1>10, <1>13, StandsThere
  <1>15. Stands(t, 0, b) /\ Stands(t, 3 + g, colon)
    BY <1>2, <1>11, <1>14
  <1>16. Stands(t, 0 + 0, a) /\ Stands(t, 0 + Len(a), gap)
    BY <1>2, <1>6, <1>7, <1>10, <1>15, StandsThere
  <1>17. Stands(t, 0, a) /\ Stands(t, 3, gap)
    BY <1>6, <1>16
  <1> HIDE DEF g
  <1>18. t[1] = "quote" /\ t[2] = f.key /\ t[3] = "quote"
    <2>1. t[0 + 1] = a[1] /\ t[0 + 2] = a[2] /\ t[0 + 3] = a[3]
      BY <1>6, <1>17 DEF Stands
    <2> QED BY <1>6, <2>1
  <1>19. t[4 + g] = "colon"
    <2>1. 1 \in 1 .. Len(colon) /\ (3 + g) + 1 = 4 + g
      BY <1>2, <1>5
    <2> QED BY <1>5, <1>15, <2>1 DEF Stands
  <1>20. ASSUME NEW k \in 4 .. 3 + g PROVE t[k] = "sp"
    <2>1. k - 3 \in 1 .. g /\ 3 + (k - 3) = k /\ g = Len(gap)
      BY <1>2 DEF g
    <2>2. t[3 + (k - 3)] = gap[k - 3]
      BY <1>17, <2>1 DEF Stands
    <2> QED BY <1>2, <2>1, <2>2
  <1>21. ASSUME NEW k \in 5 + g .. 4 + g + g PROVE t[k] = "sp"
    <2>1. k - (4 + g) \in 1 .. g /\ (4 + g) + (k - (4 + g)) = k /\ g = Len(gap)
      BY <1>2 DEF g
    <2>2. t[(4 + g) + (k - (4 + g))] = gap[k - (4 + g)]
      BY <1>13, <2>1 DEF Stands
    <2> QED BY <1>2, <2>1, <2>2
  <1>22. ReadsField(t, f, gap)
    BY <1>10, <1>11, <1>18, <1>19, <1>20, <1>21 DEF ReadsField, g
  <1> QED BY <1>1, <1>10, <1>22

Words == {"url", "sha256"}

LEMMA WordsAre == \A word \in Words : word \in Plain /\ word \notin {"quote", "colon", "sp", "comma", "{", "}", "nul"}
  BY CharsAssumption DEF Words, Plain

LEMMA MentionsIs ==
  ASSUME NEW s \in Seq(Plain), NEW word \in Words, NEW i, QuotedAt(s, word, i)
  PROVE  Mentions(s, word)
  <1> DEFINE key == Quoted(<<word>>)
             u == SubSeq(s, i, i + 2)
  <1>1. word \in Plain
    BY WordsAre
  <1>2. key \in Seq(Plain) /\ Len(key) = 3 /\ key[1] = "quote" /\ key[2] = word /\ key[3] = "quote"
    <2> DEFINE w == <<word>>
    <2>1. w \in Seq(Plain) /\ Len(w) = 1 /\ w[1] = word
      BY <1>1, OneIs
    <2> HIDE DEF w
    <2>2. /\ Quoted(w) \in Seq(Plain) /\ Len(Quoted(w)) = Len(w) + 2
          /\ Quoted(w)[1] = "quote" /\ Stands(Quoted(w), 1, w) /\ Quoted(w)[Len(w) + 2] = "quote"
      BY <2>1, QuotedIs
    <2>3. Quoted(w)[1 + 1] = w[1]
      <3>1. 1 \in 1 .. Len(w)
        BY <2>1
      <3> QED BY <2>2, <3>1 DEF Stands
    <2>4. Quoted(w) = key
      BY DEF w
    <2> HIDE DEF key
    <2> QED BY <2>1, <2>2, <2>3, <2>4
  <1>3. i \in 1 .. Len(s) - 2 /\ s[i] = "quote" /\ s[i + 1] = word /\ s[i + 2] = "quote"
    BY DEF QuotedAt
  <1>4. u \in Seq(Plain) /\ Len(u) = 3 /\ u[1] = s[i] /\ u[2] = s[i + 1] /\ u[3] = s[i + 2]
    <2> DEFINE n == Len(s)
    <2>1. n \in Nat /\ i \in 1 .. n - 2
      BY <1>3
    <2> HIDE DEF n
    <2>2. i \in 1 .. n + 1 /\ i + 2 \in i - 1 .. n
      BY <2>1
    <2>3. i \in 1 .. Len(s) + 1 /\ i + 2 \in i - 1 .. Len(s)
      BY <2>2 DEF n
    <2>4. u \in Seq(Plain) /\ Len(u) = (i + 2) - i + 1 /\ \A k \in 1 .. (i + 2) - i + 1 : u[k] = s[i + k - 1]
      BY <2>3, PartIs
    <2> HIDE DEF u
    <2>5. (i + 2) - i + 1 = 3 /\ i + 1 - 1 = i /\ i + 2 - 1 = i + 1 /\ i + 3 - 1 = i + 2
      BY <2>1
    <2>6. 1 \in 1 .. 3 /\ 2 \in 1 .. 3 /\ 3 \in 1 .. 3
      OBVIOUS
    <2> QED BY <2>4, <2>5, <2>6
  <1>5. u = key
    <2> HIDE DEF u, key
    <2>1. \A k \in 1 .. 3 : k = 1 \/ k = 2 \/ k = 3
      OBVIOUS
    <2>2. \A k \in 1 .. 3 : u[k] = key[k]
      BY <1>2, <1>3, <1>4, <2>1
    <2> QED BY <1>2, <1>4, <2>2, SeqEqual
  <1> QED BY <1>3, <1>5 DEF Mentions

\* The search for a word passes over a field of another key whose value does not mention it.
LEMMA FieldSkipped ==
  ASSUME NEW json \in Seq(Plain), NEW p, NEW t \in Seq(Plain), NEW f \in Field, NEW gap, Spaces(gap), ReadsField(t, f, gap),
         Stands(json, p, t), NEW word \in Words, f.key # word, ~ Mentions(ValueText(f.value), word),
         json[p + Len(t) + 1] # "quote", json[p + Len(t) + 1] # word
  PROVE  \A q \in p + 1 .. p + Len(t) : ~ QuotedAt(json, word, q)
  <1> DEFINE g == Len(gap)
             v == ValueText(f.value)
             l == Len(v)
             n == Len(t)
  <1>1. g \in Nat
    BY DEF Spaces
  <1>2. v \in Seq(Plain) /\ l \in Nat /\ f.key # "quote"
    BY ValueIs
  <1>3. /\ n = 4 + g + g + l
        /\ t[1] = "quote" /\ t[2] = f.key /\ t[3] = "quote"
        /\ \A k \in 4 .. 3 + g : t[k] = "sp"
        /\ t[4 + g] = "colon"
        /\ \A k \in 5 + g .. 4 + g + g : t[k] = "sp"
        /\ \A k \in 1 .. l : t[(4 + g + g) + k] = v[k]
    BY DEF ReadsField, Stands
  <1>4. p \in Nat /\ \A k \in 1 .. n : json[p + k] = t[k]
    BY DEF Stands
  <1>5. word \notin {"quote", "colon", "sp"}
    BY WordsAre
  <1>6. json[p + n + 1] # "quote" /\ json[p + n + 1] # word
    OBVIOUS
  <1> HIDE DEF g, l, n
  <1>7. SUFFICES ASSUME NEW r \in 1 .. n, json[p + r] = "quote", json[p + r + 1] = word, json[p + r + 2] = "quote" PROVE FALSE
    <2>1. SUFFICES ASSUME NEW q \in p + 1 .. p + n, QuotedAt(json, word, q) PROVE FALSE
      BY DEF n
    <2>2. q - p \in 1 .. n /\ p + (q - p) = q
      BY <1>1, <1>2, <1>3, <1>4
    <2>3. json[q] = "quote" /\ json[q + 1] = word /\ json[q + 2] = "quote"
      BY <2>1 DEF QuotedAt
    <2> QED BY <1>7, <2>2, <2>3
  <1>8. n \in Nat /\ n >= 4
    BY <1>1, <1>2, <1>3
  <1>9. t[r] = "quote"
    BY <1>4, <1>7
  <1>10. r + 1 <= n => t[r + 1] = word
    <2>1. p + (r + 1) = p + r + 1
      BY <1>4, <1>8
    <2>2. r + 1 <= n => r + 1 \in 1 .. n
      BY <1>8
    <2> QED BY <1>4, <1>7, <2>1, <2>2
  <1>11. r + 2 <= n => t[r + 2] = "quote"
    <2>1. p + (r + 2) = p + r + 2
      BY <1>4, <1>8
    <2>2. r + 2 <= n => r + 2 \in 1 .. n
      BY <1>8
    <2> QED BY <1>4, <1>7, <2>1, <2>2
  <1>12. r # n /\ r + 1 # n
    <2>1. r = n => p + r + 1 = p + n + 1
      OBVIOUS
    <2>2. r + 1 = n => p + r + 2 = p + n + 1
      BY <1>4, <1>8
    <2> QED BY <1>6, <1>7, <2>1, <2>2
  <1>13. r + 2 <= n
    BY <1>8, <1>12
  <1>14. r # 1 /\ r # 2
    BY <1>2, <1>3, <1>8, <1>9, <1>10
  <1>15. r # 3
    <2>1. SUFFICES ASSUME r = 3 PROVE FALSE
      OBVIOUS
    <2>2. t[4] = word
      BY <1>8, <1>10, <2>1
    <2>3. t[4] = "sp" \/ t[4] = "colon"
      <3>1. CASE g = 0
        BY <1>3, <3>1
      <3>2. CASE g # 0
        <4>1. 4 \in 4 .. 3 + g
          BY <1>1, <3>2
        <4> QED BY <1>3, <4>1
      <3> QED BY <3>1, <3>2
    <2> QED BY <1>5, <2>2, <2>3
  <1>16. ~ (r \in 4 .. 4 + g + g)
    <2>1. SUFFICES ASSUME r \in 4 .. 4 + g + g PROVE FALSE
      OBVIOUS
    <2>2. r \in 4 .. 3 + g \/ r = 4 + g \/ r \in 5 + g .. 4 + g + g
      BY <1>1, <2>1
    <2>3. t[r] = "sp" \/ t[r] = "colon"
      BY <1>3, <2>2
    <2> QED BY <1>9, <2>3
  <1> DEFINE k == r - (4 + g + g)
  <1>17. /\ k \in 1 .. l - 2 /\ k \in 1 .. l /\ k + 1 \in 1 .. l /\ k + 2 \in 1 .. l
         /\ (4 + g + g) + k = r /\ (4 + g + g) + (k + 1) = r + 1 /\ (4 + g + g) + (k + 2) = r + 2
    BY <1>1, <1>2, <1>3, <1>13, <1>14, <1>15, <1>16
  <1> HIDE DEF k
  <1>18. v[k] = t[r] /\ v[k + 1] = t[r + 1] /\ v[k + 2] = t[r + 2]
    BY <1>3, <1>17
  <1>19. r + 1 <= n
    BY <1>8, <1>13
  <1>20. QuotedAt(v, word, k)
    BY <1>9, <1>10, <1>11, <1>13, <1>17, <1>18, <1>19 DEF QuotedAt, l
  <1> QED BY <1>2, <1>20, MentionsIs

\* The first field of that key, if nothing before it reads like the key, gives its text.
LEMMA FieldFound ==
  ASSUME NEW json \in Seq(Plain), NEW p, NEW t \in Seq(Plain), NEW f \in Field, NEW gap, Spaces(gap), ReadsField(t, f, gap),
         Stands(json, p, t), NEW word \in Words, f.key = word, f.value.kind = "text",
         \A q \in 1 .. p : ~ QuotedAt(json, word, q), NEW out_len \in Nat
  PROVE  /\ extract_json_field(json, word, out_len) = Fitting(f.value.text, out_len)
         /\ Len(f.value.text) \in 0 .. Len(json)
  <1> DEFINE g == Len(gap)
             text == f.value.text
             v == ValueText(f.value)
             l == Len(text)
             n == Len(t)
             N == Len(json)
             first == p + 5 + g + g
             second == p + 6 + g + g + l
  <1>1. g \in Nat /\ N \in Nat
    BY DEF Spaces
  <1>2. text \in Seq(Plain) /\ l \in Nat /\ v = Quoted(text) /\ \A k \in 1 .. l : text[k] # "quote"
    <2>1. IsText(f.value)
      BY ValueIs
    <2> QED BY <2>1 DEF IsText
  <1>3. /\ v \in Seq(Plain) /\ Len(v) = l + 2
        /\ v[1] = "quote" /\ Stands(v, 1, text) /\ v[l + 2] = "quote"
    <2> HIDE DEF text, v
    <2>1. LET w == Quoted(text)
          IN /\ w \in Seq(Plain) /\ Len(w) = Len(text) + 2
             /\ w[1] = "quote" /\ Stands(w, 1, text) /\ w[Len(text) + 2] = "quote"
      BY <1>2, QuotedIs
    <2> QED BY <1>2, <2>1
  <1>4. /\ n = 4 + g + g + (l + 2)
        /\ t[1] = "quote" /\ t[2] = word /\ t[3] = "quote"
        /\ \A k \in 4 .. 3 + g : t[k] = "sp"
        /\ t[4 + g] = "colon"
        /\ \A k \in 5 + g .. 4 + g + g : t[k] = "sp"
        /\ Stands(t, 4 + g + g, v)
    BY <1>3 DEF ReadsField
  <1>5. p \in Nat /\ p + n <= N /\ \A k \in 1 .. n : json[p + k] = t[k]
    BY DEF Stands
  <1>6. word \notin {"quote", "colon", "sp"}
    BY WordsAre
  <1>7. Stands(json, p + (4 + g + g), v)
    BY <1>3, <1>4, StandsThere
  <1>8. Stands(json, (p + (4 + g + g)) + 1, text)
    BY <1>2, <1>3, <1>7, StandsThere
  <1>9. (p + (4 + g + g)) + 1 = first
    BY <1>1, <1>5
  <1> HIDE DEF g, l, n, N, v, text
  <1>10. json[p + 1] = "quote" /\ json[p + 2] = word /\ json[p + 3] = "quote" /\ json[p + (4 + g)] = "colon"
    <2>1. 1 \in 1 .. n /\ 2 \in 1 .. n /\ 3 \in 1 .. n /\ 4 + g \in 1 .. n
      BY <1>1, <1>2, <1>4
    <2> QED BY <1>4, <1>5, <2>1
  <1>11. json[first] = "quote" /\ json[second] = "quote"
    <2>1. 1 \in 1 .. Len(v) /\ l + 2 \in 1 .. Len(v)
      BY <1>2, <1>3
    <2>2. json[(p + (4 + g + g)) + 1] = v[1] /\ json[(p + (4 + g + g)) + (l + 2)] = v[l + 2]
      BY <1>7, <2>1 DEF Stands
    <2>3. (p + (4 + g + g)) + (l + 2) = second
      BY <1>1, <1>2, <1>5
    <2> QED BY <1>3, <1>9, <2>2, <2>3
  <1>12. QuotedAt(json, word, p + 1)
    <2>1. p + 1 \in 1 .. N - 2 /\ (p + 1) + 1 = p + 2 /\ (p + 1) + 2 = p + 3
      BY <1>1, <1>2, <1>4, <1>5
    <2> QED BY <1>10, <2>1 DEF QuotedAt, N
  <1>13. \A i \in 1 .. (p + 1) - 1 : ~ QuotedAt(json, word, i)
    <2>1. (p + 1) - 1 = p
      BY <1>5
    <2> QED BY <2>1
  <1>14. p + (4 + g) \in p + 1 .. N /\ p + 1 \in Nat
    BY <1>1, <1>2, <1>4, <1>5
  <1>15. ASSUME NEW i \in p + 1 .. p + (4 + g) - 1 PROVE json[i] # "colon"
    <2> DEFINE k == i - p
    <2>1. k \in 1 .. n /\ p + k = i /\ (k = 1 \/ k = 2 \/ k = 3 \/ k \in 4 .. 3 + g)
      BY <1>1, <1>2, <1>4, <1>5
    <2> HIDE DEF k
    <2>2. t[k] = "quote" \/ t[k] = word \/ t[k] = "sp"
      BY <1>4, <2>1
    <2>3. json[i] = t[k]
      BY <1>5, <2>1
    <2> QED BY <1>6, <2>2, <2>3
  <1>16. first \in p + (4 + g) .. N
    BY <1>1, <1>2, <1>4, <1>5
  <1>17. ASSUME NEW i \in p + (4 + g) .. first - 1 PROVE json[i] # "quote"
    <2> DEFINE k == i - p
    <2>1. k \in 1 .. n /\ p + k = i /\ (k = 4 + g \/ k \in 5 + g .. 4 + g + g)
      BY <1>1, <1>2, <1>4, <1>5
    <2> HIDE DEF k
    <2>2. t[k] = "colon" \/ t[k] = "sp"
      BY <1>4, <2>1
    <2>3. json[i] = t[k]
      BY <1>5, <2>1
    <2> QED BY <2>2, <2>3
  <1>18. Enclosed(json, first, second)
    <2>1. first \in 1 .. N /\ second \in first + 1 .. N
      BY <1>1, <1>2, <1>4, <1>5
    <2>2. ASSUME NEW i \in first + 1 .. second - 1 PROVE json[i] # "quote"
      <3>1. i - first \in 1 .. l /\ first + (i - first) = i
        BY <1>1, <1>2, <1>5
      <3>2. json[first + (i - first)] = text[i - first]
        BY <1>8, <1>9, <3>1 DEF Stands, l
      <3> QED BY <1>2, <3>1, <3>2
    <2> QED BY <1>11, <2>1, <2>2 DEF Enclosed, N
  <1>19. SubSeq(json, first + 1, second - 1) = text
    <2>1. SubSeq(json, first + 1, first + Len(text)) = text
      BY <1>2, <1>8, <1>9, StandsAsPart
    <2>2. second - 1 = first + Len(text)
      BY <1>1, <1>2, <1>5 DEF l
    <2> QED BY <2>1, <2>2
  <1>20. l \in 0 .. N
    BY <1>1, <1>2, <1>4, <1>5
  <1> DEFINE key == p + 1
             colon == p + (4 + g)
  <1>21. LeadsTo(json, word, key, colon, first, second)
    <2>1. key \in Nat /\ QuotedAt(json, word, key) /\ \A i \in 1 .. key - 1 : ~ QuotedAt(json, word, i)
      BY <1>12, <1>13, <1>14
    <2>2. colon \in key .. Len(json) /\ json[colon] = "colon" /\ \A i \in key .. colon - 1 : json[i] # "colon"
      <3>1. colon \in key .. Len(json)
        BY <1>14 DEF N
      <3>2. json[colon] = "colon"
        BY <1>10
      <3>3. \A i \in key .. colon - 1 : json[i] # "colon"
        BY <1>1, <1>5, <1>15
      <3> HIDE DEF key, colon
      <3> QED BY <3>1, <3>2, <3>3
    <2>3. /\ Enclosed(json, first, second) /\ first \in colon .. Len(json)
          /\ \A i \in colon .. first - 1 : json[i] # "quote"
      BY <1>16, <1>17, <1>18 DEF N
    <2> HIDE DEF key, colon, first, second
    <2> QED BY <2>1, <2>2, <2>3 DEF LeadsTo
  <1>22. extract_json_field(json, word, out_len)
           = Fitting(SubSeq(json, first + 1, second - 1), out_len)
    BY <1>21, ExtractAt
  <1> QED BY <1>19, <1>20, <1>22 DEF text, l, N

\* What stands around the fields of an object.
Opening == "{"
Closing == "}"
Braced(o, fields, gap) ==
  LET g == Len(gap)
      n == Len(o)
  IN /\ n = (1 + g) + Len(fields) + (g + 1)
     /\ o[1] = Opening /\ o[n] = Closing /\ Stands(o, 1 + g, fields)
     /\ \A k \in 2 .. 1 + g : o[k] = "sp"
     /\ \A k \in (1 + g) + Len(fields) + 1 .. n - 1 : o[k] = "sp"

LEMMA BracedIs ==
  ASSUME NEW fields \in Seq(Plain), NEW gap, Spaces(gap)
  PROVE  LET o == <<"{">> \o gap \o fields \o gap \o <<"}">>
         IN o \in Seq(Plain) /\ Braced(o, fields, gap)
  <1> DEFINE g == Len(gap)
             l == Len(fields)
             open == <<"{">>
             close == <<"}">>
             a == open \o gap
             b == a \o fields
             c == b \o gap
             o == c \o close
  <1>1. gap \in Seq(Plain) /\ g \in Nat /\ l \in Nat /\ \A k \in 1 .. g : gap[k] = "sp"
    BY DEF Spaces
  <1>2. /\ open \in Seq(Plain) /\ Len(open) = 1 /\ open[1] = Opening
        /\ close \in Seq(Plain) /\ Len(close) = 1 /\ close[1] = Closing
    <2>1. Opening \in Plain
      BY CharsAssumption DEF Plain, Opening
    <2>2. Closing \in Plain
      BY CharsAssumption DEF Plain, Closing
    <2>3. open = <<Opening>>
      BY DEF Opening
    <2>4. close = <<Closing>>
      BY DEF Closing
    <2> HIDE DEF open, close
    <2> QED BY <2>1, <2>2, <2>3, <2>4, OneIs
  <1> HIDE DEF open, close
  <1>3. a \in Seq(Plain) /\ Len(a) = Len(open) + g /\ Stands(a, 0, open) /\ Stands(a, Len(open), gap)
    BY <1>1, <1>2, StandsIn
  <1> HIDE DEF a
  <1>4. b \in Seq(Plain) /\ Len(b) = Len(a) + l /\ Stands(b, 0, a) /\ Stands(b, Len(a), fields)
    BY <1>3, StandsIn
  <1> HIDE DEF b
  <1>5. c \in Seq(Plain) /\ Len(c) = Len(b) + g /\ Stands(c, 0, b) /\ Stands(c, Len(b), gap)
    BY <1>1, <1>4, StandsIn
  <1> HIDE DEF c
  <1>6. o \in Seq(Plain) /\ Len(o) = Len(c) + Len(close) /\ Stands(o, 0, c) /\ Stands(o, Len(c), close)
    BY <1>2, <1>5, StandsIn
  <1> HIDE DEF o
  <1>7. Len(a) = 1 + g /\ Len(b) = (1 + g) + l /\ Len(c) = (1 + g) + l + g /\ Len(o) = (1 + g) + l + (g + 1)
    BY <1>1, <1>2, <1>3, <1>4, <1>5, <1>6
  <1>8. Stands(o, 0 + 0, b) /\ Stands(o, 0 + Len(b), gap)
    BY <1>1, <1>4, <1>5, <1>6, StandsThere
  <1>9. Stands(o, 0, b) /\ Stands(o, (1 + g) + l, gap)
    BY <1>1, <1>7, <1>8
  <1>10. Stands(o, 0 + 0, a) /\ Stands(o, 0 + Len(a), fields)
    BY <1>3, <1>4, <1>6, <1>9, StandsThere
  <1>11. Stands(o, 0, a) /\ Stands(o, 1 + g, fields)
    BY <1>1, <1>7, <1>10
  <1>12. Stands(o, 0 + 0, open) /\ Stands(o, 0 + Len(open), gap)
    BY <1>1, <1>2, <1>3, <1>6, <1>11, StandsThere
  <1>13. Stands(o, 0, open) /\ Stands(o, 1, gap)
    BY <1>2, <1>12
  <1> HIDE DEF g, l
  <1>14. o[1] = Opening
    <2>0. 1 \in 1 .. Len(open)
      BY <1>2
    <2>1. o[0 + 1] = open[1]
      BY <1>13, <2>0 DEF Stands
    <2> QED BY <1>2, <2>1
  <1>15. o[Len(o)] = Closing
    <2>0. 1 \in 1 .. Len(close)
      BY <1>2
    <2>1. o[Len(c) + 1] = close[1]
      BY <1>6, <2>0 DEF Stands
    <2>2. Len(c) + 1 = Len(o)
      BY <1>1, <1>7
    <2> QED BY <1>2, <2>1, <2>2
  <1>16. ASSUME NEW k \in 2 .. 1 + g PROVE o[k] = "sp"
    <2>1. k - 1 \in 1 .. g /\ 1 + (k - 1) = k
      BY <1>1
    <2>2. o[1 + (k - 1)] = gap[k - 1]
      BY <1>13, <2>1 DEF Stands, g
    <2> QED BY <1>1, <2>1, <2>2
  <1>17. ASSUME NEW k \in (1 + g) + l + 1 .. Len(o) - 1 PROVE o[k] = "sp"
    <2> DEFINE at == (1 + g) + l
    <2>1. k - at \in 1 .. g /\ at + (k - at) = k
      BY <1>1, <1>7
    <2>2. o[at + (k - at)] = gap[k - at]
      BY <1>9, <2>1 DEF Stands, g
    <2> QED BY <1>1, <2>1, <2>2
  <1>18. Braced(o, fields, gap)
    BY <1>7, <1>11, <1>14, <1>15, <1>16, <1>17 DEF Braced, g, l
  <1> QED BY <1>6, <1>18 DEF o, c, b, a, open, close

\* The comma between two fields.
LEMMA SeparatorIs ==
  ASSUME NEW gap, Spaces(gap)
  PROVE  LET s == <<"comma">> \o gap
         IN /\ s \in Seq(Plain) /\ Len(s) = 1 + Len(gap) /\ s[1] = "comma"
            /\ \A k \in 1 .. Len(s) : s[k] = "comma" \/ s[k] = "sp"
  <1> DEFINE c == <<"comma">>
             s == c \o gap
             g == Len(gap)
  <1>1. gap \in Seq(Plain) /\ g \in Nat /\ \A k \in 1 .. g : gap[k] = "sp"
    BY DEF Spaces
  <1>2. c \in Seq(Plain) /\ Len(c) = 1 /\ c[1] = "comma"
    <2>1. "comma" \in Plain
      BY CharsAssumption DEF Plain
    <2> QED BY <2>1
  <1> HIDE DEF c
  <1>3. s \in Seq(Plain) /\ Len(s) = Len(c) + g /\ Stands(s, 0, c) /\ Stands(s, Len(c), gap)
    BY <1>1, <1>2, StandsIn
  <1> HIDE DEF s
  <1>4. s[1] = "comma"
    <2>1. s[0 + 1] = c[1]
      BY <1>2, <1>3 DEF Stands
    <2> QED BY <1>2, <2>1
  <1>5. Len(s) = 1 + g /\ \A k \in 1 .. g : s[1 + k] = gap[k]
    BY <1>2, <1>3 DEF Stands
  <1> HIDE DEF g
  <1>6. ASSUME NEW k \in 1 .. Len(s) PROVE s[k] = "comma" \/ s[k] = "sp"
    <2>1. CASE k = 1
      BY <1>4, <2>1
    <2>2. CASE k # 1
      <3>1. k - 1 \in 1 .. g /\ 1 + (k - 1) = k
        BY <1>1, <1>5, <2>2
      <3> QED BY <1>1, <1>5, <3>1
    <2> QED BY <2>1, <2>2
  <1> QED BY <1>3, <1>4, <1>5, <1>6 DEF s, c, g

\* A field, a comma and what comes behind it.
Chained(t, gap, rest) == t \o ((<<"comma">> \o gap) \o rest)

\* The search for a word does not stop at a field; it has come to a text that ends at some place.
Skipped(f, word) == f.key # word /\ ~ Mentions(ValueText(f.value), word)

Reached(o, word, p, text, end) ==
  Stands(o, p, text) /\ (\A q \in 1 .. p : ~ QuotedAt(o, word, q)) /\ p + Len(text) = end

\* Past a field and the comma behind it.
LEMMA FieldPassed ==
  ASSUME NEW o \in Seq(Plain), NEW p, NEW t \in Seq(Plain), NEW f \in Field, NEW gap, Spaces(gap), ReadsField(t, f, gap),
         NEW word \in Words, Skipped(f, word),
         NEW rest \in Seq(Plain), NEW end, Reached(o, word, p, Chained(t, gap, rest), end)
  PROVE  \E r \in Nat : Reached(o, word, r, rest, end)
  <1> DEFINE s == <<"comma">> \o gap
             u == s \o rest
             w == t \o u
             n == Len(t)
             m == Len(s)
             l == Len(rest)
             r == p + n + m
  <1>1. /\ s \in Seq(Plain) /\ m = 1 + Len(gap) /\ s[1] = "comma"
        /\ \A k \in 1 .. m : s[k] = "comma" \/ s[k] = "sp"
    BY SeparatorIs
  <1>2. Len(gap) \in Nat /\ n \in Nat /\ l \in Nat /\ p \in Nat
    BY DEF Spaces, Stands, Reached
  <1>3. Stands(o, p, w) /\ (\A q \in 1 .. p : ~ QuotedAt(o, word, q)) /\ p + Len(w) = end
    BY DEF Chained, Reached
  <1>0. f.key # word /\ ~ Mentions(ValueText(f.value), word)
    BY DEF Skipped
  <1> HIDE DEF s
  <1>4. u \in Seq(Plain) /\ Len(u) = m + l /\ Stands(u, 0, s) /\ Stands(u, m, rest)
    BY <1>1, StandsIn
  <1> HIDE DEF u
  <1>5. w \in Seq(Plain) /\ Len(w) = n + Len(u) /\ Stands(w, 0, t) /\ Stands(w, n, u)
    BY <1>4, StandsIn
  <1> HIDE DEF w
  <1>6. Stands(o, p + 0, t) /\ Stands(o, p + n, u)
    BY <1>3, <1>4, <1>5, StandsThere
  <1>7. Stands(o, (p + n) + 0, s) /\ Stands(o, (p + n) + m, rest)
    BY <1>1, <1>4, <1>6, StandsThere
  <1>8. p + 0 = p /\ (p + n) + 0 = p + n /\ m \in Nat \ {0}
    BY <1>1, <1>2
  <1>9. Stands(o, p, t) /\ Stands(o, p + n, s) /\ Stands(o, r, rest)
    BY <1>6, <1>7, <1>8
  <1>10. \A k \in 1 .. m : o[(p + n) + k] = s[k]
    BY <1>9 DEF Stands
  <1>11. o[p + Len(t) + 1] = "comma"
    <2>1. 1 \in 1 .. m
      BY <1>8
    <2> QED BY <1>1, <1>10, <2>1
  <1>12. word # "comma"
    BY WordsAre
  <1>13. \A q \in p + 1 .. p + Len(t) : ~ QuotedAt(o, word, q)
    <2>1. o[p + Len(t) + 1] # "quote" /\ o[p + Len(t) + 1] # word
      BY <1>11, <1>12
    <2> QED BY <1>0, <1>9, <2>1, FieldSkipped
  <1>14. \A q \in p + 1 .. p + n : ~ QuotedAt(o, word, q)
    BY <1>13
  <1> HIDE DEF n, m, l
  <1>15. ASSUME NEW q \in 1 .. r PROVE ~ QuotedAt(o, word, q)
    <2>1. CASE q \in 1 .. p
      BY <1>3, <2>1
    <2>2. CASE q \in p + 1 .. p + n
      BY <1>14, <2>2
    <2>3. CASE q \in (p + n) + 1 .. r
      <3>1. q - (p + n) \in 1 .. m /\ (p + n) + (q - (p + n)) = q
        BY <1>2, <1>8, <2>3
      <3>2. o[q] = "comma" \/ o[q] = "sp"
        BY <1>1, <1>10, <3>1
      <3> QED BY <3>2 DEF QuotedAt
    <2> QED BY <1>2, <1>8, <2>1, <2>2, <2>3
  <1>16. r \in Nat /\ r + l = p + Len(w)
    BY <1>2, <1>4, <1>5, <1>8
  <1> HIDE DEF r
  <1>17. Reached(o, word, r, rest, end)
    BY <1>3, <1>9, <1>15, <1>16 DEF Reached, l
  <1> QED BY <1>16, <1>17

FieldTexts(fields, gap) == [i \in DOMAIN fields |-> FieldText(fields[i], gap)]

LEMMA FieldTextsAre ==
  ASSUME NEW fields \in Seq(Field), NEW gap, Spaces(gap)
  PROVE  LET texts == FieldTexts(fields, gap)
         IN /\ texts \in Seq(Seq(Plain)) /\ Len(texts) = Len(fields)
            /\ \A i \in 1 .. Len(fields) : fields[i] \in Field /\ texts[i] \in Seq(Plain) /\ ReadsField(texts[i], fields[i], gap)
  <1> DEFINE texts == FieldTexts(fields, gap)
             n == Len(fields)
  <1>1. n \in Nat /\ DOMAIN fields = 1 .. n
    OBVIOUS
  <1>2. ASSUME NEW i \in 1 .. n
        PROVE  fields[i] \in Field /\ texts[i] \in Seq(Plain) /\ ReadsField(texts[i], fields[i], gap)
    <2>1. fields[i] \in Field
      BY <1>2, ElementOfSeq
    <2>2. texts[i] = FieldText(fields[i], gap)
      BY <1>1, <1>2 DEF FieldTexts
    <2>3. FieldText(fields[i], gap) \in Seq(Plain) /\ ReadsField(FieldText(fields[i], gap), fields[i], gap)
      BY <2>1, FieldTextIs
    <2> QED BY <2>1, <2>2, <2>3
  <1>3. texts = [i \in 1 .. n |-> FieldText(fields[i], gap)]
    BY <1>1 DEF FieldTexts
  <1>4. texts \in [1 .. n -> Seq(Plain)]
    <2>1. \A i \in 1 .. n : FieldText(fields[i], gap) \in Seq(Plain)
      BY <1>2, <1>3
    <2> HIDE DEF n
    <2> QED BY <1>3, <2>1
  <1> HIDE DEF texts, n
  <1>5. texts \in Seq(Seq(Plain))
    BY <1>1, <1>4, SeqDef
  <1>6. Len(texts) = n
    BY <1>1, <1>4, <1>5, LenProperties
  <1> QED BY <1>2, <1>5, <1>6 DEF texts, n

\* The search for a word comes past all fields before the one it is the key of.
LEMMA FieldsPassed ==
  ASSUME NEW fields \in Seq(Field), NEW gap, Spaces(gap),
         NEW f, Joins(f, Plain, FieldTexts(fields, gap), <<"comma">> \o gap),
         NEW o \in Seq(Plain), NEW a, NEW end, NEW word \in Words, Reached(o, word, a, f[1], end),
         NEW n \in 1 .. Len(fields), \A i \in 1 .. n - 1 : Skipped(fields[i], word)
  PROVE  \E r \in Nat : Reached(o, word, r, f[n], end)
  <1> DEFINE texts == FieldTexts(fields, gap)
             Passed(i) == \E r \in Nat : Reached(o, word, r, f[i], end)
             Bad == {i \in 1 .. n : ~ Passed(i)}
  <1>1. /\ texts \in Seq(Seq(Plain)) /\ Len(texts) = Len(fields)
        /\ \A i \in 1 .. Len(fields) : fields[i] \in Field /\ texts[i] \in Seq(Plain) /\ ReadsField(texts[i], fields[i], gap)
    BY FieldTextsAre
  <1>2. Len(fields) \in Nat
    OBVIOUS
  <1>3. /\ \A i \in 1 .. Len(fields) : f[i] \in Seq(Plain)
        /\ \A i \in 1 .. Len(fields) - 1 : f[i] = texts[i] \o ((<<"comma">> \o gap) \o f[i + 1])
    BY <1>1 DEF Joins
  <1> HIDE DEF texts
  <1>4. Passed(1)
    <2>1. a \in Nat
      BY DEF Reached, Stands
    <2> QED BY <2>1
  <1>5. ASSUME NEW i \in 1 .. n - 1, Passed(i) PROVE Passed(i + 1)
    <2>1. PICK p \in Nat : Reached(o, word, p, f[i], end)
      BY <1>5
    <2>2. i \in 1 .. Len(fields) /\ i + 1 \in 1 .. Len(fields) /\ i \in 1 .. Len(fields) - 1
      BY <1>2, <1>5
    <2> DEFINE t == texts[i]
               rest == f[i + 1]
               fi == fields[i]
    <2>3. fi \in Field /\ t \in Seq(Plain) /\ ReadsField(t, fi, gap) /\ rest \in Seq(Plain)
      BY <1>1, <1>3, <2>2
    <2>4. f[i] = Chained(t, gap, rest)
      BY <1>3, <2>2 DEF Chained
    <2>5. Skipped(fi, word)
      OBVIOUS
    <2>6. Reached(o, word, p, Chained(t, gap, rest), end)
      BY <2>1, <2>4
    <2> HIDE DEF t, rest, fi
    <2>7. \E r \in Nat : Reached(o, word, r, rest, end)
      BY <2>3, <2>5, <2>6, FieldPassed
    <2> QED BY <2>7 DEF rest
  <1> HIDE DEF Passed
  <1>6. Bad = {}
    <2>1. SUFFICES ASSUME Bad # {} PROVE FALSE
      OBVIOUS
    <2>2. PICK k \in Bad : \A j \in Bad : k <= j
      <3>1. Bad \in SUBSET Nat
        OBVIOUS
      <3> HIDE DEF Bad
      <3> QED BY <2>1, <3>1, LeastOf
    <2>3. k \in 1 .. n /\ ~ Passed(k)
      BY <2>2
    <2>4. k # 1 /\ n \in Nat
      BY <1>2, <1>4, <2>3
    <2>5. k - 1 \in 1 .. n - 1 /\ (k - 1) + 1 = k /\ k - 1 \in 1 .. n /\ ~ (k <= k - 1)
      BY <2>3, <2>4
    <2>6. ~ (k - 1 \in Bad)
      BY <2>2, <2>5
    <2>7. Passed(k - 1)
      BY <2>5, <2>6
    <2>8. Passed((k - 1) + 1)
      BY <1>5, <2>5, <2>7
    <2> QED BY <2>3, <2>5, <2>8
  <1>7. Passed(n)
    <2>1. n \in 1 .. n
      BY <1>2
    <2> QED BY <1>6, <2>1
  <1> QED BY <1>7 DEF Passed

\* What an object says under a key is what its first field of that key says.
LEMMA SaysIs ==
  ASSUME NEW fields \in Seq(Field), NEW word, \A i \in 1 .. Len(fields) : fields[i].key = word => fields[i].value.kind = "text"
  PROVE  /\ (\A i \in 1 .. Len(fields) : fields[i].key # word) => Says(fields, word) = <<>>
         /\ \A n \in 1 .. Len(fields) :
              fields[n].key = word /\ (\A i \in 1 .. n - 1 : fields[i].key # word) => Says(fields, word) = fields[n].value.text
  <1> DEFINE I == {i \in 1 .. Len(fields) : fields[i].key = word /\ fields[i].value.kind = "text"}
             at == IF I # {} THEN Min(I) ELSE 0
  <1>1. Says(fields, word) = IF at = 0 THEN <<>> ELSE fields[at].value.text
    BY DEF Says, SelectInSeq
  <1>2. \A i : i \in I <=> i \in 1 .. Len(fields) /\ fields[i].key = word
    OBVIOUS
  <1>3. I \in SUBSET Nat
    OBVIOUS
  <1> HIDE DEF I
  <1>4. ASSUME \A i \in 1 .. Len(fields) : fields[i].key # word PROVE Says(fields, word) = <<>>
    <2>1. I = {}
      BY <1>2, <1>4
    <2> QED BY <1>1, <2>1
  <1>5. ASSUME NEW n \in 1 .. Len(fields), fields[n].key = word, \A i \in 1 .. n - 1 : fields[i].key # word
        PROVE  Says(fields, word) = fields[n].value.text
    <2>1. n \in I
      BY <1>2, <1>5
    <2>2. at \in I /\ \A j \in I : at <= j
      BY <1>3, <2>1, MinIsLeast
    <2> HIDE DEF at
    <2>3. at \in 1 .. Len(fields) /\ fields[at].key = word /\ at <= n
      BY <1>2, <2>1, <2>2
    <2>4. ~ (at < n)
      BY <1>5, <2>3
    <2>5. at = n /\ at # 0
      BY <2>3, <2>4
    <2> QED BY <1>1, <2>5
  <1> QED BY <1>4, <1>5

\* What is around the fields mentions no key.
LEMMA BracesQuiet ==
  ASSUME NEW o \in Seq(Plain), NEW text \in Seq(Plain), NEW gap, Spaces(gap), Braced(o, text, gap), NEW word \in Words
  PROVE  /\ \A q \in 1 .. 1 + Len(gap) : ~ QuotedAt(o, word, q)
         /\ \A q \in Nat : q > (1 + Len(gap)) + Len(text) => ~ QuotedAt(o, word, q)
         /\ o[((1 + Len(gap)) + Len(text)) + 1] # "quote" /\ o[((1 + Len(gap)) + Len(text)) + 1] # word
  <1> DEFINE g == Len(gap)
             l == Len(text)
             n == Len(o)
             end == (1 + g) + l
  <1>1. g \in Nat /\ l \in Nat /\ n = end + (g + 1) /\ end \in Nat
    BY DEF Spaces, Braced
  <1>2. /\ o[1] = Opening /\ o[n] = Closing
        /\ \A k \in 2 .. 1 + g : o[k] = "sp"
        /\ \A k \in end + 1 .. n - 1 : o[k] = "sp"
    BY DEF Braced
  <1>3. Opening # "quote" /\ Closing # "quote"
    BY DEF Opening, Closing
  <1>4. word # "sp" /\ word # Closing
    BY WordsAre DEF Closing
  <1> HIDE DEF g, l, n
  <1>5. ASSUME NEW q \in 1 .. 1 + g PROVE ~ QuotedAt(o, word, q)
    <2>1. q = 1 \/ q \in 2 .. 1 + g
      BY <1>1
    <2>2. o[q] # "quote"
      BY <1>2, <1>3, <2>1
    <2> QED BY <2>2 DEF QuotedAt
  <1> HIDE DEF end
  <1>6. ASSUME NEW q \in Nat, q > end PROVE ~ QuotedAt(o, word, q)
    <2>1. SUFFICES ASSUME q \in 1 .. n - 2 PROVE o[q] # "quote"
      BY DEF QuotedAt, n
    <2>2. q \in end + 1 .. n - 1
      BY <1>1, <1>6, <2>1
    <2> QED BY <1>2, <2>2
  <1>7. o[end + 1] # "quote" /\ o[end + 1] # word
    <2>1. end + 1 = n \/ end + 1 \in end + 1 .. n - 1
      BY <1>1
    <2> QED BY <1>2, <1>3, <1>4, <2>1
  <1> QED BY <1>5, <1>6, <1>7 DEF g, l, end

LEMMA ObjectIs ==
  ASSUME NEW fields \in Seq(Field), NEW gap, Spaces(gap)
  PROVE  LET o     == Object(fields, gap)
             inner == Joined(FieldTexts(fields, gap), <<"comma">> \o gap)
         IN /\ inner \in Seq(Plain) /\ o \in Seq(Plain) /\ Braced(o, inner, gap)
            /\ fields = <<>> => inner = <<>>
            /\ fields # <<>> => \E f : Joins(f, Plain, FieldTexts(fields, gap), <<"comma">> \o gap) /\ inner = f[1]
  <1> DEFINE texts == FieldTexts(fields, gap)
             s == <<"comma">> \o gap
             inner == Joined(texts, s)
             o == <<"{">> \o gap \o inner \o gap \o <<"}">>
  <1>1. Object(fields, gap) = o
    BY DEF Object, FieldTexts
  <1>2. texts \in Seq(Seq(Plain)) /\ Len(texts) = Len(fields)
    BY FieldTextsAre
  <1>3. s \in Seq(Plain)
    BY SeparatorIs
  <1> HIDE DEF texts, s
  <1>4. CASE fields = <<>>
    <2>1. texts = <<>>
      BY <1>2, <1>4, EmptySeq
    <2>2. inner = <<>> /\ inner \in Seq(Plain)
      BY <2>1 DEF Joined
    <2> HIDE DEF inner
    <2>3. o \in Seq(Plain) /\ Braced(o, inner, gap)
      BY <2>2, BracedIs
    <2> HIDE DEF o
    <2> QED BY <1>1, <1>4, <2>2, <2>3 DEF inner, texts, s
  <1>5. CASE fields # <<>>
    <2>1. texts # <<>>
      BY <1>2, <1>5, EmptySeq
    <2>2. PICK f : Joins(f, Plain, texts, s) /\ inner = f[1]
      BY <1>2, <1>3, <2>1, JoinedIs
    <2>3. inner \in Seq(Plain)
      <3>1. 1 \in 1 .. Len(texts)
        BY <1>2, <2>1, EmptySeq
      <3> QED BY <2>2, <3>1 DEF Joins
    <2> HIDE DEF inner
    <2>4. o \in Seq(Plain) /\ Braced(o, inner, gap)
      BY <2>3, BracedIs
    <2> HIDE DEF o
    <2> QED BY <1>1, <1>5, <2>2, <2>3, <2>4 DEF inner, texts, s
  <1> QED BY <1>4, <1>5

\* The text of a field stands where the rest that begins with it stands.
LEMMA FieldStands ==
  ASSUME NEW fields \in Seq(Field), NEW gap, Spaces(gap),
         NEW f, Joins(f, Plain, FieldTexts(fields, gap), <<"comma">> \o gap),
         NEW o \in Seq(Plain), NEW n \in 1 .. Len(fields), NEW r, Stands(o, r, f[n])
  PROVE  Stands(o, r, FieldTexts(fields, gap)[n])
  <1> DEFINE texts == FieldTexts(fields, gap)
             s == <<"comma">> \o gap
             t == texts[n]
             L == Len(fields)
  <1>1. texts \in Seq(Seq(Plain)) /\ Len(texts) = L /\ t \in Seq(Plain)
    BY FieldTextsAre
  <1>2. s \in Seq(Plain) /\ L \in Nat
    BY SeparatorIs
  <1> HIDE DEF s
  <1>3. /\ f[L] = texts[L] /\ \A i \in 1 .. L : f[i] \in Seq(Plain)
        /\ \A i \in 1 .. L - 1 : f[i] = texts[i] \o (s \o f[i + 1])
    BY <1>1 DEF Joins, s
  <1>4. CASE n = L
    BY <1>3, <1>4
  <1>5. CASE n # L
    <2> DEFINE u == s \o f[n + 1]
               w == t \o u
    <2>1. n \in 1 .. L - 1 /\ n + 1 \in 1 .. L
      <3> HIDE DEF L
      <3>1. n \in 1 .. L
        BY DEF L
      <3> QED BY <1>2, <1>5, <3>1
    <2>2. f[n + 1] \in Seq(Plain)
      BY <1>3, <2>1
    <2>3. u \in Seq(Plain)
      BY <1>2, <2>2, StandsIn
    <2>4. f[n] = w
      BY <1>3, <2>1
    <2> HIDE DEF u, t
    <2>5. w \in Seq(Plain) /\ Stands(w, 0, t)
      BY <1>1, <2>3, StandsIn
    <2>6. Stands(o, r, w)
      BY <2>4
    <2> HIDE DEF w
    <2>7. Stands(o, r + 0, t)
      BY <1>1, <2>5, <2>6, StandsThere
    <2>8. r + 0 = r
      BY DEF Stands
    <2> QED BY <2>7, <2>8 DEF t
  <1> QED BY <1>4, <1>5

\* What the device takes out of an object is what the object says.
LEMMA ObjectSays ==
  ASSUME NEW fields \in Objects, NEW gap, Spaces(gap), NEW word \in Words, NEW out_len \in Nat
  PROVE  LET o == Object(fields, gap)
         IN /\ extract_json_field(o, word, out_len) = Fitting(Says(fields, word), out_len)
            /\ Len(Says(fields, word)) \in 0 .. Len(o)
  <1> DEFINE o == Object(fields, gap)
             texts == FieldTexts(fields, gap)
             inner == Joined(texts, <<"comma">> \o gap)
             g == Len(gap)
             L == Len(fields)
             end == (1 + g) + Len(inner)
             I == {i \in 1 .. L : fields[i].key = word}
  <1>1. fields \in Seq(Field) /\ L \in Nat /\ DOMAIN fields = 1 .. L /\ g \in Nat
    BY ObjectsAssumption DEF Spaces
  <1>2. /\ \A i \in 1 .. L : fields[i].key = word => fields[i].value.kind = "text"
        /\ \A i \in 1 .. L : Mentions(ValueText(fields[i].value), word) => \E j \in 1 .. i : fields[j].key = word
    BY <1>1, ObjectsAssumption DEF Words
  <1>3. /\ inner \in Seq(Plain) /\ o \in Seq(Plain) /\ Braced(o, inner, gap)
        /\ fields = <<>> => inner = <<>>
        /\ fields # <<>> => \E f : Joins(f, Plain, texts, <<"comma">> \o gap) /\ inner = f[1]
    BY <1>1, ObjectIs
  <1>4. /\ \A i \in 1 .. L : fields[i] \in Field /\ texts[i] \in Seq(Plain) /\ ReadsField(texts[i], fields[i], gap)
    BY <1>1, FieldTextsAre
  <1> HIDE DEF inner
  <1>5. /\ \A q \in 1 .. 1 + g : ~ QuotedAt(o, word, q)
        /\ \A q \in Nat : q > end => ~ QuotedAt(o, word, q)
        /\ o[end + 1] # "quote" /\ o[end + 1] # word
    <2> HIDE DEF o
    <2> QED BY <1>3, BracesQuiet
  <1>6. Stands(o, 1 + g, inner) /\ Len(inner) \in Nat /\ end \in Nat
    BY <1>1, <1>3 DEF Braced
  <1> HIDE DEF o
  <1>7. /\ (\A i \in 1 .. L : fields[i].key # word) => Says(fields, word) = <<>>
        /\ \A n \in 1 .. L :
             fields[n].key = word /\ (\A i \in 1 .. n - 1 : fields[i].key # word) => Says(fields, word) = fields[n].value.text
    BY <1>1, <1>2, SaysIs
  <1>8. Reached(o, word, 1 + g, inner, end)
    BY <1>5, <1>6 DEF Reached
  <1> HIDE DEF texts, g, end
  <1>9. ASSUME I = {}
        PROVE  /\ extract_json_field(o, word, out_len) = Fitting(Says(fields, word), out_len)
               /\ Len(Says(fields, word)) \in 0 .. Len(o)
    <2>1. \A i \in 1 .. L : fields[i].key # word /\ Skipped(fields[i], word)
      <3>1. \A i \in 1 .. L : fields[i].key # word
        BY <1>9
      <3>2. \A i \in 1 .. L : \A j \in 1 .. i : j \in 1 .. L
        BY <1>1
      <3> QED BY <1>2, <3>1, <3>2 DEF Skipped
    <2>2. \A q \in Nat : ~ QuotedAt(o, word, q)
      <3>1. CASE fields = <<>>
        <4>1. Len(inner) = 0
          BY <1>3, <3>1
        <4>2. \A q \in Nat : q \in 1 .. 1 + g \/ q > end \/ q = 0
          BY <1>1, <4>1 DEF end
        <4>3. ~ QuotedAt(o, word, 0)
          BY DEF QuotedAt
        <4> QED BY <1>5, <4>2, <4>3
      <3>2. CASE fields # <<>>
        <4>1. PICK f : Joins(f, Plain, texts, <<"comma">> \o gap) /\ inner = f[1]
          BY <1>3, <3>2
        <4>2. L \in 1 .. L
          BY <1>1, <3>2, EmptySeq
        <4>3. \A i \in 1 .. L - 1 : Skipped(fields[i], word)
          BY <1>1, <2>1
        <4>4. Reached(o, word, 1 + g, f[1], end)
          BY <1>8, <4>1
        <4>5. PICK r \in Nat : Reached(o, word, r, f[L], end)
          BY <1>1, <1>3, <4>1, <4>2, <4>3, <4>4, FieldsPassed DEF texts
        <4>6. f[L] = texts[L]
          BY <1>1, <4>1, FieldTextsAre DEF Joins, texts
        <4> DEFINE t == texts[L]
                   fl == fields[L]
        <4>7. Stands(o, r, t) /\ (\A q \in 1 .. r : ~ QuotedAt(o, word, q)) /\ r + Len(t) = end
          BY <4>5, <4>6 DEF Reached
        <4>8. /\ fl \in Field /\ t \in Seq(Plain) /\ ReadsField(t, fl, gap)
              /\ fl.key # word /\ ~ Mentions(ValueText(fl.value), word)
          BY <1>4, <2>1, <4>2 DEF Skipped
        <4>9. o[r + Len(t) + 1] # "quote" /\ o[r + Len(t) + 1] # word
          BY <1>5, <4>7
        <4> HIDE DEF t, fl
        <4>10. \A q \in r + 1 .. r + Len(t) : ~ QuotedAt(o, word, q)
          BY <1>3, <4>7, <4>8, <4>9, FieldSkipped
        <4>11. \A q \in Nat : q \in 1 .. r \/ q \in r + 1 .. r + Len(t) \/ q > end \/ q = 0
          BY <4>7
        <4>12. ~ QuotedAt(o, word, 0)
          BY DEF QuotedAt
        <4> QED BY <1>5, <4>7, <4>10, <4>11, <4>12
      <3> QED BY <3>1, <3>2
    <2>3. extract_json_field(o, word, out_len) = <<>>
      BY <1>3, <2>2, ExtractNothing
    <2>4. Says(fields, word) = <<>> /\ Len(<<>>) = 0
      BY <1>7, <2>1
    <2>5. Fitting(<<>>, out_len) = <<>>
      BY DEF Fitting
    <2>6. Len(o) \in Nat
      BY <1>3
    <2> QED BY <2>3, <2>4, <2>5, <2>6
  <1>10. ASSUME I # {}
         PROVE  /\ extract_json_field(o, word, out_len) = Fitting(Says(fields, word), out_len)
                /\ Len(Says(fields, word)) \in 0 .. Len(o)
    <2>1. PICK n \in I : \A i \in I : n <= i
      <3>1. I \in SUBSET Nat
        BY <1>1
      <3> HIDE DEF I
      <3> QED BY <1>10, <3>1, LeastOf
    <2>2. n \in 1 .. L /\ fields[n].key = word
      BY <2>1
    <2>3. \A i \in 1 .. n - 1 : i \in 1 .. L /\ fields[i].key # word
      <3>1. \A i \in 1 .. n - 1 : i \in 1 .. L /\ ~ (n <= i)
        BY <1>1, <2>2
      <3> QED BY <2>1, <3>1
    <2>4. \A i \in 1 .. n - 1 : Skipped(fields[i], word)
      <3>1. \A i \in 1 .. n - 1 : \A j \in 1 .. i : j \in 1 .. n - 1
        BY <1>1, <2>2
      <3> QED BY <1>2, <2>3, <3>1 DEF Skipped
    <2>5. fields # <<>>
      BY <1>1, <2>2, EmptySeq
    <2>6. PICK f : Joins(f, Plain, texts, <<"comma">> \o gap) /\ inner = f[1]
      BY <1>3, <2>5
    <2>7. Reached(o, word, 1 + g, f[1], end)
      BY <1>8, <2>6
    <2>8. PICK r \in Nat : Reached(o, word, r, f[n], end)
      BY <1>1, <1>3, <2>2, <2>4, <2>6, <2>7, FieldsPassed DEF texts
    <2> DEFINE t == texts[n]
               fn == fields[n]
    <2>9. Stands(o, r, f[n]) /\ \A q \in 1 .. r : ~ QuotedAt(o, word, q)
      BY <2>8 DEF Reached
    <2>10. Stands(o, r, t)
      BY <1>1, <1>3, <2>2, <2>6, <2>9, FieldStands DEF texts
    <2>11. /\ fn \in Field /\ t \in Seq(Plain) /\ ReadsField(t, fn, gap)
           /\ fn.key = word /\ fn.value.kind = "text"
      BY <1>2, <1>4, <2>2
    <2>12. Says(fields, word) = fn.value.text
      BY <1>7, <2>2, <2>3
    <2> HIDE DEF t, fn
    <2>13. /\ extract_json_field(o, word, out_len) = Fitting(fn.value.text, out_len)
           /\ Len(fn.value.text) \in 0 .. Len(o)
      BY <1>3, <2>9, <2>10, <2>11, FieldFound
    <2> QED BY <2>12, <2>13
  <1> HIDE DEF I
  <1>11. /\ extract_json_field(o, word, out_len) = Fitting(Says(fields, word), out_len)
         /\ Len(Says(fields, word)) \in 0 .. Len(o)
    BY <1>9, <1>10
  <1> QED BY <1>11 DEF o

-------------------------------------------------------------------------------
(* Commands *)

\* What the device should make of a command, and what is expected to arrive.
Wanted(payload, url, sha256) ==
  IF IsPrefix(<<"https">>, url) /\ Len(payload) < MaxUrl
  THEN Job(url, IF Len(sha256) < MaxSha THEN sha256 ELSE <<>>)
  ELSE BadPayload

LEMMA BufferSizes == MaxUrl \in Nat \ {0} /\ MaxSha \in Nat \ {0}
  BY SizesAssumption

LEMMA NothingIsNoUrl == ~ IsPrefix(<<"https">>, <<>>)
  <1> DEFINE S == {"https"}
             e == <<>>
  <1>1. e \in Seq(S) /\ Len(e) = 0
    OBVIOUS
  <1> HIDE DEF S, e
  <1>2. IsPrefix(<<"https">>, e) <=> Len(e) >= 1 /\ e[1] = "https"
    BY <1>1, BeginsWith
  <1>3. ~ IsPrefix(<<"https">>, e)
    BY <1>1, <1>2
  <1> QED BY <1>3 DEF e

LEMMA UrlUnderstood ==
  ASSUME NEW url \in RawUrls, NEW before \in {<<>>, <<"sp">>, <<"sp", "sp">>}, NEW after \in {<<>>, <<"sp">>, <<"sp", "sp">>}
  PROVE  LET payload == before \o url \o after
         IN payload \in Seq(Chars) /\ parse_ota_payload(payload) = Wanted(payload, url, <<>>)
  <1> DEFINE payload == before \o url \o after
  <1>1. /\ payload \in Seq(Chars) /\ Len(url) <= Len(payload)
        /\ trim_whitespace(CString(payload)) = url
        /\ ~ IsPrefix(<<"{">>, url)
    BY UrlTrimmed
  <1> HIDE DEF payload
  <1>2. parse_ota_payload(payload)
          = IF payload # <<>> /\ Len(payload) < MaxUrl /\ IsPrefix(<<"https">>, url) THEN Job(url, <<>>) ELSE BadPayload
    BY <1>1 DEF parse_ota_payload
  <1>3. payload = <<>> => ~ IsPrefix(<<"https">>, url)
    <2>1. SUFFICES ASSUME payload = <<>> PROVE url = <<>>
      BY NothingIsNoUrl
    <2>2. url \in Seq(Chars \ {"nul"})
      BY UrlsAssumption
    <2>3. Len(payload) = 0
      BY <2>1
    <2>4. Len(url) = 0
      <3>1. Len(url) \in Nat
        BY <2>2, LenProperties
      <3>2. Len(url) <= Len(payload)
        BY <1>1
      <3> QED BY <2>3, <3>1, <3>2
    <2> QED BY <2>2, <2>4, EmptySeq
  <1>4. Wanted(payload, url, <<>>) = IF IsPrefix(<<"https">>, url) /\ Len(payload) < MaxUrl THEN Job(url, <<>>) ELSE BadPayload
    BY DEF Wanted
  <1>5. parse_ota_payload(payload) = Wanted(payload, url, <<>>)
    BY <1>2, <1>3, <1>4
  <1> QED BY <1>1, <1>5 DEF payload

LEMMA ObjectUnderstood ==
  ASSUME NEW fields \in Objects, NEW gap \in {<<>>, <<"sp">>}
  PROVE  LET payload == gap \o Object(fields, gap) \o gap
         IN /\ payload \in Seq(Chars)
            /\ parse_ota_payload(payload) = Wanted(payload, Says(fields, "url"), Says(fields, "sha256"))
  <1> DEFINE o == Object(fields, gap)
             u == gap \o o
             payload == u \o gap
             url == Says(fields, "url")
             sha == Says(fields, "sha256")
             inner == Joined(FieldTexts(fields, gap), <<"comma">> \o gap)
  <1>1. Spaces(gap)
    BY SpacesAre
  <1>2. gap \in Seq(Plain) /\ Len(gap) \in Nat /\ \A i \in 1 .. Len(gap) : gap[i] = "sp"
    BY <1>1 DEF Spaces
  <1>3. fields \in Seq(Field)
    BY ObjectsAssumption
  <1>4. inner \in Seq(Plain) /\ o \in Seq(Plain) /\ Braced(o, inner, gap)
    BY <1>1, <1>3, ObjectIs
  <1>5. /\ extract_json_field(o, "url", MaxUrl) = Fitting(url, MaxUrl) /\ Len(url) \in 0 .. Len(o)
        /\ extract_json_field(o, "sha256", MaxSha) = Fitting(sha, MaxSha) /\ Len(sha) \in 0 .. Len(o)
    <2>1. "url" \in Words /\ "sha256" \in Words /\ MaxUrl \in Nat /\ MaxSha \in Nat
      BY BufferSizes DEF Words
    <2> QED BY <1>1, <2>1, ObjectSays
  <1> HIDE DEF o, url, sha, inner
  <1>6. Len(o) \in Nat /\ Len(o) >= 2 /\ o[1] = Opening /\ o[Len(o)] = Closing
    <2>1. Len(inner) \in Nat
      BY <1>4
    <2> QED BY <1>2, <1>4, <2>1 DEF Braced
  <1>7. o # <<>> /\ o[1] # "sp" /\ o[Len(o)] # "sp"
    <2>1. o # <<>>
      BY <1>6
    <2>2. Opening # "sp" /\ Closing # "sp"
      BY DEF Opening, Closing
    <2> QED BY <1>6, <2>1, <2>2
  <1>8. u \in Seq(Plain) /\ Len(u) = Len(gap) + Len(o)
    BY <1>2, <1>4, StandsIn
  <1>9. payload \in Seq(Plain) /\ Len(payload) = Len(u) + Len(gap)
    <2> HIDE DEF u
    <2> QED BY <1>2, <1>8, StandsIn
  <1>10. trim_whitespace(gap \o o \o gap) = o
    BY <1>2, <1>4, <1>7, TrimmedAround
  <1>11. payload = gap \o o \o gap
    OBVIOUS
  <1> HIDE DEF payload, u
  <1>12. payload \in Seq(Chars) /\ trim_whitespace(CString(payload)) = o
    BY <1>9, <1>10, <1>11, PlainIs
  <1>13. IsPrefix(<<"{">>, o)
    <2>1. IsPrefix(<<Opening>>, o)
      BY <1>4, <1>6, BeginsWith
    <2> QED BY <2>1 DEF Opening
  <1>14. Len(payload) \in Nat /\ Len(o) <= Len(payload) /\ payload # <<>>
    <2>1. Len(payload) \in Nat /\ Len(o) <= Len(payload) /\ Len(payload) >= 2
      BY <1>2, <1>6, <1>8, <1>9
    <2> QED BY <1>9, <2>1, EmptySeq
  <1> DEFINE url1 == Fitting(url, MaxUrl)
             sha1 == Fitting(sha, MaxSha)
  <1>15. parse_ota_payload(payload)
           = IF payload # <<>> /\ Len(payload) < MaxUrl /\ IsPrefix(<<"https">>, url1) THEN Job(url1, sha1) ELSE BadPayload
    <2> HIDE DEF url1, sha1
    <2>1. extract_json_field(o, "url", MaxUrl) = url1 /\ extract_json_field(o, "sha256", MaxSha) = sha1
      BY <1>5 DEF url1, sha1
    <2> QED BY <1>12, <1>13, <2>1 DEF parse_ota_payload
  <1>16. Len(payload) < MaxUrl => url1 = url
    BY <1>5, <1>6, <1>14, BufferSizes DEF Fitting
  <1>17. sha1 = IF Len(sha) < MaxSha THEN sha ELSE <<>>
    BY <1>5, <1>6, BufferSizes DEF Fitting
  <1>18. parse_ota_payload(payload) = Wanted(payload, url, sha)
    <2> HIDE DEF url1, sha1
    <2> QED BY <1>14, <1>15, <1>16, <1>17 DEF Wanted
  <1> QED BY <1>12, <1>18 DEF payload, u, url, sha, o

-------------------------------------------------------------------------------
(* What hosts ask, and what comes back *)

\* A documented request is taken for one, with space before it or not.
LEMMA AskedIs ==
  ASSUME NEW payload \in Requests, NEW before \in {<<>>, <<"sp">>}
  PROVE  before \o payload \in Seq(Chars) /\ is_metrics_request_payload(before \o payload)
  <1> DEFINE a == Len(before)
             u == before \o payload
  <1>1. Spaces(before) /\ before \in Seq(Plain)
    BY SpacesAre DEF Spaces
  <1>2. \A i \in 1 .. a : before[i] = "sp"
    BY <1>1 DEF Spaces
  <1>3. /\ payload \in Seq(Chars)
        /\ Len(payload) = 0 \/ (Len(payload) = 1 /\ payload[1] \in {"get", "1"})
    <2>1. "get" \in Chars /\ "1" \in Chars
      BY CharsAssumption
    <2>2. payload = <<>> \/ payload = <<"get">> \/ payload = <<"1">>
      BY PayloadsAssumption
    <2>3. CASE payload = <<>>
      BY <2>3
    <2>4. CASE payload = <<"get">>
      BY <2>1, <2>4
    <2>5. CASE payload = <<"1">>
      BY <2>1, <2>5
    <2> QED BY <2>2, <2>3, <2>4, <2>5
  <1>4. before \in Seq(Chars) /\ a \in Nat
    BY <1>1, PlainIs
  <1>5. u \in Seq(Chars) /\ Len(u) = a + Len(payload) /\ Stands(u, 0, before) /\ Stands(u, a, payload)
    BY <1>3, <1>4, StandsIn
  <1> HIDE DEF u
  <1>6. \A i \in 1 .. a : u[i] = "sp"
    <2>1. \A i \in 1 .. a : u[0 + i] = before[i]
      BY <1>5 DEF Stands
    <2>2. \A i \in 1 .. a : 0 + i = i
      BY <1>4
    <2> QED BY <1>2, <2>1, <2>2
  <1> HIDE DEF a
  <1>7. CASE Len(payload) = 0
    <2>1. Len(u) = a
      BY <1>4, <1>5, <1>7
    <2>2. is_metrics_request_payload(u)
      BY <1>5, <1>6, <2>1, RequestIs
    <2> QED BY <1>5, <2>2 DEF u
  <1>8. CASE Len(payload) = 1 /\ payload[1] \in {"get", "1"}
    <2> DEFINE n == Len(u)
    <2>1. n = a + 1 /\ n \in 1 .. n
      BY <1>4, <1>5, <1>8
    <2>2. u[n] \in {"get", "1"}
      <3>1. u[a + 1] = payload[1]
        BY <1>5, <1>8 DEF Stands
      <3> QED BY <1>8, <2>1, <3>1
    <2>3. u[n] # "sp" /\ \A j \in 1 .. n - 1 : u[j] = "sp"
      <3>1. n - 1 = a
        BY <1>4, <2>1
      <3> QED BY <1>6, <2>2, <3>1
    <2>4. is_metrics_request_payload(u) <=> n = Len(u) /\ u[n] \in {"get", "1"}
      <3>1. n \in 1 .. Len(u)
        BY <2>1
      <3> HIDE DEF n
      <3> QED BY <1>5, <2>3, <3>1, RequestIs
    <2> QED BY <1>5, <2>2, <2>4 DEF u
  <1> QED BY <1>3, <1>7, <1>8

\* A payload that does not begin with space or the only character of a request is none.
LEMMA NoRequest ==
  ASSUME NEW payload \in Seq(Chars), NEW i \in 1 .. Len(payload), payload[i] # "sp", \A j \in 1 .. i - 1 : payload[j] = "sp",
         i # Len(payload) \/ payload[i] \notin {"get", "1"}
  PROVE  ~ is_metrics_request_payload(payload)
  BY RequestIs

Chatter == {<<"x">>, <<"get", "x">>, <<"1", "1">>, <<"sp", "[", "1", "]">>}

LEMMA ChatterIs ==
  ASSUME NEW payload \in Chatter
  PROVE  payload \in Seq(Chars) /\ ~ is_metrics_request_payload(payload)
  <1>1. {"x", "get", "1", "sp", "[", "]"} \subseteq Chars
    BY CharsAssumption
  <1>2. CASE payload = <<"x">>
    <2>1. payload \in Seq(Chars) /\ Len(payload) = 1 /\ payload[1] = "x"
      BY <1>1, <1>2
    <2>2. 1 \in 1 .. Len(payload) /\ \A j \in 1 .. 1 - 1 : payload[j] = "sp"
      BY <2>1
    <2> QED BY <2>1, <2>2, NoRequest
  <1>3. CASE payload = <<"get", "x">>
    <2>1. payload \in Seq(Chars) /\ Len(payload) = 2 /\ payload[1] = "get"
      BY <1>1, <1>3
    <2>2. 1 \in 1 .. Len(payload) /\ (\A j \in 1 .. 1 - 1 : payload[j] = "sp") /\ 1 # Len(payload)
      BY <2>1
    <2> QED BY <2>1, <2>2, NoRequest
  <1>4. CASE payload = <<"1", "1">>
    <2>1. payload \in Seq(Chars) /\ Len(payload) = 2 /\ payload[1] = "1"
      BY <1>1, <1>4
    <2>2. 1 \in 1 .. Len(payload) /\ (\A j \in 1 .. 1 - 1 : payload[j] = "sp") /\ 1 # Len(payload)
      BY <2>1
    <2> QED BY <2>1, <2>2, NoRequest
  <1>5. CASE payload = <<"sp", "[", "1", "]">>
    <2>1. payload \in Seq(Chars) /\ Len(payload) = 4 /\ payload[1] = "sp" /\ payload[2] = "["
      BY <1>1, <1>5
    <2>2. 2 \in 1 .. Len(payload) /\ (\A j \in 1 .. 2 - 1 : payload[j] = "sp") /\ 2 # Len(payload)
      BY <2>1
    <2> QED BY <2>1, <2>2, NoRequest
  <1> QED BY <1>2, <1>3, <1>4, <1>5 DEF Chatter

LEMMA ReplyIs ==
  ASSUME NEW m \in Metrics
  PROVE  Reply(m) \in Seq(Chars) /\ ~ is_metrics_request_payload(Reply(m))
  <1> DEFINE r == Reply(m)
  <1>1. {"{", "quote", "type", "colon", m, "comma", "data", "1"} \subseteq Chars
    BY CharsAssumption
  <1>2. r \in Seq(Chars) /\ Len(r) = 15 /\ r[1] = "{"
    <2> DEFINE a == "{"
               b == "quote"
               c == "type"
               d == "colon"
               e == "comma"
               f == "data"
               g == "1"
               h == "}"
    <2>1. a \in Chars /\ b \in Chars /\ c \in Chars /\ d \in Chars /\ e \in Chars /\ f \in Chars /\ g \in Chars /\ m \in Chars
      BY <1>1
    <2>2. h \in Chars
      BY CharsAssumption
    <2>3. r = <<a, b, c, b, d, b, m, b, e, b, f, b, d, g, h>>
      BY DEF Reply
    <2> HIDE DEF a, b, c, d, e, f, g, h, r
    <2>4. r \in Seq(Chars) /\ Len(r) = 15 /\ r[1] = a
      BY <2>1, <2>2, <2>3
    <2> QED BY <2>4 DEF a
  <1> HIDE DEF r
  <1>3. 1 \in 1 .. Len(r) /\ (\A j \in 1 .. 1 - 1 : r[j] = "sp") /\ 1 # Len(r) /\ r[1] # "sp"
    <2>1. 1 \in 1 .. 15 /\ 1 # 15 /\ 1 .. 1 - 1 = {}
      OBVIOUS
    <2>2. "{" # "sp"
      OBVIOUS
    <2> QED BY <1>2, <2>1, <2>2
  <1>4. ~ is_metrics_request_payload(r)
    BY <1>2, <1>3, NoRequest
  <1> QED BY <1>2, <1>4 DEF r

\* What the handler makes of an event of any kind.
LEMMA DataIs ==
  ASSUME NEW topic, NEW payload, NEW id
  PROVE  LET d == Data(topic, payload, id)
         IN /\ d.kind = "answer" => \E m \in Metrics : d = Answer(m)
            /\ d.kind = "job" => d = parse_ota_payload(payload)
  <1> DEFINE metric == parse_metrics_topic(topic, id)
             d == Data(topic, payload, id)
  <1>1. d = Ignored \/ d = parse_ota_payload(payload) \/ \E m \in Metrics : d = Answer(m)
    <2>1. ASSUME metric \in {<<m>> : m \in Metrics} PROVE \E m \in Metrics : Answer(metric[1]) = Answer(m)
      <3>1. PICK m \in Metrics : metric = <<m>>
        BY <2>1
      <3>2. metric[1] = m
        BY <3>1
      <3> QED BY <3>2
    <2>2. handle_metrics_topic(topic, payload, id)
            = IF is_metrics_request_payload(payload) /\ metric \in {<<m>> : m \in Metrics} THEN Answer(metric[1]) ELSE Ignored
      BY DEF handle_metrics_topic
    <2> HIDE DEF metric
    <2> QED BY <2>1, <2>2 DEF Data
  <1> HIDE DEF d
  <1>2. parse_ota_payload(payload).kind \in {"job", "bad_payload"}
    BY DEF parse_ota_payload, Job, BadPayload
  <1>3. ASSUME d.kind = "answer" PROVE \E m \in Metrics : d = Answer(m)
    BY <1>1, <1>2, <1>3 DEF Ignored
  <1>4. ASSUME d.kind = "job" PROVE d = parse_ota_payload(payload)
    BY <1>1, <1>4 DEF Ignored, Answer
  <1> QED BY <1>3, <1>4 DEF d

-------------------------------------------------------------------------------
(* The invariant. An event is a command that the parser makes the wanted job *)
(* of, a request, or something that is neither; what the handler has done is *)
(* what Data says of it.                                                     *)

Sent(e) ==
  /\ e = Event(e.levels, e.payload, e.meant)
  /\ e.levels \in Seq(Level) /\ e.levels # <<>> /\ e.payload \in Seq(Chars)
  /\ \/ /\ e.meant.kind = "command" /\ e.levels = OtaTopic
        /\ parse_ota_payload(e.payload) = Wanted(e.payload, e.meant.url, e.meant.sha256)
     \/ e.meant.kind = "request" /\ is_metrics_request_payload(e.payload)
     \/ e.meant = NoCommand /\ (e.levels = OtaTopic \/ ~ is_metrics_request_payload(e.payload))

HostsInv ==
  /\ device \in DeviceIds
  /\ event = None \/ Sent(event)
  /\ outcome # None => event # None /\ outcome = Data(Join(event.levels), event.payload, Join(device))

LEMMA EventIs ==
  ASSUME NEW levels, NEW payload, NEW meant
  PROVE  LET e == Event(levels, payload, meant)
         IN /\ e # None /\ e = Event(e.levels, e.payload, e.meant)
            /\ e.levels = levels /\ e.payload = payload /\ e.meant = meant
  <1>1. Event(levels, payload, meant) # None
    <2>1. "levels" \in DOMAIN Event(levels, payload, meant)
      BY DEF Event
    <2>2. "levels" \notin DOMAIN None
      BY DEF None
    <2> QED BY <2>1, <2>2
  <1> QED BY <1>1 DEF Event

\* Whatever a host sends is of one of these kinds.
LEMMA Sends ==
  ASSUME HostsInv, SendObject \/ SendUrl \/ SendNoise \/ Ask \/ Chat
  PROVE  Sent(event') /\ outcome = None
  <1>1. device \in DeviceIds /\ (event = None => outcome = None)
    BY DEF HostsInv
  <1>2. OtaTopic \in Seq(Level) /\ OtaTopic # <<>>
    BY <1>1, OtaTopicIs
  <1>3. CASE SendObject
    <2>1. PICK fields \in Objects, gap \in {<<>>, <<"sp">>} :
            event' = Event(OtaTopic, gap \o Object(fields, gap) \o gap,
                           [kind |-> "command", url |-> Says(fields, "url"), sha256 |-> Says(fields, "sha256")])
      BY <1>3 DEF SendObject, Deliver
    <2> DEFINE payload == gap \o Object(fields, gap) \o gap
               url == Says(fields, "url")
               sha == Says(fields, "sha256")
               meant == [kind |-> "command", url |-> url, sha256 |-> sha]
    <2>2. payload \in Seq(Chars) /\ parse_ota_payload(payload) = Wanted(payload, url, sha)
      BY ObjectUnderstood
    <2>3. event' = Event(OtaTopic, payload, meant)
      BY <2>1
    <2> HIDE DEF payload, url, sha
    <2>4. meant.kind = "command" /\ meant.url = url /\ meant.sha256 = sha
      OBVIOUS
    <2> HIDE DEF meant
    <2> QED BY <1>1, <1>2, <1>3, <2>2, <2>3, <2>4, EventIs DEF Sent, SendObject, Idle
  <1>4. CASE SendUrl
    <2>1. PICK url \in RawUrls, before \in {<<>>, <<"sp">>, <<"sp", "sp">>}, after \in {<<>>, <<"sp">>, <<"sp", "sp">>} :
            event' = Event(OtaTopic, before \o url \o after, [kind |-> "command", url |-> url, sha256 |-> <<>>])
      BY <1>4 DEF SendUrl, Deliver
    <2> DEFINE payload == before \o url \o after
               meant == [kind |-> "command", url |-> url, sha256 |-> <<>>]
    <2>2. payload \in Seq(Chars) /\ parse_ota_payload(payload) = Wanted(payload, url, <<>>)
      BY UrlUnderstood
    <2>3. event' = Event(OtaTopic, payload, meant)
      BY <2>1
    <2> HIDE DEF payload
    <2>4. meant.kind = "command" /\ meant.url = url /\ meant.sha256 = <<>>
      OBVIOUS
    <2> HIDE DEF meant
    <2> QED BY <1>1, <1>2, <1>4, <2>2, <2>3, <2>4, EventIs DEF Sent, SendUrl, Idle
  <1>5. CASE SendNoise
    <2>1. PICK payload \in Noise : event' = Event(OtaTopic, payload, NoCommand)
      BY <1>5 DEF SendNoise, Deliver
    <2>2. payload \in Seq(Chars)
      BY PayloadsAssumption
    <2> QED BY <1>1, <1>2, <1>5, <2>1, <2>2, EventIs DEF Sent, SendNoise, Idle
  <1>6. CASE Ask
    <2>1. PICK levels \in TopicNames, payload \in Requests, before \in {<<>>, <<"sp">>} :
            event' = Event(levels, before \o payload, [kind |-> "request"])
      BY <1>6 DEF Ask, Deliver
    <2> DEFINE p == before \o payload
               meant == [kind |-> "request"]
    <2>2. levels \in Seq(Level) /\ levels # <<>>
      BY TopicsAssumption
    <2>3. p \in Seq(Chars) /\ is_metrics_request_payload(p)
      BY AskedIs
    <2>4. event' = Event(levels, p, meant) /\ meant.kind = "request"
      BY <2>1
    <2> HIDE DEF p, meant
    <2> QED BY <1>1, <1>6, <2>2, <2>3, <2>4, EventIs DEF Sent, Ask, Idle
  <1>7. CASE Chat
    <2>1. PICK levels \in TopicNames, payload \in Chatter : event' = Event(levels, payload, NoCommand)
      BY <1>7 DEF Chat, Deliver, Chatter
    <2>2. levels \in Seq(Level) /\ levels # <<>>
      BY TopicsAssumption
    <2>3. payload \in Seq(Chars) /\ ~ is_metrics_request_payload(payload)
      BY ChatterIs
    <2> QED BY <1>1, <1>7, <2>1, <2>2, <2>3, EventIs DEF Sent, Chat, Idle
  <1> QED BY <1>3, <1>4, <1>5, <1>6, <1>7

\* The answer that comes back on the topic of the request.
LEMMA Returns ==
  ASSUME HostsInv, Return
  PROVE  event' = None \/ Sent(event')
  <1>1. device \in DeviceIds /\ Sent(event) /\ outcome = Data(Join(event.levels), event.payload, Join(device))
    BY DEF HostsInv, Return
  <1>2. event' = IF outcome.kind = "answer" THEN Event(event.levels, Reply(outcome.metric), NoCommand) ELSE None
    BY DEF Return
  <1>3. CASE outcome.kind = "answer"
    <2>1. PICK m \in Metrics : outcome = Answer(m)
      BY <1>1, <1>3, DataIs
    <2>2. outcome.metric = m
      BY <2>1 DEF Answer
    <2>3. Reply(m) \in Seq(Chars) /\ ~ is_metrics_request_payload(Reply(m))
      BY ReplyIs
    <2>4. event' = Event(event.levels, Reply(m), NoCommand)
      BY <1>2, <1>3, <2>2
    <2>5. event.levels \in Seq(Level) /\ event.levels # <<>>
      BY <1>1 DEF Sent
    <2> DEFINE levels == event.levels
               payload == Reply(m)
    <2>6. /\ event' = Event(levels, payload, NoCommand) /\ levels \in Seq(Level) /\ levels # <<>>
          /\ payload \in Seq(Chars) /\ ~ is_metrics_request_payload(payload)
      BY <2>3, <2>4, <2>5
    <2> HIDE DEF levels, payload
    <2>7. Sent(event')
      BY <2>6, EventIs DEF Sent
    <2> QED BY <2>7
  <1>4. CASE outcome.kind # "answer"
    BY <1>2, <1>4
  <1> QED BY <1>3, <1>4

\* The invariant holds first and is kept.
LEMMA HostsInvHolds == Spec => []HostsInv
  <1>1. Init => HostsInv
    BY DEF Init, HostsInv
  <1>2. HostsInv /\ [Next]_vars => HostsInv'
    <2> SUFFICES ASSUME HostsInv, [Next]_vars PROVE HostsInv'
      OBVIOUS
    <2>1. ASSUME device' = device PROVE (Sent(event))' <=> Sent(event')
      BY <2>1 DEF Sent, OtaTopic
    <2>2. CASE SendObject \/ SendUrl \/ SendNoise \/ Ask \/ Chat
      <3>1. Sent(event') /\ outcome = None
        BY <2>2, Sends
      <3>2. device' = device /\ outcome' = outcome
        BY <2>2 DEF SendObject, SendUrl, SendNoise, Ask, Chat, Deliver
      <3>3. (Sent(event))'
        BY <2>1, <3>1, <3>2
      <3>4. None' = None
        BY DEF None
      <3> QED BY <3>1, <3>2, <3>3, <3>4 DEF HostsInv
    <2>3. CASE HandleData
      <3>1. device' = device /\ event' = event /\ event # None
        BY <2>3 DEF HandleData, Idle
      <3>2. outcome' = Data(Join(event.levels), event.payload, Join(device))
        BY <2>3 DEF HandleData
      <3>3. Sent(event)
        BY <3>1 DEF HostsInv
      <3>4. (Sent(event))'
        BY <2>1, <3>1, <3>3
      <3> QED BY <3>1, <3>2, <3>4 DEF HostsInv
    <2>4. CASE Return
      <3>1. device' = device /\ outcome' = None
        BY <2>4 DEF Return
      <3>2. event' = None \/ Sent(event')
        BY <2>4, Returns
      <3>3. event' = None \/ (Sent(event))'
        BY <2>1, <3>1, <3>2
      <3> QED BY <3>1, <3>3 DEF HostsInv
    <2>5. CASE UNCHANGED vars
      <3>1. device' = device /\ event' = event /\ outcome' = outcome
        BY <2>5 DEF vars
      <3>2. (Sent(event))' <=> Sent(event)
        BY <2>1, <3>1
      <3> QED BY <3>1, <3>2 DEF HostsInv
    <2> QED BY <2>2, <2>3, <2>4, <2>5 DEF Next
  <1> QED BY <1>1, <1>2, PTL DEF Spec

-------------------------------------------------------------------------------
(* Theorems *)

\* Whatever topics hosts publish to and whatever they send, the device answers
\* exactly the documented requests for its own metrics (connectivity.c:182-326).
\* AnswerIs says so of every topic and text; what is left is that the
\* topic of commands is none that the subscription for metrics covers.
THEOREM RequestsAnswered == Spec => []AnswersRequests
  <1>1. HostsInv => AnswersRequests
    <2>1. SUFFICES ASSUME HostsInv, Handled, NEW m \in Metrics
                   PROVE  outcome = Answer(m) <=> event.meant.kind = "request" /\ Subscribed(event.levels) /\ event.levels[2] = <<m>>
      BY DEF AnswersRequests
    <2>2. device \in DeviceIds /\ Sent(event) /\ outcome = Data(Join(event.levels), event.payload, Join(device))
      BY <2>1 DEF HostsInv, Handled
    <2> DEFINE levels == event.levels
               payload == event.payload
    <2>3. levels \in Seq(Level) /\ levels # <<>> /\ payload \in Seq(Chars)
      BY <2>2 DEF Sent
    <2>4. outcome = Answer(m) <=> is_metrics_request_payload(payload) /\ Subscribed(levels) /\ levels[2] = <<m>>
      <3>1. outcome = Data(Join(levels), payload, Join(device))
        BY <2>2
      <3> HIDE DEF levels, payload
      <3> QED BY <2>2, <2>3, <3>1, AnswerIs
    <2>5. levels = OtaTopic => ~ Subscribed(levels)
      <3>1. OtaTopic[1] = <<"OTA">>
        BY <2>2, OtaTopicIs
      <3>2. <<"OTA">> # <<"Metrics">>
        OBVIOUS
      <3> QED BY <3>1, <3>2 DEF Subscribed
    <2>6. \/ event.meant.kind # "request" /\ levels = OtaTopic
          \/ event.meant.kind = "request" /\ is_metrics_request_payload(payload)
          \/ event.meant.kind # "request" /\ ~ is_metrics_request_payload(payload)
      BY <2>2 DEF Sent, NoCommand
    <2> HIDE DEF payload
    <2> QED BY <2>4, <2>5, <2>6
  <1> QED BY <1>1, HostsInvHolds, PTL

\* Every command sent in a documented form, whatever its fields, layout, texts
\* and the size of the buffers, is understood as its sender meant it, or refused
\* when it is no HTTPS URL or does not fit (connectivity.c:99-180, 361-389).
THEOREM CommandsAreUnderstood == Spec => []CommandsUnderstood
  <1>1. HostsInv => CommandsUnderstood
    <2>1. SUFFICES ASSUME HostsInv, Handled, event.meant.kind = "command"
                   PROVE  outcome = Wanted(event.payload, event.meant.url, event.meant.sha256)
      BY DEF CommandsUnderstood, Wanted
    <2>2. device \in DeviceIds /\ Sent(event) /\ outcome = Data(Join(event.levels), event.payload, Join(device))
      BY <2>1 DEF HostsInv, Handled
    <2>3. event.levels = OtaTopic /\ parse_ota_payload(event.payload) = Wanted(event.payload, event.meant.url, event.meant.sha256)
      BY <2>1, <2>2 DEF Sent, NoCommand
    <2>4. Data(Join(OtaTopic), event.payload, Join(device)) = parse_ota_payload(event.payload)
      <3>1. topic_matches_device(Join(OtaTopic), Join(device)) /\ Join(OtaTopic) # <<>>
        BY <2>2, OtaTopicIs DEF topic_matches_device
      <3> QED BY <3>1 DEF Data
    <2> QED BY <2>2, <2>3, <2>4
  <1> QED BY <1>1, HostsInvHolds, PTL

\* Whatever bytes arrive, a job's URL is a whole text of the
\* payload, HTTPS, and fits (connectivity.c:99-180): only the parser makes jobs,
\* and JobIsWhole holds of every text it may be given.
THEOREM JobsAreWhole == Spec => []JobsHaveWholeUrls
  <1>1. HostsInv => JobsHaveWholeUrls
    <2>1. SUFFICES ASSUME HostsInv, Handled, outcome.kind = "job"
                   PROVE  /\ IsPrefix(<<"https">>, outcome.url) /\ Len(outcome.url) < MaxUrl
                          /\ Whole(outcome.url, CString(event.payload))
      BY DEF JobsHaveWholeUrls, Whole, WholeAt
    <2>2. Sent(event) /\ outcome = Data(Join(event.levels), event.payload, Join(device))
      BY <2>1 DEF HostsInv, Handled
    <2>3. outcome = parse_ota_payload(event.payload)
      BY <2>1, <2>2, DataIs
    <2> DEFINE payload == event.payload
    <2>4. payload \in Seq(Chars) /\ outcome = parse_ota_payload(payload)
      BY <2>2, <2>3 DEF Sent
    <2> HIDE DEF payload
    <2>5. IsPrefix(<<"https">>, outcome.url) /\ Len(outcome.url) < MaxUrl /\ Whole(outcome.url, CString(payload))
      BY <2>1, <2>4, JobIsWhole
    <2> QED BY <2>5 DEF payload
  <1> QED BY <1>1, HostsInvHolds, PTL

================================================================================
