-------------------------- MODULE ConfigParserProofs --------------------------
(***************************************************************************)
(* What is read, for configurations of any length and any words, and for   *)
(* what may be left of their texts.                                        *)
(***************************************************************************)
EXTENDS ConfigParser, SequenceTheorems, FiniteSetTheorems, WellFoundedInduction, TLAPS

-------------------------------------------------------------------------------
(* Numbers, and sequences *)

LEMMA LeastOfNats ==
  ASSUME NEW I \in SUBSET Nat, I # {}
  PROVE  \E i \in I : \A j \in I : i <= j
<1>1. \E i \in I : \A j \in I : ~(<<j, i>> \in OpToRel(<, Nat))
  BY NatLessThanWellFounded, WFMin, Zenon
<1>2. \A i, j \in Nat : j < i => <<j, i>> \in OpToRel(<, Nat)
  BY Zenon DEF OpToRel
<1>3. \E i \in I : \A j \in I : ~(j < i)
  BY <1>1, <1>2
<1> QED
  BY <1>3

LEMMA MinOfNats ==
  ASSUME NEW I \in SUBSET Nat, I # {}
  PROVE  Min(I) \in I /\ \A j \in I : Min(I) <= j
<1>1. \E i \in I : \A j \in I : i <= j
  BY LeastOfNats
<1> QED
  BY <1>1 DEF Min

(* Numbers up to a bound have a largest one, which Max returns.             *)
LEMMA MaxOfNats ==
  ASSUME NEW bound \in Nat, NEW I \in SUBSET (0..bound), I # {}
  PROVE  Max(I) \in I /\ \A j \in I : j <= Max(I)
<1> DEFINE Gaps == {d \in 0..bound : bound - d \in I}
<1>1. Gaps \in SUBSET Nat /\ Gaps # {}
  <2>1. PICK j \in I : j \in 0..bound
    OBVIOUS
  <2>2. bound - j \in 0..bound /\ bound - (bound - j) = j
    BY <2>1
  <2>3. bound - j \in Gaps
    BY <2>1, <2>2
  <2> QED
    BY <2>3
<1>2. PICK d \in Gaps : \A e \in Gaps : d <= e
  BY <1>1, LeastOfNats
<1>3. d \in 0..bound /\ bound - d \in I
  BY <1>2
<1>4. ASSUME NEW j \in I PROVE j <= bound - d
  <2>1. j \in 0..bound /\ bound - j \in 0..bound /\ bound - (bound - j) = j
    OBVIOUS
  <2>2. bound - j \in Gaps
    BY <2>1
  <2>3. d <= bound - j
    BY <1>2, <2>2
  <2> QED
    BY <1>3, <2>1, <2>3
<1> QED
  BY <1>3, <1>4 DEF Max

(* The elements of a part of a sequence.                                    *)
LEMMA Part ==
  ASSUME NEW S, NEW s \in Seq(S), NEW m \in Nat, NEW n \in Nat,
         m <= n, n <= Len(s), NEW t, t = SubSeq(s, m + 1, n)
  PROVE  /\ t \in Seq(S) /\ Len(t) = n - m /\ DOMAIN t = 1..(n - m)
         /\ \A k \in 1..(n - m) : t[k] = s[m + k]
<1>1. \A i \in (m + 1)..n : s[i] \in S
  BY LenProperties, ElementOfSeq
<1>2. /\ t \in Seq(S)
      /\ Len(t) = IF m + 1 <= n THEN n - (m + 1) + 1 ELSE 0
      /\ \A k \in 1..(n - (m + 1) + 1) : t[k] = s[m + 1 + k - 1]
  BY <1>1, SubSeqProperties
<1>3. Len(t) = n - m /\ n - (m + 1) + 1 = n - m
  BY <1>2
<1>4. ASSUME NEW k \in 1..(n - m) PROVE t[k] = s[m + k]
  <2>1. m + 1 + k - 1 = m + k
    OBVIOUS
  <2> QED
    BY <1>2, <1>3, <2>1
<1> QED
  BY <1>2, <1>3, <1>4, LenProperties

-------------------------------------------------------------------------------
(* Sequences one after the other *)

Then(s, t) == s \o t

LEMMA ThenType ==
  ASSUME NEW S, NEW s \in Seq(S), NEW t \in Seq(S)
  PROVE  /\ Then(s, t) \in Seq(S) /\ Len(Then(s, t)) = Len(s) + Len(t)
         /\ \A i \in 1..Len(s) : Then(s, t)[i] = s[i]
         /\ \A i \in 1..Len(t) : Then(s, t)[Len(s) + i] = t[i]
<1>1. /\ Then(s, t) \in Seq(S) /\ Len(Then(s, t)) = Len(s) + Len(t)
      /\ \A i \in 1..(Len(s) + Len(t)) :
           Then(s, t)[i] = IF i <= Len(s) THEN s[i] ELSE t[i - Len(s)]
  BY ConcatProperties, Zenon DEF Then
<1>2. Len(s) \in Nat /\ Len(t) \in Nat
  BY LenProperties
<1>3. \A i \in 1..Len(s) : Then(s, t)[i] = s[i]
  BY <1>1, <1>2
<1>4. ASSUME NEW i \in 1..Len(t) PROVE Then(s, t)[Len(s) + i] = t[i]
  <2>1. /\ Len(s) + i \in 1..(Len(s) + Len(t)) /\ ~(Len(s) + i <= Len(s))
        /\ Len(s) + i - Len(s) = i
    BY <1>2
  <2> QED
    BY <1>1, <2>1
<1> QED
  BY <1>1, <1>3, <1>4

LEMMA ThenAssociative ==
  ASSUME NEW S, NEW s \in Seq(S), NEW t \in Seq(S), NEW u \in Seq(S)
  PROVE  Then(Then(s, t), u) = Then(s, Then(t, u))
<1>1. (s \o t) \o u = s \o (t \o u)
  BY ConcatAssociative
<1> QED
  BY <1>1, Zenon DEF Then

LEMMA ThenEmpty ==
  ASSUME NEW S, NEW s \in Seq(S)
  PROVE  Then(s, <<>>) = s /\ Then(<<>>, s) = s
  BY ConcatEmptySeq, Zenon DEF Then

LEMMA ThenCancels ==
  ASSUME NEW S, NEW s \in Seq(S), NEW t \in Seq(S), NEW u \in Seq(S),
         Then(s, t) = Then(s, u)
  PROVE  t = u
<1>1. s \o t = s \o u
  BY Zenon DEF Then
<1>2. \A T : \A x, y, z \in Seq(T) : x \o y = x \o z => y = z
  BY ConcatSimplifications
<1> QED
  BY <1>1, <1>2, Zenon

-------------------------------------------------------------------------------
(* Sequences that are laid out one after the other *)

Flat(seqs) ==
  CHOOSE flatten : flatten = [i \in 1..Len(seqs) |->
    IF i = 1 THEN seqs[i] ELSE flatten[i - 1] \o seqs[i]]

(* The recursive function is there to be chosen, for sequences of any       *)
(* length: the shortest beginning without one would have one.               *)
LEMMA FlatExists ==
  ASSUME NEW S, NEW seqs \in Seq(Seq(S)), Len(seqs) # 0
  PROVE  \E flatten : flatten = [i \in 1..Len(seqs) |->
           IF i = 1 THEN seqs[i] ELSE flatten[i - 1] \o seqs[i]]
<1> DEFINE Further(o, i) == o \o seqs[i]
           IsFlat(f, k) ==
             f = [i \in 1..k |-> IF i = 1 THEN seqs[i] ELSE Further(f[i - 1], i)]
           Undefined == {k \in 1..Len(seqs) : ~\E f : IsFlat(f, k)}
<1>0. Len(seqs) \in Nat
  BY LenProperties
<1>1. ASSUME Undefined # {} PROVE FALSE
  <2>1. Undefined \in SUBSET Nat
    <3> HIDE DEF IsFlat
    <3> QED
      BY <1>0
  <2>2. PICK k \in Undefined : \A j \in Undefined : k <= j
    BY <1>1, <2>1, LeastOfNats
  <2>3. k \in 1..Len(seqs) /\ k \in Nat
    BY <1>0, <2>2
  <2>4. k # 1
    <3> DEFINE e == [i \in 1..1 |-> seqs[1]]
    <3>1. e = [i \in 1..1 |-> IF i = 1 THEN seqs[i] ELSE Further(e[i - 1], i)]
      <4> HIDE DEF Further
      <4>1. \A i \in 1..1 : i = 1
        OBVIOUS
      <4>2. ASSUME NEW x
            PROVE  [i \in 1..1 |-> seqs[1]]
                     = [i \in 1..1 |-> IF i = 1 THEN seqs[i] ELSE Further(x[i - 1], i)]
        <5>1. \A i \in 1..1 : seqs[1] = IF i = 1 THEN seqs[i] ELSE Further(x[i - 1], i)
          BY <4>1
        <5> QED
          BY <5>1
      <4> QED
        BY <4>2, Zenon
    <3>2. \E f : IsFlat(f, 1)
      BY <3>1
    <3> HIDE DEF IsFlat
    <3> QED
      BY <2>2, <3>2
  <2>5. k - 1 \in 1..Len(seqs) /\ ~(k <= k - 1)
    BY <1>0, <2>3, <2>4
  <2>6. k - 1 \notin Undefined
    BY <2>2, <2>5
  <2>7. PICK f : IsFlat(f, k - 1)
    BY <2>5, <2>6
  <2> DEFINE g == [i \in 1..k |-> IF i = k THEN Further(f[k - 1], k) ELSE f[i]]
  <2>8. ASSUME NEW i \in 1..k
        PROVE  g[i] = IF i = 1 THEN seqs[i] ELSE Further(g[i - 1], i)
    <3> HIDE DEF Further
    <3>1. CASE i = k
      <4>1. g[i] = Further(f[k - 1], k) /\ g[i - 1] = f[k - 1]
        BY <2>3, <2>4, <3>1
      <4> QED
        BY <2>4, <3>1, <4>1
    <3>2. CASE i # k
      <4>1. i \in 1..(k - 1) /\ g[i] = f[i]
        BY <2>3, <3>2
      <4>2. f[i] = IF i = 1 THEN seqs[i] ELSE Further(f[i - 1], i)
        BY <2>7, <4>1
      <4>3. i # 1 => g[i - 1] = f[i - 1]
        BY <2>3, <4>1
      <4> QED
        BY <4>1, <4>2, <4>3
    <3> QED
      BY <3>1, <3>2
  <2>9. IsFlat(g, k)
    <3> HIDE DEF Further
    <3>1. g = [i \in 1..k |-> g[i]]
      OBVIOUS
    <3> HIDE DEF g
    <3> QED
      BY <2>8, <3>1
  <2> QED
    BY <2>2, <2>9
<1>2. \E f : IsFlat(f, Len(seqs))
  <2>1. Len(seqs) \in 1..Len(seqs)
    BY <1>0
  <2> HIDE DEF IsFlat
  <2> QED
    BY <1>1, <2>1
<1> QED
  BY <1>2

LEMMA FlatStep ==
  ASSUME NEW S, NEW seqs \in Seq(Seq(S)), Len(seqs) # 0
  PROVE  /\ FlattenSeq(seqs) = Flat(seqs)[Len(seqs)]
         /\ Flat(seqs)[1] = seqs[1]
         /\ \A i \in 2..Len(seqs) : Flat(seqs)[i] = Then(Flat(seqs)[i - 1], seqs[i])
<1> DEFINE Goes(f) ==
             f = [i \in 1..Len(seqs) |-> IF i = 1 THEN seqs[i] ELSE f[i - 1] \o seqs[i]]
           e == CHOOSE f : Goes(f)
<1>0. Flat(seqs) = e
  BY DEF Flat
<1>1. FlattenSeq(seqs) = e[Len(seqs)]
  BY DEF FlattenSeq
<1>2. \E f : Goes(f)
  BY FlatExists
<1>3. Goes(e)
  <2> HIDE DEF Goes
  <2> QED
    BY <1>2
<1>4. Len(seqs) \in Nat
  BY LenProperties
<1>5. 1 \in 1..Len(seqs) /\ \A i \in 2..Len(seqs) : i \in 1..Len(seqs) /\ i # 1
  BY <1>4
<1> HIDE DEF e
<1>6. \A i \in 1..Len(seqs) :
        e[i] = IF i = 1 THEN seqs[i] ELSE Then(e[i - 1], seqs[i])
  BY <1>3 DEF Then
<1> QED
  BY <1>0, <1>1, <1>5, <1>6

LEMMA FlatType ==
  ASSUME NEW S, NEW seqs \in Seq(Seq(S))
  PROVE  /\ \A k \in 1..Len(seqs) : Flat(seqs)[k] \in Seq(S)
         /\ FlattenSeq(seqs) \in Seq(S)
<1>0. Len(seqs) \in Nat /\ \A k \in 1..Len(seqs) : seqs[k] \in Seq(S)
  BY LenProperties, ElementOfSeq
<1> DEFINE Wrong == {k \in 1..Len(seqs) : Flat(seqs)[k] \notin Seq(S)}
<1>1. ASSUME Wrong # {} PROVE FALSE
  <2>1. Wrong \in SUBSET Nat
    BY <1>0
  <2>2. PICK k \in Wrong : \A j \in Wrong : k <= j
    BY <1>1, <2>1, LeastOfNats
  <2>3. k \in 1..Len(seqs) /\ Flat(seqs)[k] \notin Seq(S) /\ Len(seqs) # 0
    BY <1>0, <2>2
  <2>4. k # 1
    BY <1>0, <2>3, FlatStep
  <2>5. k \in 2..Len(seqs) /\ k - 1 \in 1..Len(seqs) /\ ~(k <= k - 1)
    BY <1>0, <2>3, <2>4
  <2>6. Flat(seqs)[k - 1] \in Seq(S)
    BY <2>2, <2>5
  <2>7. Flat(seqs)[k] = Then(Flat(seqs)[k - 1], seqs[k])
    BY <2>3, <2>5, FlatStep
  <2> QED
    BY <1>0, <2>3, <2>6, <2>7, ThenType
<1>2. \A k \in 1..Len(seqs) : Flat(seqs)[k] \in Seq(S)
  BY <1>1
<1>3. CASE Len(seqs) = 0
  <2>1. seqs = <<>> /\ FlattenSeq(seqs) = seqs
    BY <1>3, EmptySeq DEF FlattenSeq
  <2> QED
    BY <1>2, <2>1, EmptySeq
<1>4. CASE Len(seqs) # 0
  <2>1. Len(seqs) \in 1..Len(seqs)
    BY <1>0, <1>4
  <2> QED
    BY <1>2, <1>4, <2>1, FlatStep
<1> QED
  BY <1>3, <1>4

(* What follows the first ones is a sequence.                               *)
LEMMA FlatFront ==
  ASSUME NEW S, NEW seqs \in Seq(Seq(S)), NEW k \in 1..Len(seqs)
  PROVE  \E r \in Seq(S) : FlattenSeq(seqs) = Then(Flat(seqs)[k], r)
<1>0. Len(seqs) \in Nat /\ \A i \in 1..Len(seqs) : seqs[i] \in Seq(S)
  BY LenProperties, ElementOfSeq
<1> DEFINE n == Len(seqs)
           Good(i) == \E r \in Seq(S) : FlattenSeq(seqs) = Then(Flat(seqs)[i], r)
           Wrong == {d \in 0..(n - 1) : ~Good(n - d)}
<1> HIDE DEF Good
<1>1. ASSUME Wrong # {} PROVE FALSE
  <2>1. Wrong \in SUBSET Nat
    BY <1>0
  <2>2. PICK d \in Wrong : \A e \in Wrong : d <= e
    BY <1>1, <2>1, LeastOfNats
  <2>3. d \in 0..(n - 1) /\ ~Good(n - d) /\ n # 0
    BY <1>0, <2>2
  <2>4. d # 0
    <3>1. n \in 1..n
      BY <1>0, <2>3
    <3>2. Flat(seqs)[n] \in Seq(S) /\ FlattenSeq(seqs) = Flat(seqs)[n]
      BY <2>3, <3>1, FlatType, FlatStep
    <3>3. FlattenSeq(seqs) = Then(Flat(seqs)[n], <<>>) /\ <<>> \in Seq(S)
      BY <3>2, ThenEmpty, EmptySeq
    <3>4. Good(n)
      BY <3>3 DEF Good
    <3>5. d = 0 => n - d = n
      BY <1>0
    <3> QED
      BY <2>3, <3>4, <3>5
  <2> DEFINE i == n - d
  <2>5. /\ d - 1 \in 0..(n - 1) /\ ~(d <= d - 1) /\ n - (d - 1) = i + 1
        /\ i + 1 \in 2..n /\ i \in 1..n /\ i + 1 - 1 = i /\ i + 1 \in 1..n
    BY <1>0, <2>3, <2>4
  <2>6. Good(i + 1)
    BY <2>2, <2>5
  <2> HIDE DEF i
  <2>7. PICK r \in Seq(S) : FlattenSeq(seqs) = Then(Flat(seqs)[i + 1], r)
    BY <2>6 DEF Good
  <2>8. Flat(seqs)[i + 1] = Then(Flat(seqs)[i], seqs[i + 1])
    BY <2>3, <2>5, FlatStep
  <2>9. Flat(seqs)[i] \in Seq(S) /\ seqs[i + 1] \in Seq(S)
    BY <1>0, <2>5, FlatType
  <2>10. FlattenSeq(seqs) = Then(Flat(seqs)[i], Then(seqs[i + 1], r))
    BY <2>7, <2>8, <2>9, ThenAssociative
  <2>11. Then(seqs[i + 1], r) \in Seq(S)
    BY <2>9, ThenType
  <2>12. Good(i)
    BY <2>10, <2>11 DEF Good
  <2> QED
    BY <2>3, <2>12 DEF i
<1>2. n - k \in 0..(n - 1) /\ n - (n - k) = k
  BY <1>0
<1>3. Good(k)
  BY <1>1, <1>2
<1> QED
  BY <1>3 DEF Good

\* STRING has these words too, which the provers cannot tell.
Keywords ==
  {EMPTY, OPEN, "unset", "server", "listen", "return", "error_page"}
    \cup ServerWords \cup LocationWords
AnyWord == STRING \cup Keywords
Token == [word : AnyWord, semi : BOOLEAN]

LEMMA KeywordsAreWords ==
  /\ \A word \in Keywords : word \in AnyWord
  /\ \A word \in STRING : word \in AnyWord
  BY DEF AnyWord

LEMMA KeywordsAre ==
  Keywords = {EMPTY, OPEN, "unset", "server", "listen", "return", "error_page", "root",
              "client_body_size_limit", "server_name", "location", CLOSE,
              "allowed_method", "index", "cgi_extension", "autoindex"}
  BY DEF Keywords, ServerWords, LocationWords, Once, Lists

\* What is left of some texts from the k-th one on.
After(texts, k) == CHOOSE r \in Seq(Token) : FlattenSeq(texts) = Then(Flat(texts)[k], r)
From(texts, k) == IF k = 1 THEN FlattenSeq(texts) ELSE After(texts, k - 1)

LEMMA FromNext ==
  ASSUME NEW texts \in Seq(Seq(Token))
  PROVE  /\ From(texts, 1) = FlattenSeq(texts)
         /\ From(texts, Len(texts) + 1) = <<>>
         /\ \A k \in 1..(Len(texts) + 1) : From(texts, k) \in Seq(Token)
         /\ \A k \in 1..Len(texts) : From(texts, k) = Then(texts[k], From(texts, k + 1))
<1> DEFINE n == Len(texts)
<1>0. n \in Nat /\ \A i \in 1..n : texts[i] \in Seq(Token)
  BY LenProperties, ElementOfSeq
<1>1. From(texts, 1) = FlattenSeq(texts) /\ FlattenSeq(texts) \in Seq(Token)
  BY FlatType DEF From
<1>2. ASSUME NEW k \in 1..n
      PROVE  /\ From(texts, k + 1) \in Seq(Token)
             /\ FlattenSeq(texts) = Then(Flat(texts)[k], From(texts, k + 1))
  <2>1. \E r \in Seq(Token) : FlattenSeq(texts) = Then(Flat(texts)[k], r)
    BY FlatFront
  <2>2. k + 1 # 1 /\ k + 1 - 1 = k
    BY <1>0
  <2>3. From(texts, k + 1) = After(texts, k)
    BY <2>2 DEF From
  <2> QED
    BY <2>1, <2>3 DEF After
<1>3. From(texts, n + 1) = <<>>
  <2>1. CASE n = 0
    <3>1. texts = <<>> /\ FlattenSeq(texts) = texts
      BY <2>1, EmptySeq DEF FlattenSeq
    <3>2. n + 1 = 1
      BY <2>1
    <3> QED
      BY <1>1, <3>1, <3>2
  <2>2. CASE n # 0
    <3>1. n \in 1..n
      BY <1>0, <2>2
    <3>2. Flat(texts)[n] \in Seq(Token) /\ FlattenSeq(texts) = Flat(texts)[n]
      BY <2>2, <3>1, FlatType, FlatStep
    <3>3. Then(Flat(texts)[n], <<>>) = Then(Flat(texts)[n], From(texts, n + 1))
      BY <1>2, <3>1, <3>2, ThenEmpty
    <3>4. From(texts, n + 1) \in Seq(Token) /\ <<>> \in Seq(Token)
      BY <1>2, <3>1, EmptySeq
    <3> QED
      BY <3>2, <3>3, <3>4, ThenCancels
  <2> QED
    BY <2>1, <2>2
<1>4. ASSUME NEW k \in 1..(n + 1) PROVE From(texts, k) \in Seq(Token)
  <2>1. CASE k = 1
    BY <1>1, <2>1
  <2>2. CASE k # 1
    <3>1. k - 1 \in 1..n /\ k - 1 + 1 = k
      BY <1>0, <2>2
    <3>2. From(texts, k - 1 + 1) \in Seq(Token)
      BY <1>2, <3>1
    <3> QED
      BY <3>1, <3>2
  <2> QED
    BY <2>1, <2>2
<1>5. ASSUME NEW k \in 1..n PROVE From(texts, k) = Then(texts[k], From(texts, k + 1))
  <2>0. n # 0 /\ From(texts, k + 1) \in Seq(Token) /\ texts[k] \in Seq(Token)
    BY <1>0, <1>2
  <2>1. CASE k = 1
    <3>1. Flat(texts)[k] = texts[k]
      BY <2>0, <2>1, FlatStep
    <3> QED
      BY <1>1, <1>2, <2>1, <3>1
  <2>2. CASE k # 1
    <3>1. k \in 2..n /\ k - 1 \in 1..n /\ k - 1 + 1 = k
      BY <1>0, <2>2
    <3>2. Flat(texts)[k] = Then(Flat(texts)[k - 1], texts[k])
      BY <2>0, <3>1, FlatStep
    <3>3. Flat(texts)[k - 1] \in Seq(Token)
      BY <3>1, FlatType
    <3>4. FlattenSeq(texts) = Then(Flat(texts)[k - 1], Then(texts[k], From(texts, k + 1)))
      BY <1>2, <2>0, <3>2, <3>3, ThenAssociative
    <3>5. /\ From(texts, k - 1 + 1) \in Seq(Token)
          /\ FlattenSeq(texts) = Then(Flat(texts)[k - 1], From(texts, k - 1 + 1))
      BY <1>2, <3>1
    <3>6. /\ From(texts, k) \in Seq(Token)
          /\ FlattenSeq(texts) = Then(Flat(texts)[k - 1], From(texts, k))
      BY <3>1, <3>5
    <3>7. Then(texts[k], From(texts, k + 1)) \in Seq(Token)
      BY <2>0, ThenType
    <3>8. Then(Flat(texts)[k - 1], From(texts, k))
            = Then(Flat(texts)[k - 1], Then(texts[k], From(texts, k + 1)))
      BY <3>4, <3>6
    <3> QED
      BY <3>3, <3>6, <3>7, <3>8, ThenCancels
  <2> QED
    BY <2>1, <2>2
<1> QED
  BY <1>1, <1>3, <1>4, <1>5

-------------------------------------------------------------------------------
(* The text of a configuration *)

LEMMA FunctionIsSeq ==
  ASSUME NEW S, NEW n \in Nat, NEW f \in [1..n -> S]
  PROVE  f \in Seq(S) /\ Len(f) = n
<1>1. f \in Seq(S)
  BY SeqDef
<1>2. Len(f) \in Nat /\ 1..Len(f) = 1..n
  BY <1>1, LenProperties
<1>3. \A i : i \in 1..Len(f) <=> i \in 1..n
  BY <1>2
<1>4. (n # 0 => n \in 1..n) /\ (Len(f) # 0 => Len(f) \in 1..Len(f))
  BY <1>2
<1>5. (n # 0 => n <= Len(f) /\ Len(f) # 0) /\ (Len(f) # 0 => Len(f) <= n /\ n # 0)
  <2>1. n # 0 => n \in 1..Len(f)
    BY <1>3, <1>4
  <2>2. Len(f) # 0 => Len(f) \in 1..n
    BY <1>3, <1>4
  <2> QED
    BY <1>2, <2>1, <2>2
<1> QED
  BY <1>1, <1>2, <1>5

LEMMA ThenTokens ==
  ASSUME NEW s \in Seq(Token), NEW t \in Seq(Token)
  PROVE  /\ Then(s, t) \in Seq(Token) /\ Len(Then(s, t)) = Len(s) + Len(t)
         /\ \A i \in 1..Len(s) : Then(s, t)[i] = s[i]
         /\ \A i \in 1..Len(t) : Then(s, t)[Len(s) + i] = t[i]
<1>1. Then(s, t) \in Seq(Token)
  BY ThenType
<1>2. Len(Then(s, t)) = Len(s) + Len(t)
  BY ThenType
<1>3. \A i \in 1..Len(s) : Then(s, t)[i] = s[i]
  BY ThenType
<1>4. \A i \in 1..Len(t) : Then(s, t)[Len(s) + i] = t[i]
  BY ThenType
<1> QED
  BY <1>1, <1>2, <1>3, <1>4

LEMMA TokenType ==
  ASSUME NEW word \in AnyWord
  PROVE  /\ W(word) \in Token /\ End(word) \in Token
         /\ W(word).word = word /\ W(word).semi = FALSE
         /\ End(word).word = word /\ End(word).semi = TRUE
  BY DEF W, End, Token

LEMMA Single ==
  ASSUME NEW S, NEW a \in S
  PROVE  <<a>> \in Seq(S) /\ Len(<<a>>) = 1 /\ <<a>>[1] = a
  OBVIOUS

LEMMA Double ==
  ASSUME NEW S, NEW a \in S, NEW b \in S
  PROVE  <<a, b>> \in Seq(S) /\ Len(<<a, b>>) = 2 /\ <<a, b>>[1] = a /\ <<a, b>>[2] = b
  OBVIOUS

LEMMA Triple ==
  ASSUME NEW S, NEW a \in S, NEW b \in S, NEW c \in S
  PROVE  /\ <<a, b, c>> \in Seq(S) /\ Len(<<a, b, c>>) = 3
         /\ <<a, b, c>>[1] = a /\ <<a, b, c>>[2] = b /\ <<a, b, c>>[3] = c
  OBVIOUS

LEMMA OptionalType ==
  ASSUME NEW keyword \in AnyWord, NEW word \in AnyWord
  PROVE  /\ Optional(keyword, word) \in Seq(Token)
         /\ word = EMPTY => Optional(keyword, word) = <<>>
         /\ word # EMPTY => /\ Len(Optional(keyword, word)) = 2
                         /\ Optional(keyword, word)[1] = W(keyword)
                         /\ Optional(keyword, word)[2] = End(word)
<1>1. W(keyword) \in Token /\ End(word) \in Token
  BY TokenType
<1>2. One(keyword, word) = <<W(keyword), End(word)>>
  BY DEF One
<1>3. /\ One(keyword, word) \in Seq(Token) /\ Len(One(keyword, word)) = 2
      /\ One(keyword, word)[1] = W(keyword) /\ One(keyword, word)[2] = End(word)
  <2> DEFINE a == W(keyword)
             b == End(word)
  <2> HIDE DEF a, b
  <2>1. a \in Token /\ b \in Token
    BY <1>1 DEF a, b
  <2>2. <<a, b>> \in Seq(Token) /\ Len(<<a, b>>) = 2 /\ <<a, b>>[1] = a /\ <<a, b>>[2] = b
    BY <2>1, Double
  <2> QED
    BY <1>2, <2>2, Zenon DEF a, b
<1> QED
  BY <1>3, EmptySeq DEF Optional

\* The words that follow a keyword; the last one has the ';'.
Following(words) == [i \in DOMAIN words |-> [word |-> words[i], semi |-> i = Len(words)]]

LEMMA FollowingType ==
  ASSUME NEW words \in Seq(STRING)
  PROVE  /\ Following(words) \in Seq(Token) /\ Len(Following(words)) = Len(words)
         /\ \A i \in 1..Len(words) :
              Following(words)[i] = [word |-> words[i], semi |-> i = Len(words)]
<1>1. Len(words) \in Nat /\ DOMAIN words = 1..Len(words)
  BY LenProperties
<1>2. \A i \in 1..Len(words) : words[i] \in STRING
  BY ElementOfSeq
<1>3. \A i \in 1..Len(words) : [word |-> words[i], semi |-> i = Len(words)] \in Token
  BY <1>2, KeywordsAreWords DEF Token
<1>4. Following(words)
        = [i \in 1..Len(words) |-> [word |-> words[i], semi |-> i = Len(words)]]
  BY <1>1 DEF Following
<1>5. Following(words) \in [1..Len(words) -> Token]
  BY <1>3, <1>4
<1> QED
  BY <1>1, <1>4, <1>5, FunctionIsSeq

LEMMA SeveralType ==
  ASSUME NEW keyword \in AnyWord, NEW words \in Seq(STRING)
  PROVE  /\ Several(keyword, words) \in Seq(Token)
         /\ words = <<>> => Several(keyword, words) = <<>>
         /\ words # <<>> =>
              /\ Len(words) \in Nat \ {0}
              /\ Len(Several(keyword, words)) = 1 + Len(words)
              /\ Several(keyword, words)[1] = W(keyword)
              /\ \A n \in 1..Len(words) :
                   Several(keyword, words)[1 + n] = [word |-> words[n], semi |-> n = Len(words)]
<1>1. CASE words = <<>>
  BY <1>1, EmptySeq DEF Several
<1>2. CASE words # <<>>
  <2>1. Len(words) \in Nat \ {0}
    BY <1>2, EmptySeq
  <2>2. Several(keyword, words) = Then(<<W(keyword)>>, Following(words))
    BY <1>2, Zenon DEF Several, Then, Following
  <2>3. <<W(keyword)>> \in Seq(Token) /\ Len(<<W(keyword)>>) = 1 /\ <<W(keyword)>>[1] = W(keyword)
    BY TokenType, Single
  <2> DEFINE a == <<W(keyword)>>
             b == Following(words)
  <2>4. b \in Seq(Token) /\ Len(b) = Len(words)
    BY FollowingType
  <2> HIDE DEF a
  <2>6. /\ a \in Seq(Token) /\ Len(a) = 1 /\ a[1] = W(keyword)
        /\ Several(keyword, words) = Then(a, b)
    BY <2>2, <2>3 DEF a
  <2> HIDE DEF b
  <2>5. /\ Then(a, b) \in Seq(Token) /\ Len(Then(a, b)) = Len(a) + Len(b)
        /\ \A i \in 1..Len(a) : Then(a, b)[i] = a[i]
        /\ \A i \in 1..Len(b) : Then(a, b)[Len(a) + i] = b[i]
    <3>1. a \in Seq(Token)
      BY <2>6
    <3>2. b \in Seq(Token)
      BY <2>4
    <3> QED
      BY <3>1, <3>2, ThenTokens
  <2>7. Then(a, b)[1] = W(keyword)
    <3>1. 1 \in 1..Len(a)
      BY <2>6
    <3> QED
      BY <2>5, <2>6, <3>1
  <2>8. \A n \in 1..Len(words) : Then(a, b)[1 + n] = b[n]
    BY <2>4, <2>5, <2>6
  <2>9. \A n \in 1..Len(words) :
          Then(a, b)[1 + n] = [word |-> words[n], semi |-> n = Len(words)]
    BY <2>8, FollowingType DEF b
  <2> QED
    BY <1>2, <2>1, <2>4, <2>5, <2>6, <2>7, <2>9
<1> QED
  BY <1>1, <1>2

LEMMA PairTextsType ==
  ASSUME NEW keyword \in AnyWord, NEW pairs \in Seq(STRING \X STRING)
  PROVE  /\ PairTexts(keyword, pairs) \in Seq(Seq(Token))
         /\ Len(PairTexts(keyword, pairs)) = Len(pairs)
         /\ \A i \in 1..Len(pairs) :
              /\ pairs[i][1] \in STRING /\ pairs[i][2] \in STRING
              /\ PairTexts(keyword, pairs)[i]
                   = <<W(keyword), W(pairs[i][1]), End(pairs[i][2])>>
         /\ Pairs(keyword, pairs) \in Seq(Token)
<1>1. Len(pairs) \in Nat /\ DOMAIN pairs = 1..Len(pairs)
  BY LenProperties
<1>2. \A i \in 1..Len(pairs) : pairs[i] \in STRING \X STRING
  BY ElementOfSeq
<1>3. \A i \in 1..Len(pairs) : pairs[i][1] \in STRING /\ pairs[i][2] \in STRING
  BY <1>2
<1>4. \A i \in 1..Len(pairs) :
        <<W(keyword), W(pairs[i][1]), End(pairs[i][2])>> \in Seq(Token)
  <2> TAKE i \in 1..Len(pairs)
  <2>1. W(keyword) \in Token /\ W(pairs[i][1]) \in Token /\ End(pairs[i][2]) \in Token
    BY <1>3, TokenType, KeywordsAreWords
  <2> QED
    BY <2>1, Triple
<1>5. PairTexts(keyword, pairs)
        = [i \in 1..Len(pairs) |-> <<W(keyword), W(pairs[i][1]), End(pairs[i][2])>>]
  BY <1>1 DEF PairTexts
<1>6. PairTexts(keyword, pairs) \in [1..Len(pairs) -> Seq(Token)]
  BY <1>4, <1>5
<1>7. PairTexts(keyword, pairs) \in Seq(Seq(Token))
  BY <1>1, <1>6, FunctionIsSeq
<1> QED
  BY <1>1, <1>3, <1>5, <1>6, <1>7, FunctionIsSeq, FlatType DEF Pairs

-------------------------------------------------------------------------------
(* What is left of a block, with the rest r that follows the block *)

Close == <<W(CLOSE)>>

ReturnsLeft(l, m, r) == Then(From(PairTexts("return", l.redirect), m), Then(Close, r))
CgiLeft(l, r) == Then(Several("cgi_extension", l.cgi), ReturnsLeft(l, 1, r))
AutoindexText(l) == IF l.autoindex = "unset" THEN <<>> ELSE One("autoindex", l.autoindex)
AutoindexLeft(l, r) == Then(AutoindexText(l), CgiLeft(l, r))
IndexLeft(l, r) == Then(Several("index", l.indexes), AutoindexLeft(l, r))
MethodsLeft(l, r) == Then(Several("allowed_method", l.methods), IndexLeft(l, r))
LocationLeft(l, r) == Then(Optional("root", l.root), MethodsLeft(l, r))

LocationsLeft(s, j, r) == Then(From(LocationTexts(s), j), Then(Close, r))
LimitLeft(s, r) == Then(Optional("client_body_size_limit", s.limit), LocationsLeft(s, 1, r))
PagesLeft(s, e, r) == Then(From(PairTexts("error_page", s.error_pages), e), LimitLeft(s, r))
RootLeft(s, r) == Then(Optional("root", s.root), PagesLeft(s, 1, r))
NamesLeft(s, r) == Then(Several("server_name", s.names), RootLeft(s, r))
ServerLeft(s, r) == Then(Optional("listen", s.listen), NamesLeft(s, r))

LEMMA CloseType == Close \in Seq(Token) /\ Len(Close) = 1 /\ Close[1] = W(CLOSE)
<1>1. CLOSE \in AnyWord
  BY KeywordsAreWords, KeywordsAre
<1>2. W(CLOSE) \in Token
  BY <1>1, TokenType
<1> QED
  BY <1>2, Single DEF Close

LEMMA LocationLeftType ==
  ASSUME NEW l \in LocationDoc, NEW r \in Seq(Token)
  PROVE  /\ Then(Close, r) \in Seq(Token)
         /\ \A m \in 1..(Len(l.redirect) + 1) :
              /\ From(PairTexts("return", l.redirect), m) \in Seq(Token)
              /\ ReturnsLeft(l, m, r) \in Seq(Token)
         /\ CgiLeft(l, r) \in Seq(Token)
         /\ AutoindexText(l) \in Seq(Token) /\ AutoindexLeft(l, r) \in Seq(Token)
         /\ IndexLeft(l, r) \in Seq(Token) /\ MethodsLeft(l, r) \in Seq(Token)
         /\ LocationLeft(l, r) \in Seq(Token)
<1>0. /\ l.location \in STRING /\ l.root \in STRING /\ l.methods \in Seq(STRING)
      /\ l.indexes \in Seq(STRING) /\ l.autoindex \in STRING /\ l.cgi \in Seq(STRING)
      /\ l.redirect \in Seq(STRING \X STRING)
  BY DEF LocationDoc
<1>1. Then(Close, r) \in Seq(Token)
  BY CloseType, ThenTokens
<1>2. /\ PairTexts("return", l.redirect) \in Seq(Seq(Token))
      /\ Len(PairTexts("return", l.redirect)) = Len(l.redirect)
  <2>1. "return" \in AnyWord
    BY KeywordsAreWords, KeywordsAre
  <2> QED
    BY <1>0, <2>1, PairTextsType
<1>3. \A m \in 1..(Len(l.redirect) + 1) :
        From(PairTexts("return", l.redirect), m) \in Seq(Token)
  BY <1>2, FromNext
<1>4. \A m \in 1..(Len(l.redirect) + 1) : ReturnsLeft(l, m, r) \in Seq(Token)
  BY <1>1, <1>3, ThenTokens DEF ReturnsLeft
<1>5. Len(l.redirect) \in Nat
  BY <1>0, LenProperties
<1>6. ReturnsLeft(l, 1, r) \in Seq(Token)
  BY <1>4, <1>5
<1>7. CgiLeft(l, r) \in Seq(Token)
  <2>1. "cgi_extension" \in AnyWord
    BY KeywordsAreWords, KeywordsAre
  <2>2. Several("cgi_extension", l.cgi) \in Seq(Token)
    BY <1>0, <2>1, SeveralType
  <2> QED
    BY <1>6, <2>2, ThenTokens DEF CgiLeft
<1>8. AutoindexText(l) \in Seq(Token)
  <2>1. AutoindexText(l) = <<>> \/ AutoindexText(l) = One("autoindex", l.autoindex)
    BY DEF AutoindexText
  <2>2. One("autoindex", l.autoindex) \in Seq(Token)
    <3>0. "autoindex" \in AnyWord
      BY KeywordsAreWords, KeywordsAre
    <3>1. W("autoindex") \in Token /\ End(l.autoindex) \in Token
      BY <1>0, <3>0, TokenType, KeywordsAreWords
    <3> QED
      BY <3>1, Double DEF One
  <2> QED
    BY <2>1, <2>2, EmptySeq
<1>9. AutoindexLeft(l, r) \in Seq(Token)
  BY <1>7, <1>8, ThenTokens DEF AutoindexLeft
<1>10. IndexLeft(l, r) \in Seq(Token)
  <2>1. "index" \in AnyWord
    BY KeywordsAreWords, KeywordsAre
  <2>2. Several("index", l.indexes) \in Seq(Token)
    BY <1>0, <2>1, SeveralType
  <2> QED
    BY <1>9, <2>2, ThenTokens DEF IndexLeft
<1>11. MethodsLeft(l, r) \in Seq(Token)
  <2>1. "allowed_method" \in AnyWord
    BY KeywordsAreWords, KeywordsAre
  <2>2. Several("allowed_method", l.methods) \in Seq(Token)
    BY <1>0, <2>1, SeveralType
  <2> QED
    BY <1>10, <2>2, ThenTokens DEF MethodsLeft
<1>12. LocationLeft(l, r) \in Seq(Token)
  <2>1. "root" \in AnyWord
    BY KeywordsAreWords, KeywordsAre
  <2>2. Optional("root", l.root) \in Seq(Token)
    BY <1>0, <2>1, OptionalType, KeywordsAreWords
  <2> QED
    BY <1>11, <2>2, ThenTokens DEF LocationLeft
<1> QED
  BY <1>1, <1>3, <1>4, <1>7, <1>8, <1>9, <1>10, <1>11, <1>12

\* Four sequences after one another.
Laid(a, b, c, d) == a \o b \o c \o d
Nested(a, b, c, d, r) == Then(a, Then(b, Then(c, Then(d, r))))

(* They are read one by one.                                                *)
LEMMA Chain ==
  ASSUME NEW a \in Seq(Token), NEW b \in Seq(Token), NEW c \in Seq(Token),
         NEW d \in Seq(Token), NEW r \in Seq(Token)
  PROVE  /\ Laid(a, b, c, d) \in Seq(Token)
         /\ Then(Laid(a, b, c, d), r) = Nested(a, b, c, d, r)
<1> DEFINE b1 == Then(a, b)
           c1 == Then(b1, c)
           d1 == Then(c1, d)
           dr == Then(d, r)
           cr == Then(c, dr)
           br == Then(b, cr)
<1>1. Laid(a, b, c, d) = d1
  BY Zenon DEF Then, Laid
<1>2. b1 \in Seq(Token) /\ dr \in Seq(Token)
  BY ThenTokens
<1>3. c1 \in Seq(Token)
  <2> HIDE DEF b1
  <2> QED
    BY <1>2, ThenTokens
<1>4. cr \in Seq(Token)
  <2> HIDE DEF dr
  <2> QED
    BY <1>2, ThenTokens
<1>5. d1 \in Seq(Token) /\ Then(d1, r) = Then(c1, dr)
  <2> HIDE DEF c1
  <2> QED
    BY <1>3, ThenTokens, ThenAssociative
<1>6. Then(c1, dr) = Then(b1, cr)
  <2> HIDE DEF b1, dr
  <2> QED
    BY <1>2, ThenAssociative
<1>7. Then(b1, cr) = Then(a, br)
  <2> HIDE DEF cr
  <2> QED
    BY <1>4, ThenAssociative
<1>8. Then(d1, r) = Then(a, br)
  <2> HIDE DEF d1, c1, b1, dr, cr, br
  <2> QED
    BY <1>5, <1>6, <1>7
<1> QED
  BY <1>1, <1>5, <1>8, Zenon DEF Nested

\* The beginning of a block.
Opened(first, word) == <<W(first), W(word), W(OPEN)>>

LEMMA LocationIsLaidOut ==
  ASSUME NEW l \in LocationDoc
  PROVE  /\ Opened("location", l.location) \in Seq(Token)
         /\ LocationText(l) \in Seq(Token)
         /\ \A r \in Seq(Token) :
              Then(LocationText(l), r) = Then(Opened("location", l.location), LocationLeft(l, r))
<1> DEFINE a == Opened("location", l.location)
           b == Optional("root", l.root)
           c == Several("allowed_method", l.methods)
           d == Several("index", l.indexes)
           e == AutoindexText(l)
           f == Several("cgi_extension", l.cgi)
           g == From(PairTexts("return", l.redirect), 1)
           h == Close
<1>0. /\ l.location \in AnyWord /\ l.root \in AnyWord /\ l.methods \in Seq(STRING)
      /\ l.indexes \in Seq(STRING) /\ l.cgi \in Seq(STRING)
      /\ l.redirect \in Seq(STRING \X STRING)
  BY KeywordsAreWords DEF LocationDoc
<1>1. \A word \in {"location", OPEN, "root", "allowed_method", "index", "cgi_extension",
                   "return"} : word \in AnyWord
  BY KeywordsAreWords, KeywordsAre
<1>2. a \in Seq(Token)
  <2>1. W("location") \in Token /\ W(l.location) \in Token /\ W(OPEN) \in Token
    BY <1>0, <1>1, TokenType
  <2> QED
    BY <2>1, Triple DEF Opened
<1>3. b \in Seq(Token)
  BY <1>0, <1>1, OptionalType
<1>4. c \in Seq(Token) /\ d \in Seq(Token) /\ f \in Seq(Token)
  BY <1>0, <1>1, SeveralType
<1>5. /\ PairTexts("return", l.redirect) \in Seq(Seq(Token))
      /\ g = Pairs("return", l.redirect) /\ g \in Seq(Token)
  <2>1. /\ PairTexts("return", l.redirect) \in Seq(Seq(Token))
        /\ Pairs("return", l.redirect) \in Seq(Token)
    BY <1>0, <1>1, PairTextsType
  <2>2. g = FlattenSeq(PairTexts("return", l.redirect))
    BY <2>1, FromNext
  <2> QED
    BY <2>1, <2>2 DEF Pairs
<1>6. h \in Seq(Token)
  BY CloseType
<1>7. e \in Seq(Token)
  <2>1. <<>> \in Seq(Token)
    BY EmptySeq
  <2> QED
    BY <2>1, LocationLeftType
<1> DEFINE x == Laid(a, b, c, d)
           y == Laid(x, e, f, g)
<1>8. LocationText(l) = Then(y, h)
  BY <1>5, Zenon DEF LocationText, Opened, AutoindexText, Close, Laid, Then
<1> HIDE DEF a, b, c, d, e, f, g, h
<1>9. x \in Seq(Token)
  BY <1>2, <1>3, <1>4, EmptySeq, Chain
<1>10. ASSUME NEW r \in Seq(Token)
       PROVE  /\ LocationText(l) \in Seq(Token)
              /\ Then(LocationText(l), r) = Then(a, LocationLeft(l, r))
  <2> DEFINE q == Then(h, r)
             z == AutoindexLeft(l, r)
  <2>1. q \in Seq(Token) /\ z \in Seq(Token)
    BY <1>6, ThenTokens, LocationLeftType
  <2>2. Then(x, z) = Nested(a, b, c, d, z)
    <3> HIDE DEF z
    <3> QED
      BY <1>2, <1>3, <1>4, <2>1, Chain
  <2>3. y \in Seq(Token) /\ Then(y, q) = Nested(x, e, f, g, q)
    <3> HIDE DEF x, q
    <3> QED
      BY <1>4, <1>5, <1>7, <1>9, <2>1, Chain
  <2>4. Then(y, h) \in Seq(Token) /\ Then(Then(y, h), r) = Then(y, q)
    <3> HIDE DEF y
    <3> QED
      BY <1>6, <2>3, ThenTokens, ThenAssociative
  <2>5. /\ Nested(x, e, f, g, q) = Then(x, z)
        /\ Nested(a, b, c, d, z) = Then(a, LocationLeft(l, r))
    <3> HIDE DEF x
    <3> QED
      BY Zenon DEF LocationLeft, MethodsLeft, IndexLeft, AutoindexLeft, CgiLeft, ReturnsLeft,
                   b, c, d, e, f, g, h, Nested
  <2> HIDE DEF x, y, q, z
  <2> QED
    BY <1>8, <2>2, <2>3, <2>4, <2>5, Zenon
<1>11. <<>> \in Seq(Token)
  BY EmptySeq
<1> QED
  BY <1>2, <1>10, <1>11, Zenon DEF a

LEMMA LocationTextsType ==
  ASSUME NEW s \in ServerDoc
  PROVE  /\ LocationTexts(s) \in Seq(Seq(Token))
         /\ Len(LocationTexts(s)) = Len(s.locations) /\ Len(s.locations) \in Nat
         /\ DOMAIN s.locations = 1..Len(s.locations)
         /\ \A i \in 1..Len(s.locations) :
              s.locations[i] \in LocationDoc /\ LocationTexts(s)[i] = LocationText(s.locations[i])
<1>1. s.locations \in Seq(LocationDoc)
  BY DEF ServerDoc
<1>2. Len(s.locations) \in Nat /\ DOMAIN s.locations = 1..Len(s.locations)
  BY <1>1, LenProperties
<1>3. \A i \in 1..Len(s.locations) : s.locations[i] \in LocationDoc
  BY <1>1, ElementOfSeq
<1>4. LocationTexts(s) = [i \in 1..Len(s.locations) |-> LocationText(s.locations[i])]
  BY <1>2 DEF LocationTexts
<1>5. \A i \in 1..Len(s.locations) : LocationText(s.locations[i]) \in Seq(Token)
  BY <1>3, LocationIsLaidOut
<1>6. LocationTexts(s) \in [1..Len(s.locations) -> Seq(Token)]
  BY <1>4, <1>5
<1> QED
  BY <1>2, <1>3, <1>4, <1>6, FunctionIsSeq

LEMMA ServerLeftType ==
  ASSUME NEW s \in ServerDoc, NEW r \in Seq(Token)
  PROVE  /\ Then(Close, r) \in Seq(Token)
         /\ \A j \in 1..(Len(s.locations) + 1) :
              /\ From(LocationTexts(s), j) \in Seq(Token)
              /\ LocationsLeft(s, j, r) \in Seq(Token)
         /\ LimitLeft(s, r) \in Seq(Token)
         /\ \A e \in 1..(Len(s.error_pages) + 1) :
              /\ From(PairTexts("error_page", s.error_pages), e) \in Seq(Token)
              /\ PagesLeft(s, e, r) \in Seq(Token)
         /\ RootLeft(s, r) \in Seq(Token) /\ NamesLeft(s, r) \in Seq(Token)
         /\ ServerLeft(s, r) \in Seq(Token)
<1>0. /\ s.listen \in AnyWord /\ s.names \in Seq(STRING) /\ s.root \in AnyWord
      /\ s.limit \in AnyWord /\ s.error_pages \in Seq(STRING \X STRING)
  BY KeywordsAreWords DEF ServerDoc
<1>1. \A word \in {"listen", "server_name", "root", "error_page", "client_body_size_limit"} :
        word \in AnyWord
  BY KeywordsAreWords, KeywordsAre
<1>2. Then(Close, r) \in Seq(Token)
  BY CloseType, ThenTokens
<1>3. \A j \in 1..(Len(s.locations) + 1) : From(LocationTexts(s), j) \in Seq(Token)
  BY LocationTextsType, FromNext
<1>4. \A j \in 1..(Len(s.locations) + 1) : LocationsLeft(s, j, r) \in Seq(Token)
  BY <1>2, <1>3, ThenTokens DEF LocationsLeft
<1>5. LocationsLeft(s, 1, r) \in Seq(Token)
  <2>1. 1 \in 1..(Len(s.locations) + 1)
    BY LocationTextsType
  <2> QED
    BY <1>4, <2>1
<1>6. LimitLeft(s, r) \in Seq(Token)
  <2>1. Optional("client_body_size_limit", s.limit) \in Seq(Token)
    BY <1>0, <1>1, OptionalType
  <2> QED
    BY <1>5, <2>1, ThenTokens DEF LimitLeft
<1>7. \A e \in 1..(Len(s.error_pages) + 1) :
        From(PairTexts("error_page", s.error_pages), e) \in Seq(Token)
  <2>1. /\ PairTexts("error_page", s.error_pages) \in Seq(Seq(Token))
        /\ Len(PairTexts("error_page", s.error_pages)) = Len(s.error_pages)
    BY <1>0, <1>1, PairTextsType
  <2> QED
    BY <2>1, FromNext
<1>8. \A e \in 1..(Len(s.error_pages) + 1) : PagesLeft(s, e, r) \in Seq(Token)
  BY <1>6, <1>7, ThenTokens DEF PagesLeft
<1>9. PagesLeft(s, 1, r) \in Seq(Token)
  <2>1. Len(s.error_pages) \in Nat
    BY <1>0, LenProperties
  <2>2. 1 \in 1..(Len(s.error_pages) + 1)
    BY <2>1
  <2> QED
    BY <1>8, <2>2
<1>10. RootLeft(s, r) \in Seq(Token)
  <2>1. Optional("root", s.root) \in Seq(Token)
    BY <1>0, <1>1, OptionalType
  <2> QED
    BY <1>9, <2>1, ThenTokens DEF RootLeft
<1>11. NamesLeft(s, r) \in Seq(Token)
  <2>1. Several("server_name", s.names) \in Seq(Token)
    BY <1>0, <1>1, SeveralType
  <2> QED
    BY <1>10, <2>1, ThenTokens DEF NamesLeft
<1>12. ServerLeft(s, r) \in Seq(Token)
  <2>1. Optional("listen", s.listen) \in Seq(Token)
    BY <1>0, <1>1, OptionalType
  <2> QED
    BY <1>11, <2>1, ThenTokens DEF ServerLeft
<1> QED
  BY <1>2, <1>3, <1>4, <1>6, <1>7, <1>8, <1>10, <1>11, <1>12

ServerOpened == <<W("server"), W(OPEN)>>

LEMMA ServerIsLaidOut ==
  ASSUME NEW s \in ServerDoc
  PROVE  /\ ServerOpened \in Seq(Token)
         /\ ServerText(s) \in Seq(Token)
         /\ \A r \in Seq(Token) :
              Then(ServerText(s), r) = Then(ServerOpened, ServerLeft(s, r))
<1> DEFINE a == ServerOpened
           b == Optional("listen", s.listen)
           c == Several("server_name", s.names)
           d == Optional("root", s.root)
           e == From(PairTexts("error_page", s.error_pages), 1)
           f == Optional("client_body_size_limit", s.limit)
           g == From(LocationTexts(s), 1)
           h == Close
<1>0. /\ s.listen \in AnyWord /\ s.names \in Seq(STRING) /\ s.root \in AnyWord
      /\ s.limit \in AnyWord /\ s.error_pages \in Seq(STRING \X STRING)
  BY KeywordsAreWords DEF ServerDoc
<1>1. \A word \in {"server", OPEN, "listen", "server_name", "root", "error_page",
                   "client_body_size_limit"} : word \in AnyWord
  BY KeywordsAreWords, KeywordsAre
<1>2. a \in Seq(Token)
  <2>1. W("server") \in Token /\ W(OPEN) \in Token
    BY <1>1, TokenType
  <2> QED
    BY <2>1, Double DEF ServerOpened
<1>3. b \in Seq(Token) /\ d \in Seq(Token) /\ f \in Seq(Token)
  BY <1>0, <1>1, OptionalType
<1>4. c \in Seq(Token)
  BY <1>0, <1>1, SeveralType
<1>5. e = Pairs("error_page", s.error_pages) /\ e \in Seq(Token)
  <2>1. /\ PairTexts("error_page", s.error_pages) \in Seq(Seq(Token))
        /\ Pairs("error_page", s.error_pages) \in Seq(Token)
    BY <1>0, <1>1, PairTextsType
  <2>2. e = FlattenSeq(PairTexts("error_page", s.error_pages))
    BY <2>1, FromNext
  <2> QED
    BY <2>1, <2>2 DEF Pairs
<1>6. g = FlattenSeq(LocationTexts(s)) /\ g \in Seq(Token)
  <2>1. LocationTexts(s) \in Seq(Seq(Token))
    BY LocationTextsType
  <2> QED
    BY <2>1, FromNext, FlatType
<1>7. h \in Seq(Token)
  BY CloseType
<1> DEFINE x == Laid(a, b, c, d)
           y == Laid(x, e, f, g)
<1>8. ServerText(s) = Then(y, h)
  BY <1>5, <1>6, Zenon DEF ServerText, ServerOpened, Close, Laid, Then
<1> HIDE DEF a, b, c, d, e, f, g, h
<1>9. x \in Seq(Token)
  BY <1>2, <1>3, <1>4, EmptySeq, Chain
<1>10. ASSUME NEW r \in Seq(Token)
       PROVE  /\ ServerText(s) \in Seq(Token)
              /\ Then(ServerText(s), r) = Then(a, ServerLeft(s, r))
  <2> DEFINE q == Then(h, r)
             z == PagesLeft(s, 1, r)
  <2>1. q \in Seq(Token) /\ z \in Seq(Token)
    <3>1. Len(s.error_pages) \in Nat
      BY <1>0, LenProperties
    <3>2. 1 \in 1..(Len(s.error_pages) + 1)
      BY <3>1
    <3>3. z \in Seq(Token)
      BY <3>2, ServerLeftType
    <3> QED
      BY <1>7, <3>3, ThenTokens
  <2>2. Then(x, z) = Nested(a, b, c, d, z)
    <3> HIDE DEF z
    <3> QED
      BY <1>2, <1>3, <1>4, <2>1, Chain
  <2>3. y \in Seq(Token) /\ Then(y, q) = Nested(x, e, f, g, q)
    <3> HIDE DEF x, q
    <3> QED
      BY <1>3, <1>5, <1>6, <1>9, <2>1, Chain
  <2>4. Then(y, h) \in Seq(Token) /\ Then(Then(y, h), r) = Then(y, q)
    <3> HIDE DEF y
    <3> QED
      BY <1>7, <2>3, ThenTokens, ThenAssociative
  <2>5. /\ Nested(x, e, f, g, q) = Then(x, z)
        /\ Nested(a, b, c, d, z) = Then(a, ServerLeft(s, r))
    <3> HIDE DEF x
    <3> QED
      BY Zenon DEF ServerLeft, NamesLeft, RootLeft, PagesLeft, LimitLeft, LocationsLeft,
                   b, c, d, e, f, g, h, Nested
  <2> HIDE DEF x, y, q, z
  <2> QED
    BY <1>8, <2>2, <2>3, <2>4, <2>5, Zenon
<1>11. <<>> \in Seq(Token)
  BY EmptySeq
<1> QED
  BY <1>2, <1>10, <1>11, Zenon DEF a

LEMMA ServerTextsType ==
  ASSUME NEW d \in Seq(ServerDoc)
  PROVE  /\ ServerTexts(d) \in Seq(Seq(Token)) /\ Len(ServerTexts(d)) = Len(d)
         /\ Len(d) \in Nat /\ DOMAIN d = 1..Len(d)
         /\ \A i \in 1..Len(d) : d[i] \in ServerDoc /\ ServerTexts(d)[i] = ServerText(d[i])
         /\ Text(d) \in Seq(Token)
<1>1. Len(d) \in Nat /\ DOMAIN d = 1..Len(d)
  BY LenProperties
<1>2. \A i \in 1..Len(d) : d[i] \in ServerDoc
  BY ElementOfSeq
<1>3. ServerTexts(d) = [i \in 1..Len(d) |-> ServerText(d[i])]
  BY <1>1 DEF ServerTexts
<1>4. \A i \in 1..Len(d) : ServerText(d[i]) \in Seq(Token)
  BY <1>2, ServerIsLaidOut
<1>5. ServerTexts(d) \in [1..Len(d) -> Seq(Token)]
  BY <1>3, <1>4
<1>6. ServerTexts(d) \in Seq(Seq(Token)) /\ Len(ServerTexts(d)) = Len(d)
  BY <1>1, <1>5, FunctionIsSeq
<1>7. Text(d) \in Seq(Token)
  BY <1>6, FlatType DEF Text
<1> QED
  BY <1>1, <1>2, <1>3, <1>6, <1>7

(* What is lost from a text, or comes into it twice, leaves a text.         *)
LEMMA DamagedType ==
  ASSUME NEW text \in Seq(Token), NEW d \in Damages, d.at <= Len(text)
  PROVE  Damaged(text, d) \in Seq(Token)
<1> DEFINE at == d.at
<1>0. Len(text) \in Nat
  BY LenProperties
<1>1. CASE d.kind = "none"
  BY <1>1 DEF Damaged
<1>2. CASE d.kind # "none"
  <2>1. d \in [kind : {"cut", "drop", "twice", "line_twice"}, at : Nat \ {0}]
    BY <1>2, DamagesAssumption
  <2>2. at \in Nat \ {0} /\ at \in 1..Len(text)
    <3>1. at \in Nat \ {0} /\ at <= Len(text)
      BY <2>1
    <3> HIDE DEF at
    <3> QED
      BY <1>0, <3>1
  <2>3. ASSUME NEW m \in Nat, m <= Len(text), NEW n \in Nat, n <= m
        PROVE  SubSeq(text, n + 1, m) \in Seq(Token)
    BY <2>3, Part
  <2>4. SubSeq(text, 1, at) \in Seq(Token) /\ SubSeq(text, 1, at - 1) \in Seq(Token)
    <3>1. 0 + 1 = 1 /\ at - 1 \in Nat /\ at - 1 <= Len(text)
      BY <1>0, <2>2
    <3>2. SubSeq(text, 0 + 1, at) \in Seq(Token) /\ SubSeq(text, 0 + 1, at - 1) \in Seq(Token)
      BY <2>2, <2>3, <3>1
    <3> QED
      BY <3>1, <3>2
  <2>5. ASSUME NEW n \in 1..(Len(text) + 1)
        PROVE  SubSeq(text, n, Len(text)) \in Seq(Token)
    <3>1. n - 1 \in Nat /\ n - 1 <= Len(text) /\ n - 1 + 1 = n
      BY <1>0
    <3>2. SubSeq(text, n - 1 + 1, Len(text)) \in Seq(Token)
      BY <1>0, <2>3, <3>1
    <3> QED
      BY <3>1, <3>2
  <2>6. LineStart(text, at) \in 1..Len(text)
    <3> DEFINE ends ==
                 {0} \cup {i \in 1..(at - 1) : text[i].semi \/ text[i].word \in {OPEN, CLOSE}}
    <3>0. at - 1 \in Nat /\ 0 \in 0..(at - 1) /\ \A i \in 1..(at - 1) : i \in 0..(at - 1)
      <4> HIDE DEF at
      <4> QED
        BY <2>2
    <3>1. at - 1 \in Nat /\ ends \in SUBSET (0..(at - 1)) /\ ends # {}
      <4> HIDE DEF at
      <4> QED
        BY <3>0
    <3>2. Max(ends) \in ends
      BY <3>1, MaxOfNats
    <3>3. Max(ends) \in 0..(at - 1)
      BY <3>1, <3>2
    <3> HIDE DEF ends
    <3>4. 1 + Max(ends) \in 1..Len(text)
      BY <1>0, <2>2, <3>3
    <3> QED
      BY <3>4 DEF LineStart, ends
  <2> DEFINE f == SubSeq(text, 1, at)
             g == SubSeq(text, 1, at - 1)
             twice == SubSeq(text, at, Len(text))
             after == SubSeq(text, at + 1, Len(text))
             line == SubSeq(text, LineStart(text, at), Len(text))
  <2>7. f \in Seq(Token) /\ g \in Seq(Token)
    BY <2>4
  <2>8. twice \in Seq(Token)
    BY <1>0, <2>2, <2>5
  <2>9. after \in Seq(Token)
    <3>1. at + 1 \in 1..(Len(text) + 1)
      BY <1>0, <2>2
    <3> QED
      BY <2>5, <3>1
  <2>10. line \in Seq(Token)
    <3>1. LineStart(text, at) \in 1..(Len(text) + 1)
      BY <1>0, <2>6
    <3> QED
      BY <2>5, <3>1
  <2>11. /\ d.kind \in {"cut", "drop", "twice", "line_twice"}
         /\ d.kind = "cut" => Damaged(text, d) = f
         /\ d.kind = "drop" => Damaged(text, d) = g \o after
         /\ d.kind = "twice" => Damaged(text, d) = f \o twice
         /\ d.kind = "line_twice" => Damaged(text, d) = f \o line
    BY <2>1, Zenon DEF Damaged, RemoveAt
  <2> HIDE DEF f, g, twice, after, line
  <2>12. g \o after \in Seq(Token) /\ f \o twice \in Seq(Token) /\ f \o line \in Seq(Token)
    BY <2>7, <2>8, <2>9, <2>10, ThenTokens DEF Then
  <2> QED
    BY <2>7, <2>11, <2>12
<1> QED
  BY <1>1, <1>2

-------------------------------------------------------------------------------
(* std::includes *)

LEMMA RankIs ==
  ASSUME NEW word
  PROVE  /\ Rank(word) \in 1..4
         /\ Rank(word) = 1 <=> word = "DELETE"
         /\ Rank(word) = 2 <=> word = "GET"
         /\ Rank(word) = 3 <=> word = "POST"
<1>1. CASE word = "DELETE"
  BY <1>1 DEF Rank
<1>2. CASE word = "GET"
  BY <1>2 DEF Rank
<1>3. CASE word = "POST"
  BY <1>3 DEF Rank
<1>4. CASE word \notin {"DELETE", "GET", "POST"}
  BY <1>4 DEF Rank
<1> QED
  BY <1>1, <1>2, <1>3, <1>4

LEMMA ValidVector ==
  ASSUME NEW S, NEW words \in Seq(S)
  PROVE  isValidVector(words) <=> words \in AcceptedLists
<1> DEFINE n == Len(words)
           Step(i, j) == IF Rank(words[j]) = Rank(VALID_METHODS[i]) THEN j + 1 ELSE j
           Reach(i, later) ==
             {j \in 1..(n + 1) :
                \/ j > n
                \/ /\ j <= n /\ i <= 3 /\ Rank(words[j]) >= Rank(VALID_METHODS[i])
                   /\ Step(i, j) \in later}
           Goes(f) == f = [i \in 1..4 |-> Reach(i, f[i + 1])]
           g == CHOOSE f : Goes(f)
           h4 == Reach(4, {})
           h3 == Reach(3, h4)
           h2 == Reach(2, h3)
           h1 == Reach(1, h2)
           h == [i \in 1..4 |-> IF i = 1 THEN h1 ELSE IF i = 2 THEN h2 ELSE IF i = 3 THEN h3 ELSE h4]
<1>0. n \in Nat
  BY LenProperties
<1>1. isValidVector(words) <=> 1 \in g[1]
  BY DEF isValidVector
<1>2. ASSUME NEW any PROVE Reach(4, any) = {n + 1}
  BY <1>0
<1>3. Goes(h)
  <2>1. h4 = Reach(4, h[5])
    BY <1>2
  <2> HIDE DEF Reach
  <2>2. h[1] = h1 /\ h[2] = h2 /\ h[3] = h3 /\ h[4] = h4
    BY DEF h
  <2>3. \A i \in 1..4 : h[i] = Reach(i, h[i + 1])
    BY <2>1, <2>2
  <2>4. h = [i \in 1..4 |-> h[i]]
    OBVIOUS
  <2> HIDE DEF h, h1, h2, h3, h4
  <2> QED
    BY <2>3, <2>4
<1>4. Goes(g)
  <2> HIDE DEF Goes, h
  <2> QED
    BY <1>3
<1>5. \A i \in 1..4 : g[i] = Reach(i, g[i + 1])
  <2> HIDE DEF Reach, g
  <2> QED
    BY <1>4
<1> HIDE DEF g
<1>6. \A k : Rank(words[k]) \in 1..4
  BY RankIs
<1>7. /\ Rank(VALID_METHODS[1]) = 2 /\ Rank(VALID_METHODS[2]) = 3
      /\ Rank(VALID_METHODS[3]) = 1
  BY DEF VALID_METHODS, Rank
<1> DEFINE r == [k \in 1..n |-> Rank(words[k])]
<1>8. \A k \in 1..n : r[k] \in 1..4 /\ r[k] = Rank(words[k])
  BY <1>6
<1> HIDE DEF r
<1>9. g[4] = {n + 1}
  BY <1>2, <1>5
<1>a. ASSUME NEW i \in 1..4, NEW later, NEW j \in 1..(n + 1)
      PROVE  j \in Reach(i, later) <=>
               \/ j = n + 1
               \/ /\ j <= n /\ i <= 3 /\ r[j] >= Rank(VALID_METHODS[i])
                  /\ (IF r[j] = Rank(VALID_METHODS[i]) THEN j + 1 ELSE j) \in later
  <2>1. j \in 1..n <=> j <= n
    BY <1>0
  <2>2. j > n <=> j = n + 1
    BY <1>0
  <2> QED
    BY <1>8, <2>1, <2>2
<1> HIDE DEF Reach
<1>10. \A j \in 1..(n + 1) : j \in g[3] <=> j = n + 1 \/ (j = n /\ r[j] = 1)
  <2> TAKE j \in 1..(n + 1)
  <2>1. g[3] = Reach(3, g[4])
    BY <1>5
  <2>2. j \in g[3] <=> \/ j = n + 1
                       \/ /\ j <= n /\ r[j] >= 1
                          /\ (IF r[j] = 1 THEN j + 1 ELSE j) = n + 1
    BY <1>7, <1>9, <1>a, <2>1
  <2>3. j <= n => r[j] \in 1..4
    BY <1>0, <1>8
  <2> QED
    BY <1>0, <2>2, <2>3
<1>11. \A j \in 1..(n + 1) :
         j \in g[2] <=> j = n + 1 \/ (j <= n /\ r[j] = 3 /\ j + 1 \in g[3])
  <2> TAKE j \in 1..(n + 1)
  <2>1. g[2] = Reach(2, g[3])
    BY <1>5
  <2>2. j \in g[2] <=> \/ j = n + 1
                       \/ /\ j <= n /\ r[j] >= 3
                          /\ (IF r[j] = 3 THEN j + 1 ELSE j) \in g[3]
    BY <1>7, <1>a, <2>1
  <2>3. j <= n => r[j] \in 1..4
    BY <1>0, <1>8
  <2>4. j <= n /\ r[j] = 4 => j \notin g[3]
    BY <1>0, <1>10
  <2>5. j <= n => ~(j = n + 1)
    BY <1>0
  <2> QED
    BY <2>2, <2>3, <2>4, <2>5
<1>12. 1 \in g[1] <=> \/ n = 0
                      \/ n > 0 /\ r[1] = 2 /\ 2 \in g[2]
                      \/ n > 0 /\ r[1] = 3 /\ 1 \in g[2]
  <2>1. g[1] = Reach(1, g[2])
    BY <1>5
  <2>2. 1 \in 1..(n + 1) /\ (n > 0 => 1 \in 1..n)
    BY <1>0
  <2>3. 1 \in g[1] <=> \/ 1 = n + 1
                       \/ /\ 1 <= n /\ r[1] >= 2
                          /\ (IF r[1] = 2 THEN 2 ELSE 1) \in g[2]
    BY <1>7, <1>a, <2>1, <2>2
  <2>4. n > 0 /\ r[1] = 4 => 1 \notin g[2]
    BY <1>0, <1>11, <2>2
  <2>5. n > 0 => r[1] \in 1..4
    BY <1>8, <2>2
  <2> QED
    BY <1>0, <2>3, <2>4, <2>5
<1> DEFINE Good ==
             \/ n = 0
             \/ n = 1 /\ r[1] \in {2, 3}
             \/ n = 2 /\ r[1] = 2 /\ r[2] = 3
             \/ n = 2 /\ r[1] = 3 /\ r[2] = 1
             \/ n = 3 /\ r[1] = 2 /\ r[2] = 3 /\ r[3] = 1
<1>13. 1 \in g[1] <=> Good
  <2> HIDE DEF n, g, r
  <2>1. \A j \in 1..3 : j <= n + 1 => j \in 1..(n + 1)
    BY <1>0
  <2>2. n > 0 => (2 \in g[2] <=> n = 1 \/ (n >= 2 /\ r[2] = 3 /\ 3 \in g[3]))
    <3>1. n > 0 => (2 \in g[2] <=> 2 = n + 1 \/ (2 <= n /\ r[2] = 3 /\ 2 + 1 \in g[3]))
      BY <1>0, <1>11, <2>1
    <3>2. (2 = n + 1 <=> n = 1) /\ (3 = n + 1 <=> n = 2)
      BY <1>0
    <3> QED
      BY <1>0, <3>1, <3>2
  <2>3. n > 0 => (1 \in g[2] <=> r[1] = 3 /\ 2 \in g[3])
    <3>1. n > 0 => (1 \in g[2] <=> 1 = n + 1 \/ (1 <= n /\ r[1] = 3 /\ 1 + 1 \in g[3]))
      BY <1>0, <1>11, <2>1
    <3>2. (2 = n + 1 <=> n = 1) /\ (3 = n + 1 <=> n = 2)
      BY <1>0
    <3> QED
      BY <1>0, <3>1, <3>2
  <2>4. n >= 2 => (3 \in g[3] <=> n = 2 \/ (n = 3 /\ r[3] = 1))
    <3>1. n >= 2 => (3 \in g[3] <=> 3 = n + 1 \/ (3 = n /\ r[3] = 1))
      BY <1>0, <1>10, <2>1
    <3>2. (2 = n + 1 <=> n = 1) /\ (3 = n + 1 <=> n = 2)
      BY <1>0
    <3> QED
      BY <1>0, <3>1, <3>2
  <2>5. n > 0 => (2 \in g[3] <=> n = 1 \/ (n = 2 /\ r[2] = 1))
    <3>1. n > 0 => (2 \in g[3] <=> 2 = n + 1 \/ (2 = n /\ r[2] = 1))
      BY <1>0, <1>10, <2>1
    <3>2. (2 = n + 1 <=> n = 1) /\ (3 = n + 1 <=> n = 2)
      BY <1>0
    <3> QED
      BY <1>0, <3>1, <3>2
  <2>6. n > 0 => r[1] \in 1..4
    BY <1>0, <1>8
  <2> HIDE DEF n
  <2> QED
    BY <1>0, <1>12, <2>2, <2>3, <2>4, <2>5, <2>6
<1>14. words \in AcceptedLists <=> Good
  <2>1. \A k \in 1..n : /\ r[k] = 1 <=> words[k] = "DELETE"
                        /\ r[k] = 2 <=> words[k] = "GET"
                        /\ r[k] = 3 <=> words[k] = "POST"
    BY <1>8, RankIs
  <2>2. words \in [1..n -> S]
    BY LenProperties
  <2>3. words = <<>> <=> n = 0
    BY EmptySeq
  <2>4. /\ words = <<"GET">> <=> n = 1 /\ words[1] = "GET"
        /\ words = <<"POST">> <=> n = 1 /\ words[1] = "POST"
    BY <2>2
  <2>5. /\ words = <<"GET", "POST">> <=> n = 2 /\ words[1] = "GET" /\ words[2] = "POST"
        /\ words = <<"POST", "DELETE">> <=> n = 2 /\ words[1] = "POST" /\ words[2] = "DELETE"
    BY <2>2
  <2>6. words = <<"GET", "POST", "DELETE">>
          <=> n = 3 /\ words[1] = "GET" /\ words[2] = "POST" /\ words[3] = "DELETE"
    BY <2>2
  <2>7. (n >= 1 => 1 \in 1..n) /\ (n >= 2 => 2 \in 1..n) /\ (n >= 3 => 3 \in 1..n)
    BY <1>0
  <2>8. words \in AcceptedLists <=>
          \/ n = 0
          \/ n = 1 /\ words[1] \in {"GET", "POST"}
          \/ n = 2 /\ words[1] = "GET" /\ words[2] = "POST"
          \/ n = 2 /\ words[1] = "POST" /\ words[2] = "DELETE"
          \/ n = 3 /\ words[1] = "GET" /\ words[2] = "POST" /\ words[3] = "DELETE"
    BY <2>3, <2>4, <2>5, <2>6, Zenon DEF AcceptedLists
  <2> HIDE DEF n, r
  <2>9. n = 1 => (words[1] \in {"GET", "POST"} <=> r[1] \in {2, 3})
    BY <2>1, <2>7
  <2>10. n = 2 => /\ words[1] = "GET" <=> r[1] = 2
                  /\ words[2] = "POST" <=> r[2] = 3
                  /\ words[1] = "POST" <=> r[1] = 3
                  /\ words[2] = "DELETE" <=> r[2] = 1
    BY <2>1, <2>7
  <2>11. n = 3 => /\ words[1] = "GET" <=> r[1] = 2
                  /\ words[2] = "POST" <=> r[2] = 3
                  /\ words[3] = "DELETE" <=> r[3] = 1
    BY <2>1, <2>7
  <2> QED
    BY <1>0, <2>8, <2>9, <2>10, <2>11
<1> HIDE DEF n, g, r, Good
<1> QED
  BY <1>1, <1>13, <1>14

-------------------------------------------------------------------------------
(* The inductive invariant, whatever has become of the text *)

Maps == UNION {[S -> AnyWord] : S \in SUBSET Int}
LocationRead ==
  [location : AnyWord, root : AnyWord, methods : Seq(AnyWord), indexes : Seq(AnyWord),
   autoindex : {"unset", "on", "off"}, cgi : Seq(AnyWord), redirect : Maps]
Number == Int \cup {Unset}
ServerRead ==
  [host : Token, port : Number, names : Seq(AnyWord), root : AnyWord, error_pages : Maps,
   limit : Number, locations : Seq(LocationRead)]

InBlock == pc \in {"parseServer", "parseLocation"}
GoesOn == pc \in {"parseTokens", "parseServer", "parseLocation", "accepted"}

\* How many of a set of tokens are read.
ReadOf(S, i) == Cardinality({j \in S : j < i})

\* The server that is being read has its listen directive; the blocks that are open.
Pending == IF InBlock /\ "listen" \in flag THEN 1 ELSE 0
Depth == IF pc = "parseServer" THEN 1 ELSE IF pc = "parseLocation" THEN 2 ELSE 0

Listening == Len(servers) + Pending
ReadTokens(t) == ReadOf(Tokens(t), it)
ReadUntaken(t) == ReadOf(Untaken(t), it)

ListensCounted ==
  ReadUntaken(W("listen")) <= Listening /\ Listening <= ReadTokens(W("listen"))
BracesCounted == ReadUntaken(W(OPEN)) <= ReadTokens(W(CLOSE)) + Depth

LocationsValid ==
  \A i \in DOMAIN server.locations : ValidLocation(server.locations[i])
ServersValid == \A i \in DOMAIN servers : ValidServer(servers[i])

Typed ==
  /\ TypeOK
  /\ tokens \in Seq(Token)
  /\ server \in ServerRead /\ location \in LocationRead /\ servers \in Seq(ServerRead)

IInv ==
  /\ Typed
  /\ ServersValid
  /\ InBlock => LocationsValid
  /\ GoesOn => ListensCounted /\ BracesCounted
  /\ pc = "accepted" => it = Len(tokens) + 1

-------------------------------------------------------------------------------
(* Counting tokens *)

LEMMA ReadOfIs ==
  ASSUME NEW n \in Nat, NEW S \in SUBSET (1..n), NEW i \in Nat, NEW j \in Nat, i <= j
  PROVE  /\ ReadOf(S, i) \in Nat /\ ReadOf(S, j) \in Nat
         /\ ReadOf(S, i) <= ReadOf(S, j)
         /\ ReadOf(S, n + 1) = Cardinality(S)
<1> DEFINE a == {x \in S : x < i}
           b == {x \in S : x < j}
<1>1. IsFiniteSet(S)
  <2>1. IsFiniteSet(1..n)
    BY FS_Interval
  <2> QED
    BY <2>1, FS_Subset
<1>0. \A x \in S : x \in Nat /\ x \in 1..n
  OBVIOUS
<1>2. a \in SUBSET b /\ b \in SUBSET S
  <2>1. \A x \in S : x < i => x < j
    BY <1>0
  <2> QED
    BY <2>1
<1>3. IsFiniteSet(b) /\ IsFiniteSet(a)
  BY <1>1, <1>2, FS_Subset
<1>4. Cardinality(a) \in Nat /\ Cardinality(b) \in Nat /\ Cardinality(a) <= Cardinality(b)
  BY <1>2, <1>3, FS_Subset, FS_CardinalityType
<1>6. {x \in S : x < n + 1} = S
  <2>1. \A x \in S : x < n + 1
    BY <1>0
  <2> QED
    BY <2>1
<1> QED
  BY <1>4, <1>6, Zenon DEF ReadOf

LEMMA NoneMore ==
  ASSUME NEW n \in Nat, NEW S \in SUBSET (1..n), NEW i \in Nat, NEW j \in Nat, i <= j,
         \A x \in S : ~(i <= x /\ x < j)
  PROVE  ReadOf(S, j) = ReadOf(S, i)
<1>1. \A x \in S : x \in Nat
  OBVIOUS
<1>2. \A x \in S : x < i <=> x < j
  BY <1>1
<1>3. {x \in S : x < i} = {x \in S : x < j}
  BY <1>2
<1> QED
  BY <1>3, Zenon DEF ReadOf

LEMMA OneMore ==
  ASSUME NEW n \in Nat, NEW S \in SUBSET (1..n), NEW i \in Nat, NEW j \in Nat, i <= j,
         NEW y \in Nat
  PROVE  /\ (\A x \in S : i <= x /\ x < j => x = y) => ReadOf(S, j) <= ReadOf(S, i) + 1
         /\ y \in S /\ i <= y /\ y < j => ReadOf(S, i) + 1 <= ReadOf(S, j)
<1> DEFINE a == {x \in S : x < i}
           b == {x \in S : x < j}
<1>1. IsFiniteSet(S)
  <2>1. IsFiniteSet(1..n)
    BY FS_Interval
  <2> QED
    BY <2>1, FS_Subset
<1>0. \A x \in S : x \in Nat /\ x \in 1..n
  OBVIOUS
<1>2. a \in SUBSET b /\ b \in SUBSET S
  <2>1. \A x \in S : x < i => x < j
    BY <1>0
  <2> QED
    BY <2>1
<1>3. IsFiniteSet(b) /\ IsFiniteSet(a)
  BY <1>1, <1>2, FS_Subset
<1>4. /\ IsFiniteSet(a \cup {y})
      /\ Cardinality(a \cup {y}) = IF y \in a THEN Cardinality(a) ELSE Cardinality(a) + 1
  BY <1>3, FS_AddElement
<1>5. Cardinality(a) \in Nat /\ Cardinality(b) \in Nat
  BY <1>3, FS_CardinalityType
<1>6. ASSUME \A x \in S : i <= x /\ x < j => x = y
      PROVE  Cardinality(b) <= Cardinality(a) + 1
  <2>0. \A x \in S : x < j => x < i \/ x = y
    BY <1>0, <1>6
  <2>1. b \in SUBSET (a \cup {y})
    BY <2>0
  <2>2. Cardinality(b) <= Cardinality(a \cup {y})
    BY <1>4, <2>1, FS_Subset
  <2> QED
    BY <1>4, <1>5, <2>2
<1>7. ASSUME y \in S, i <= y, y < j
      PROVE  Cardinality(a) + 1 <= Cardinality(b)
  <2>0. /\ y \in b /\ ~(y < i)
    BY <1>7
  <2>1. a \cup {y} \in SUBSET b /\ y \notin a
    BY <1>2, <2>0
  <2>2. Cardinality(a \cup {y}) <= Cardinality(b)
    BY <1>3, <2>1, FS_Subset
  <2> QED
    BY <1>4, <2>1, <2>2
<1> QED
  BY <1>6, <1>7, Zenon DEF ReadOf

LEMMA TokensAre ==
  ASSUME tokens \in Seq(Token)
  PROVE  /\ Len(tokens) \in Nat /\ DOMAIN tokens = 1..Len(tokens)
         /\ \A i \in 1..Len(tokens) :
              /\ tokens[i] \in Token /\ tokens[i].word \in AnyWord
              /\ tokens[i].semi \in BOOLEAN
         /\ \A t : /\ Tokens(t) \in SUBSET (1..Len(tokens))
                   /\ Untaken(t) \in SUBSET (1..Len(tokens))
                   /\ Untaken(t) \subseteq Tokens(t)
<1>1. Len(tokens) \in Nat /\ DOMAIN tokens = 1..Len(tokens)
  BY LenProperties
<1>2. \A i \in 1..Len(tokens) : tokens[i] \in Token
  BY ElementOfSeq
<1>3. \A i \in 1..Len(tokens) : tokens[i].word \in AnyWord /\ tokens[i].semi \in BOOLEAN
  BY <1>2 DEF Token
<1>4. \A t : /\ Tokens(t) \in SUBSET (1..Len(tokens))
             /\ Untaken(t) \in SUBSET (1..Len(tokens))
             /\ Untaken(t) \subseteq Tokens(t)
  BY <1>1 DEF Tokens, Untaken
<1> QED
  BY <1>1, <1>2, <1>3, <1>4

\* A directive that is read with n words, all of which it takes.
Directive(word, n) ==
  /\ n \in Nat
  /\ tokens[it] = W(word)
  /\ it + n <= Len(tokens)
  /\ \A j \in (it + 1)..(it + n) : Takes(it, j)
  /\ it' = it + 1 + n
  /\ tokens' = tokens

LEMMA SameText ==
  ASSUME tokens' = tokens, NEW t
  PROVE  Tokens(t)' = Tokens(t) /\ Untaken(t)' = Untaken(t)
<1>1. \A i, j : Takes(i, j)' <=> Takes(i, j)
  BY DEF Takes
<1> QED
  BY <1>1 DEF Tokens, Untaken

LEMMA DirectiveCounts ==
  ASSUME tokens \in Seq(Token), it \in 1..(Len(tokens) + 1), NEW word, NEW n,
         Directive(word, n), NEW t
  PROVE  /\ it' \in 1..(Len(tokens) + 1)
         /\ ReadOf(Untaken(t), it) \in Nat /\ ReadOf(Untaken(t), it') \in Nat
         /\ ReadOf(Tokens(t), it) \in Nat /\ ReadOf(Tokens(t), it') \in Nat
         /\ ReadOf(Tokens(t), it) <= ReadOf(Tokens(t), it')
         /\ W(word) # t => ReadOf(Untaken(t), it') = ReadOf(Untaken(t), it)
         /\ W(word) = t => /\ ReadOf(Untaken(t), it') <= ReadOf(Untaken(t), it) + 1
                           /\ ReadOf(Tokens(t), it) + 1 <= ReadOf(Tokens(t), it')
<1>1. /\ Len(tokens) \in Nat /\ DOMAIN tokens = 1..Len(tokens)
      /\ Tokens(t) \in SUBSET (1..Len(tokens)) /\ Untaken(t) \in SUBSET (1..Len(tokens))
  BY TokensAre
<1>2. /\ n \in Nat /\ it \in Nat /\ it' = it + 1 + n /\ it' \in Nat /\ it <= it' /\ it < it'
      /\ it' \in 1..(Len(tokens) + 1) /\ it \in 1..Len(tokens) /\ tokens[it] = W(word)
  BY <1>1 DEF Directive
<1>3. \A x \in Untaken(t) : it <= x /\ x < it' => x = it
  <2> TAKE x \in Untaken(t)
  <2> HAVE it <= x /\ x < it'
  <2>1. x \in 1..Len(tokens) /\ ~Takes(it, x)
    BY <1>1, <1>2 DEF Untaken
  <2>2. x = it \/ x \in (it + 1)..(it + n)
    BY <1>1, <1>2, <2>1
  <2> QED
    BY <2>1, <2>2 DEF Directive
<1>4. W(word) # t => \A x \in Untaken(t) : ~(it <= x /\ x < it')
  BY <1>2, <1>3 DEF Untaken, Tokens
<1>5. W(word) = t => it \in Tokens(t)
  BY <1>1, <1>2 DEF Tokens
<1>6. /\ ReadOf(Untaken(t), it) \in Nat /\ ReadOf(Untaken(t), it') \in Nat
      /\ W(word) # t => ReadOf(Untaken(t), it') = ReadOf(Untaken(t), it)
  <2>1. ReadOf(Untaken(t), it) \in Nat /\ ReadOf(Untaken(t), it') \in Nat
    BY <1>1, <1>2, ReadOfIs
  <2>2. ASSUME W(word) # t
        PROVE  ReadOf(Untaken(t), it') = ReadOf(Untaken(t), it)
    <3>1. \A x \in Untaken(t) : ~(it <= x /\ x < it')
      BY <1>4, <2>2
    <3> QED
      BY <1>1, <1>2, <3>1, NoneMore
  <2> QED
    BY <2>1, <2>2
<1>7. /\ ReadOf(Tokens(t), it) \in Nat /\ ReadOf(Tokens(t), it') \in Nat
      /\ ReadOf(Tokens(t), it) <= ReadOf(Tokens(t), it')
  BY <1>1, <1>2, ReadOfIs
<1>8. ReadOf(Untaken(t), it') <= ReadOf(Untaken(t), it) + 1
  BY <1>1, <1>2, <1>3, OneMore
<1>9. W(word) = t => ReadOf(Tokens(t), it) + 1 <= ReadOf(Tokens(t), it')
  <2>1. it \in Tokens(t) /\ it <= it /\ it < it' =>
          ReadOf(Tokens(t), it) + 1 <= ReadOf(Tokens(t), it')
    BY <1>1, <1>2, OneMore
  <2> QED
    BY <1>2, <1>5, <2>1
<1> QED
  BY <1>2, <1>6, <1>7, <1>8, <1>9

LEMMA WordsDiffer ==
  \A v, w : W(v) = W(w) <=> v = w
  BY DEF W

LEMMA BracesDiffer ==
  /\ OPEN # CLOSE /\ OPEN # EMPTY /\ CLOSE # EMPTY
  /\ \A word \in {"server", "listen", "server_name", "root", "error_page", "location",
                 "client_body_size_limit", "allowed_method", "index", "cgi_extension",
                 "autoindex", "return"} :
       word # OPEN /\ word # CLOSE /\ word # EMPTY
<1>1. OPEN # CLOSE /\ OPEN # EMPTY /\ CLOSE # EMPTY
  BY Zenon DEF OPEN, CLOSE, EMPTY
<1>2. ASSUME NEW word,
             \/ word = "server" \/ word = "listen" \/ word = "server_name" \/ word = "root"
             \/ word = "error_page" \/ word = "location" \/ word = "client_body_size_limit"
             \/ word = "allowed_method" \/ word = "index" \/ word = "cgi_extension"
             \/ word = "autoindex" \/ word = "return"
      PROVE  word # OPEN /\ word # CLOSE /\ word # EMPTY
  BY <1>2, Zenon DEF OPEN, CLOSE, EMPTY
<1> QED
  BY <1>1, <1>2

LEMMA CountsNow ==
  ASSUME tokens' = tokens, NEW t
  PROVE  /\ ReadTokens(t)' = ReadOf(Tokens(t), it')
         /\ ReadUntaken(t)' = ReadOf(Untaken(t), it')
  BY SameText DEF ReadTokens, ReadUntaken, ReadOf

LEMMA CountsKept ==
  ASSUME tokens \in Seq(Token), it \in 1..(Len(tokens) + 1),
         Listening \in Nat, Depth \in Nat, ListensCounted, BracesCounted,
         NEW word, NEW n, Directive(word, n), word # OPEN,
         Listening' = Listening + (IF word = "listen" THEN 1 ELSE 0),
         Depth' = Depth - (IF word = CLOSE THEN 1 ELSE 0)
  PROVE  (ListensCounted /\ BracesCounted)'
<1>1. tokens' = tokens
  BY DEF Directive
<1> DEFINE listen == W("listen")
           open == W(OPEN)
           close == W(CLOSE)
<1>2. /\ (W(word) = listen <=> word = "listen") /\ (W(word) = close <=> word = CLOSE)
      /\ W(word) # open
  BY WordsDiffer
<1> HIDE DEF listen, open, close
<1>3. /\ ReadUntaken(listen) \in Nat /\ ReadUntaken(listen)' \in Nat
      /\ ReadTokens(listen) \in Nat /\ ReadTokens(listen)' \in Nat
      /\ ReadTokens(listen) <= ReadTokens(listen)'
      /\ word # "listen" => ReadUntaken(listen)' = ReadUntaken(listen)
      /\ word = "listen" => /\ ReadUntaken(listen)' <= ReadUntaken(listen) + 1
                            /\ ReadTokens(listen) + 1 <= ReadTokens(listen)'
  <2>1. /\ ReadOf(Untaken(listen), it) \in Nat /\ ReadOf(Untaken(listen), it') \in Nat
        /\ ReadOf(Tokens(listen), it) \in Nat /\ ReadOf(Tokens(listen), it') \in Nat
    BY DirectiveCounts
  <2>2. ReadOf(Tokens(listen), it) <= ReadOf(Tokens(listen), it')
    BY DirectiveCounts
  <2>3. W(word) # listen => ReadOf(Untaken(listen), it') = ReadOf(Untaken(listen), it)
    BY DirectiveCounts
  <2>4. W(word) = listen => /\ ReadOf(Untaken(listen), it') <= ReadOf(Untaken(listen), it) + 1
                            /\ ReadOf(Tokens(listen), it) + 1 <= ReadOf(Tokens(listen), it')
    BY DirectiveCounts
  <2> QED
    BY <1>1, <1>2, <2>1, <2>2, <2>3, <2>4, CountsNow DEF ReadTokens, ReadUntaken
<1>4. /\ ReadUntaken(open) \in Nat /\ ReadUntaken(open)' = ReadUntaken(open)
      /\ ReadTokens(close) \in Nat /\ ReadTokens(close)' \in Nat
      /\ ReadTokens(close) <= ReadTokens(close)'
      /\ word = CLOSE => ReadTokens(close) + 1 <= ReadTokens(close)'
  <2>1. ReadOf(Untaken(open), it) \in Nat
    BY DirectiveCounts
  <2>2. ReadOf(Untaken(open), it') = ReadOf(Untaken(open), it)
    BY <1>2, DirectiveCounts
  <2>3. ReadOf(Tokens(close), it) \in Nat /\ ReadOf(Tokens(close), it') \in Nat
    BY DirectiveCounts
  <2>4. ReadOf(Tokens(close), it) <= ReadOf(Tokens(close), it')
    BY DirectiveCounts
  <2>5. W(word) = close => ReadOf(Tokens(close), it) + 1 <= ReadOf(Tokens(close), it')
    BY DirectiveCounts
  <2> QED
    BY <1>1, <1>2, <2>1, <2>2, <2>3, <2>4, <2>5, CountsNow DEF ReadTokens, ReadUntaken
<1>5. /\ ReadUntaken(listen) <= Listening /\ Listening <= ReadTokens(listen)
      /\ ReadUntaken(open) <= ReadTokens(close) + Depth
  BY DEF ListensCounted, BracesCounted, listen, open, close
<1>6. ReadUntaken(listen)' <= Listening' /\ Listening' <= ReadTokens(listen)'
  <2> DEFINE u == ReadUntaken(listen)
             v == ReadUntaken(listen)'
             x == ReadTokens(listen)
             y == ReadTokens(listen)'
             k == Listening
             l == Listening'
  <2>1. u \in Nat /\ v \in Nat /\ x \in Nat /\ y \in Nat /\ x <= y /\ k \in Nat
    BY <1>3
  <2>2. u <= k /\ k <= x
    BY <1>5
  <2>3. CASE word = "listen"
    <3>1. l = k + 1 /\ v <= u + 1 /\ x + 1 <= y
      BY <1>3, <2>3
    <3> HIDE DEF u, v, x, y, k, l
    <3>2. v <= l /\ l <= y
      BY <2>1, <2>2, <3>1
    <3> QED
      BY <3>2 DEF v, l, y
  <2>4. CASE word # "listen"
    <3>1. l = k /\ v = u
      BY <1>3, <2>1, <2>4
    <3> HIDE DEF u, v, x, y, k, l
    <3>2. v <= l /\ l <= y
      BY <2>1, <2>2, <3>1
    <3> QED
      BY <3>2 DEF v, l, y
  <2> QED
    BY <2>3, <2>4
<1>7. ReadUntaken(open)' <= ReadTokens(close)' + Depth'
  <2> DEFINE u == ReadUntaken(open)
             v == ReadUntaken(open)'
             x == ReadTokens(close)
             y == ReadTokens(close)'
             k == Depth
             l == Depth'
  <2>1. u \in Nat /\ v = u /\ x \in Nat /\ y \in Nat /\ x <= y /\ k \in Nat
    BY <1>4
  <2>2. u <= x + k
    BY <1>5
  <2>3. CASE word = CLOSE
    <3>1. l = k - 1 /\ x + 1 <= y
      BY <1>4, <2>3
    <3> HIDE DEF u, v, x, y, k, l
    <3>2. v <= y + l
      BY <2>1, <2>2, <3>1
    <3> QED
      BY <3>2 DEF v, l, y
  <2>4. CASE word # CLOSE
    <3>1. l = k
      BY <2>1, <2>4
    <3> HIDE DEF u, v, x, y, k, l
    <3>2. v <= y + l
      BY <2>1, <2>2, <3>1
    <3> QED
      BY <3>2 DEF v, l, y
  <2> QED
    BY <2>3, <2>4
<1> QED
  BY <1>6, <1>7 DEF ListensCounted, BracesCounted, listen, open, close

\* A block that is opened: a directive, and the brace behind it.
CountsOpen(word, n) ==
  /\ n \in Nat
  /\ tokens[it] = W(word)
  /\ it + n + 1 <= Len(tokens)
  /\ \A j \in (it + 1)..(it + n) : Takes(it, j)
  /\ tokens[it + n + 1] = W(OPEN)
  /\ it' = it + n + 2
  /\ tokens' = tokens

LEMMA OpenCounts ==
  ASSUME tokens \in Seq(Token), it \in 1..(Len(tokens) + 1),
         Listening \in Nat, Depth \in Nat, ListensCounted, BracesCounted,
         NEW word, NEW n, CountsOpen(word, n), word \notin {OPEN, "listen"},
         Listening' = Listening, Depth' = Depth + 1
  PROVE  /\ (ListensCounted /\ BracesCounted)'
         /\ it' \in 1..(Len(tokens) + 1)
<1> DEFINE listen == W("listen")
           open == W(OPEN)
           close == W(CLOSE)
           y == it + n + 1
<1>1. /\ Len(tokens) \in Nat
      /\ \A t : /\ Tokens(t) \in SUBSET (1..Len(tokens))
                /\ Untaken(t) \in SUBSET (1..Len(tokens))
  BY TokensAre
<1>2. W(word) # listen /\ W(word) # open /\ open # listen
  BY WordsDiffer, BracesDiffer
<1>3. /\ n \in Nat /\ it \in Nat /\ it' = it + n + 2 /\ it' \in Nat /\ it <= it'
      /\ it' \in 1..(Len(tokens) + 1) /\ tokens[it] = W(word) /\ tokens[y] = open
      /\ y \in Nat /\ tokens' = tokens
  <2>1. /\ n \in Nat /\ it' = it + n + 2 /\ it + n + 1 <= Len(tokens) /\ tokens' = tokens
        /\ tokens[it] = W(word) /\ tokens[y] = open
    BY DEF CountsOpen
  <2>2. it \in Nat /\ it >= 1
    BY <1>1
  <2> HIDE DEF open
  <2> QED
    BY <1>1, <2>1, <2>2
<1>4. ASSUME NEW t, NEW x \in Untaken(t), it <= x, x < it'
      PROVE  x = it \/ x = y
  <2>1. x \in 1..Len(tokens) /\ it \in DOMAIN tokens
    <3>1. x \in 1..Len(tokens) /\ DOMAIN tokens = 1..Len(tokens)
      BY <1>1, TokensAre
    <3>2. it + n + 1 <= Len(tokens)
      BY DEF CountsOpen
    <3>3. it \in 1..Len(tokens)
      BY <1>1, <1>3, <3>2
    <3> QED
      BY <3>1, <3>3
  <2>2. ~Takes(it, x)
    BY <2>1 DEF Untaken
  <2>3. x \notin (it + 1)..(it + n)
    BY <2>2 DEF CountsOpen
  <2>4. x \in Nat /\ it <= x /\ x < it + n + 2
    BY <1>3, <1>4, <2>1
  <2> QED
    BY <1>3, <2>3, <2>4
<1> HIDE DEF listen, open, close, y
<1>5. ASSUME NEW t, NEW x \in Untaken(t) PROVE tokens[x] = t
  BY <1>5 DEF Untaken, Tokens
<1>6. \A x \in Untaken(listen) : ~(it <= x /\ x < it')
  BY <1>2, <1>3, <1>4, <1>5
<1>7. \A x \in Untaken(open) : it <= x /\ x < it' => x = y
  BY <1>2, <1>3, <1>4, <1>5
<1>8. ReadUntaken(listen)' = ReadUntaken(listen)
  <2>1. ReadOf(Untaken(listen), it') = ReadOf(Untaken(listen), it)
    BY <1>1, <1>3, <1>6, NoneMore
  <2> QED
    BY <1>3, <2>1, CountsNow DEF ReadUntaken
<1>9. ReadUntaken(open) \in Nat /\ ReadUntaken(open)' \in Nat
  <2>1. ReadOf(Untaken(open), it) \in Nat /\ ReadOf(Untaken(open), it') \in Nat
    BY <1>1, <1>3, ReadOfIs
  <2> QED
    BY <1>3, <2>1, CountsNow DEF ReadUntaken
<1>10. ReadUntaken(open)' <= ReadUntaken(open) + 1
  <2>1. ReadOf(Untaken(open), it') <= ReadOf(Untaken(open), it) + 1
    BY <1>1, <1>3, <1>7, OneMore
  <2> QED
    BY <1>3, <2>1, CountsNow DEF ReadUntaken
<1>11. ASSUME NEW t
       PROVE  /\ ReadTokens(t) \in Nat /\ ReadTokens(t)' \in Nat
              /\ ReadTokens(t) <= ReadTokens(t)'
  <2>1. ReadOf(Tokens(t), it) \in Nat /\ ReadOf(Tokens(t), it') \in Nat
    BY <1>1, <1>3, ReadOfIs
  <2>2. ReadOf(Tokens(t), it) <= ReadOf(Tokens(t), it')
    BY <1>1, <1>3, ReadOfIs
  <2> QED
    BY <1>3, <2>1, <2>2, CountsNow DEF ReadTokens
<1>12. /\ ReadUntaken(listen) <= Listening /\ Listening <= ReadTokens(listen)
       /\ ReadUntaken(open) <= ReadTokens(close) + Depth
  BY DEF ListensCounted, BracesCounted, listen, open, close
<1>13. ReadUntaken(listen)' <= Listening' /\ Listening' <= ReadTokens(listen)'
  <2> DEFINE x == ReadTokens(listen)
             z == ReadTokens(listen)'
  <2>1. x \in Nat /\ z \in Nat /\ x <= z /\ Listening <= x
    BY <1>11, <1>12
  <2> HIDE DEF x, z
  <2>2. Listening <= z
    BY <2>1
  <2> QED
    BY <1>8, <1>12, <2>2 DEF z
<1>14. ReadUntaken(open)' <= ReadTokens(close)' + Depth'
  <2> DEFINE u == ReadUntaken(open)
             v == ReadUntaken(open)'
             x == ReadTokens(close)
             z == ReadTokens(close)'
             k == Depth
             l == Depth'
  <2>1. /\ u \in Nat /\ v \in Nat /\ x \in Nat /\ z \in Nat /\ x <= z /\ k \in Nat
        /\ v <= u + 1 /\ u <= x + k /\ l = k + 1
    BY <1>9, <1>10, <1>11, <1>12
  <2> HIDE DEF u, v, x, z, k, l
  <2>2. v <= z + l
    BY <2>1
  <2> QED
    BY <2>2 DEF v, z, l
<1> QED
  BY <1>3, <1>13, <1>14 DEF ListensCounted, BracesCounted, listen, open, close

-------------------------------------------------------------------------------
(* What a directive takes, and what it leaves *)

LEMMA TakesOne ==
  ASSUME tokens \in Seq(Token), it \in 1..(Len(tokens) + 1), Has(1), ~AtEnd,
         NEW word \in Once \cup {"autoindex", "location"}, tokens[it] = W(word),
         it' = it + 2, tokens' = tokens
  PROVE  Directive(word, 1)
<1>1. Len(tokens) \in Nat /\ it \in Nat /\ it + 1 <= Len(tokens)
  BY TokensAre DEF Has
<1>2. tokens[it].word = word /\ tokens[it].semi = FALSE
  BY DEF W
<1>3. \A j \in (it + 1)..(it + 1) : j = it + 1 /\ it < j
  BY <1>1
<1>4. \A j \in (it + 1)..(it + 1) : Takes(it, j)
  BY <1>2, <1>3 DEF Takes
<1>5. it' = it + 1 + 1
  BY <1>1
<1> QED
  BY <1>1, <1>4, <1>5 DEF Directive

LEMMA TakesTwo ==
  ASSUME tokens \in Seq(Token), it \in 1..(Len(tokens) + 1), Has(2),
         NEW word, tokens[it] = W(word),
         word \in {"error_page", "return"} \/ (word = "location" /\ tokens[it + 2] # W(OPEN)),
         it' = it + 3, tokens' = tokens
  PROVE  Directive(word, 2)
<1>1. Len(tokens) \in Nat /\ it \in Nat /\ it + 2 <= Len(tokens)
  BY TokensAre DEF Has
<1>2. tokens[it].word = word /\ tokens[it].semi = FALSE
  BY DEF W
<1>3. \A j \in (it + 1)..(it + 2) : it < j /\ j <= it + 2 /\ (j = it + 1 \/ j = it + 2)
  BY <1>1
<1>4. ASSUME word \in {"error_page", "return"}
      PROVE  \A j \in (it + 1)..(it + 2) : Takes(it, j)
  BY <1>2, <1>3, <1>4 DEF Takes
<1>5. ASSUME word = "location", tokens[it + 2] # W(OPEN)
      PROVE  \A j \in (it + 1)..(it + 2) : Takes(it, j)
  <2>1. ASSUME NEW j \in (it + 1)..(it + 2) PROVE Takes(it, j)
    <3>1. CASE j = it + 1
      BY <1>2, <1>3, <1>5, <3>1 DEF Takes
    <3>2. CASE j = it + 2
      BY <1>2, <1>3, <1>5, <3>2 DEF Takes
    <3> QED
      BY <1>3, <3>1, <3>2
  <2> QED
    BY <2>1
<1>6. it' = it + 1 + 2
  BY <1>1
<1>7. \A j \in (it + 1)..(it + 2) : Takes(it, j)
  BY <1>4, <1>5
<1> QED
  BY <1>1, <1>6, <1>7 DEF Directive

LEMMA ContentsAre ==
  ASSUME tokens \in Seq(Token), it \in 1..(Len(tokens) + 1), Semicolons # {}
  PROVE  /\ countContents \in Nat \ {0} /\ it + countContents <= Len(tokens)
         /\ \A k \in 1..(countContents - 1) : ~tokens[it + k].semi
         /\ tokens[it + countContents].semi
         /\ Contents \in Seq(AnyWord) /\ Len(Contents) = countContents
         /\ \A k \in 1..countContents : Contents[k] = tokens[it + k].word
<1>0. Len(tokens) \in Nat /\ it \in Nat /\ it >= 1
  BY TokensAre
<1>1. Semicolons \in SUBSET Nat
  BY <1>0 DEF Semicolons
<1> DEFINE c == countContents
<1>2. c \in Semicolons /\ \A j \in Semicolons : c <= j
  BY <1>1, MinOfNats DEF countContents
<1>3. c \in 1..(Len(tokens) - it) /\ tokens[it + c].semi
  BY <1>2 DEF Semicolons
<1> HIDE DEF c
<1>4. c \in Nat \ {0} /\ it + c <= Len(tokens)
  BY <1>0, <1>3
<1>5. \A k \in 1..(c - 1) : ~tokens[it + k].semi
  <2> TAKE k \in 1..(c - 1)
  <2>1. k \in 1..(Len(tokens) - it) /\ ~(c <= k)
    BY <1>0, <1>4
  <2>2. k \notin Semicolons
    BY <1>2, <2>1
  <2> QED
    BY <2>1, <2>2 DEF Semicolons
<1>6. \A k \in 1..c : it + k \in 1..Len(tokens)
  BY <1>0, <1>4
<1>7. \A k \in 1..c : tokens[it + k].word \in AnyWord
  BY <1>6, TokensAre
<1> DEFINE f == [k \in 1..c |-> tokens[it + k].word]
<1>8. f \in [1..c -> AnyWord]
  BY <1>7
<1>9. \A k \in 1..c : f[k] = tokens[it + k].word
  OBVIOUS
<1>10. Contents = f
  BY DEF Contents, Word, c
<1> HIDE DEF f
<1>11. f \in Seq(AnyWord) /\ Len(f) = c
  BY <1>4, <1>8, FunctionIsSeq
<1> QED
  BY <1>3, <1>4, <1>5, <1>9, <1>10, <1>11 DEF c

LEMMA TakesSeveral ==
  ASSUME tokens \in Seq(Token), it \in 1..(Len(tokens) + 1), Semicolons # {},
         NEW word \in Lists \cup {"server_name"}, tokens[it] = W(word),
         it' = it + 1 + countContents, tokens' = tokens
  PROVE  Directive(word, countContents)
<1> DEFINE n == countContents
<1>1. /\ n \in Nat /\ it + n <= Len(tokens)
      /\ \A k \in 1..(n - 1) : ~tokens[it + k].semi
  BY ContentsAre
<1>2. tokens[it].word = word /\ tokens[it].semi = FALSE
  BY DEF W
<1>3. Len(tokens) \in Nat /\ it \in Nat
  BY TokensAre
<1> HIDE DEF n
<1>4. ASSUME NEW j \in (it + 1)..(it + n)
      PROVE  Takes(it, j)
  <2>1. it < j
    BY <1>1, <1>3
  <2>2. \A k \in (it + 1)..(j - 1) : ~tokens[k].semi
    <3> TAKE k \in (it + 1)..(j - 1)
    <3>1. k - it \in 1..(n - 1) /\ it + (k - it) = k
      BY <1>1, <1>3
    <3> QED
      BY <1>1, <3>1
  <2> QED
    BY <1>2, <2>1, <2>2 DEF Takes
<1>5. \A j \in (it + 1)..(it + n) : Takes(it, j)
  BY <1>4
<1> QED
  BY <1>1, <1>5 DEF Directive, n

LEMMA WordIs ==
  ASSUME tokens \in Seq(Token), it \in 1..(Len(tokens) + 1), NEW k \in Nat, Has(k), k # 0
  PROVE  Word(k) \in AnyWord /\ it + k \in 1..Len(tokens)
<1>1. Len(tokens) \in Nat /\ it + k \in 1..Len(tokens)
  <2>1. Len(tokens) \in Nat /\ it + k <= Len(tokens)
    BY TokensAre DEF Has
  <2> QED
    BY <2>1
<1> QED
  BY <1>1, TokensAre DEF Word

LEMMA StoiIs == \A word : ft_stoi(word) \in Int /\ ft_stoi(word) \in Number
  BY WordsAssumption DEF ft_stoi, Number

LEMMA HostIs ==
  ASSUME NEW token \in Token
  PROVE  HostIn(token) \in Token
<1>1. CASE token.word \in DOMAIN Addresses
  <2>1. Addresses[token.word][1] \in AnyWord
    BY <1>1, WordsAssumption, KeywordsAreWords
  <2> QED
    BY <1>1, <2>1, TokenType DEF HostIn
<1>2. CASE token.word \notin DOMAIN Addresses
  BY <1>2 DEF HostIn
<1> QED
  BY <1>1, <1>2

LEMMA InsertedIs ==
  ASSUME NEW map \in Maps, NEW key \in Int, NEW value \in AnyWord
  PROVE  /\ Inserted(map, key, value) \in Maps
         /\ DOMAIN Inserted(map, key, value) = DOMAIN map \cup {key}
<1>1. PICK S \in SUBSET Int : map \in [S -> AnyWord]
  BY DEF Maps
<1>2. S \cup {key} \in SUBSET Int
  OBVIOUS
<1>3. Inserted(map, key, value) \in [S \cup {key} -> AnyWord]
  BY <1>1 DEF Inserted
<1> QED
  BY <1>1, <1>2, <1>3 DEF Maps

LEMMA EmptyIs ==
  /\ <<>> \in Maps
  /\ \A S : <<>> \in Seq(S)
  /\ DOMAIN <<>> = {} /\ Len(<<>>) = 0
<1>1. <<>> \in [{} -> AnyWord]
  OBVIOUS
<1>2. <<>> \in Maps
  <2>1. {} \in SUBSET Int
    OBVIOUS
  <2> QED
    BY <1>1, <2>1 DEF Maps
<1>3. DOMAIN <<>> = {} /\ Len(<<>>) = 0
  OBVIOUS
<1> QED
  BY <1>2, <1>3

LEMMA MapsAre ==
  ASSUME NEW map \in Maps
  PROVE  DOMAIN map \in SUBSET Int /\ \A k \in DOMAIN map : map[k] \in AnyWord
  BY DEF Maps

-------------------------------------------------------------------------------
(* The invariant is kept *)

LEMMA WordsOf ==
  /\ \A word \in Once : word \in {"listen", "root", "client_body_size_limit"}
  /\ \A word \in Lists : word \in {"allowed_method", "index", "cgi_extension"}
  /\ \A word \in Once \cup Lists \cup {"server_name", "error_page", "location", "autoindex",
                                      "return", "server"} :
       word # OPEN /\ word # CLOSE
<1>1. \A word \in Once : word \in {"listen", "root", "client_body_size_limit"}
  BY DEF Once
<1>2. \A word \in Lists : word \in {"allowed_method", "index", "cgi_extension"}
  BY DEF Lists
<1> QED
  BY <1>1, <1>2, BracesDiffer

LEMMA DirectiveKeeps ==
  ASSUME IInv, InBlock, NEW word, NEW n, Directive(word, n), word # OPEN, word # CLOSE,
         pc' = pc, why' = why, servers' = servers,
         server' \in ServerRead, location' \in LocationRead,
         flag' \subseteq Once /\ l_flag' \subseteq {"root", "autoindex"},
         IF word = "listen" THEN "listen" \notin flag /\ "listen" \in flag'
                            ELSE "listen" \in flag' <=> "listen" \in flag,
         LocationsValid'
  PROVE  IInv'
<1>1. /\ tokens \in Seq(Token) /\ it \in 1..(Len(tokens) + 1) /\ servers \in Seq(ServerRead)
      /\ ServersValid /\ ListensCounted /\ BracesCounted
  BY DEF IInv, Typed, TypeOK, InBlock, GoesOn
<1>2. tokens' = tokens
  BY DEF Directive
<1>3. it' \in 1..(Len(tokens) + 1)
  BY <1>1, DirectiveCounts
<1>4. Listening \in Nat /\ Depth \in Nat /\ Depth' = Depth
  <2>1. Len(servers) \in Nat /\ Pending \in Nat
    BY <1>1, LenProperties DEF Pending
  <2>2. Listening \in Nat
    BY <2>1 DEF Listening
  <2>3. Depth \in Nat /\ Depth' = Depth
    BY DEF Depth
  <2> QED
    BY <2>2, <2>3
<1>5. Listening' = Listening + (IF word = "listen" THEN 1 ELSE 0)
  <2>1. Len(servers) \in Nat /\ Len(servers') = Len(servers)
    BY <1>1, LenProperties
  <2>2. InBlock'
    BY DEF InBlock
  <2>3. Pending' = Pending + (IF word = "listen" THEN 1 ELSE 0) /\ Pending \in Nat
    BY <2>2 DEF Pending
  <2> QED
    BY <2>1, <2>3 DEF Listening
<1>6. (ListensCounted /\ BracesCounted)'
  <2>1. Depth' = Depth - (IF word = CLOSE THEN 1 ELSE 0)
    BY <1>4
  <2> QED
    BY <1>1, <1>4, <1>5, <2>1, CountsKept
<1>7. Typed'
  <2>1. TypeOK'
    BY <1>2, <1>3 DEF IInv, Typed, TypeOK, LocationRead
  <2> QED
    BY <1>1, <1>2, <2>1 DEF Typed
<1>8. ServersValid'
  BY <1>1 DEF ServersValid
<1>9. pc' # "accepted"
  BY DEF InBlock
<1> QED
  BY <1>6, <1>7, <1>8, <1>9 DEF IInv

\* The file, the servers and what has been read stay as they are.
LEMMA StopKeeps ==
  ASSUME IInv, pc \in {"parseTokens", "parseServer", "parseLocation"},
         (pc' = "rejected" /\ why' # "none") \/ (pc' = "undefined" /\ why' = why),
         UNCHANGED <<file, it, server, flag, location, l_flag, servers>>
  PROVE  IInv'
<1>1. why = "none" /\ Typed /\ ServersValid
  BY DEF IInv, Typed, TypeOK
<1>2. /\ tokens' = tokens /\ it' = it /\ server' = server /\ flag' = flag
      /\ location' = location /\ l_flag' = l_flag /\ servers' = servers
  BY DEF file
<1>3. (pc' = "rejected" /\ why' # "none") \/ (pc' = "undefined" /\ why' = "none")
  BY <1>1
<1>4. TypeOK'
  BY <1>1, <1>2, <1>3 DEF Typed, TypeOK
<1>5. Typed'
  BY <1>1, <1>2, <1>4 DEF Typed
<1>6. ServersValid'
  BY <1>1, <1>2 DEF ServersValid
<1>7. ~InBlock' /\ ~GoesOn' /\ pc' # "accepted"
  BY <1>3 DEF InBlock, GoesOn
<1> QED
  BY <1>5, <1>6, <1>7 DEF IInv

LEMMA ThrowKeeps ==
  ASSUME IInv, pc \in {"parseTokens", "parseServer", "parseLocation"},
         NEW reason, reason # "none", Throw(reason)
  PROVE  IInv'
<1>1. (pc' = "rejected" /\ why' # "none") \/ (pc' = "undefined" /\ why' = why)
  BY DEF Throw
<1>2. UNCHANGED <<file, it, server, flag, location, l_flag, servers>>
  BY DEF Throw
<1> QED
  BY <1>1, <1>2, StopKeeps

LEMMA PastEndKeeps ==
  ASSUME IInv, pc \in {"parseTokens", "parseServer", "parseLocation"}, ReadPastEnd
  PROVE  IInv'
<1>1. (pc' = "rejected" /\ why' # "none") \/ (pc' = "undefined" /\ why' = why)
  BY DEF ReadPastEnd
<1>2. UNCHANGED <<file, it, server, flag, location, l_flag, servers>>
  BY DEF ReadPastEnd
<1> QED
  BY <1>1, <1>2, StopKeeps

\* A directive of a server.
LEMMA ServerKeeps ==
  ASSUME IInv, pc = "parseServer", NEW word, NEW n, NEW new \in ServerRead, Directive(word, n),
         SetServer(new, n), word # OPEN, word # CLOSE, flag' \subseteq Once,
         IF word = "listen" THEN "listen" \notin flag /\ "listen" \in flag'
                            ELSE "listen" \in flag' <=> "listen" \in flag,
         \A i \in DOMAIN new.locations : ValidLocation(new.locations[i])
  PROVE  IInv'
<1>1. /\ pc' = pc /\ why' = why /\ servers' = servers /\ server' = new
      /\ location' = location /\ l_flag' = l_flag
  BY DEF SetServer
<1>2. location \in LocationRead /\ l_flag \subseteq {"root", "autoindex"}
  BY DEF IInv, Typed, TypeOK
<1>3. LocationsValid'
  BY <1>1 DEF LocationsValid
<1>4. InBlock
  BY DEF InBlock
<1> QED
  BY <1>1, <1>2, <1>3, <1>4, DirectiveKeeps

\* A directive of a location.
LEMMA LocationKeeps ==
  ASSUME IInv, pc = "parseLocation", NEW word, NEW n, NEW new \in LocationRead,
         Directive(word, n), SetLocation(new, n), word # OPEN, word # CLOSE, word # "listen",
         l_flag' \subseteq {"root", "autoindex"}
  PROVE  IInv'
<1>1. /\ pc' = pc /\ why' = why /\ servers' = servers /\ server' = server
      /\ location' = new /\ flag' = flag
  BY DEF SetLocation
<1>2. server \in ServerRead /\ flag \subseteq Once /\ LocationsValid
  BY DEF IInv, Typed, TypeOK, InBlock
<1>3. LocationsValid'
  BY <1>1, <1>2 DEF LocationsValid
<1>4. InBlock
  BY DEF InBlock
<1> QED
  BY <1>1, <1>2, <1>3, <1>4, DirectiveKeeps

LEMMA Now ==
  ASSUME IInv
  PROVE  /\ tokens \in Seq(Token) /\ it \in 1..(Len(tokens) + 1)
         /\ server \in ServerRead /\ location \in LocationRead /\ servers \in Seq(ServerRead)
         /\ flag \subseteq Once /\ l_flag \subseteq {"root", "autoindex"}
         /\ pc = "parseServer" => \A i \in DOMAIN server.locations : ValidLocation(server.locations[i])
  BY DEF IInv, Typed, TypeOK, InBlock, LocationsValid

LEMMA ListenKeeps ==
  ASSUME IInv, parseListen
  PROVE  IInv'
<1>1. /\ pc = "parseServer" /\ Has(1) /\ ~AtEnd /\ tokens[it] = W("listen") /\ "listen" \notin flag
      /\ flag' = flag \cup {"listen"}
      /\ SetServer([server EXCEPT !.host = HostIn(tokens[it + 1]),
                                 !.port = ft_stoi(PortIn(Word(1)))], 1)
  BY DEF parseListen, Given, InServer, Is
<1> DEFINE new == [server EXCEPT !.host = HostIn(tokens[it + 1]),
                                 !.port = ft_stoi(PortIn(Word(1)))]
<1>2. new \in ServerRead /\ new.locations = server.locations
  <2>1. it + 1 \in 1..Len(tokens)
    BY <1>1, Now, WordIs
  <2>2. tokens[it + 1] \in Token
    BY <2>1, Now, ElementOfSeq
  <2>3. HostIn(tokens[it + 1]) \in Token /\ ft_stoi(PortIn(Word(1))) \in Number
    BY <2>2, HostIs, StoiIs
  <2> QED
    BY <2>3, Now DEF ServerRead
<1> HIDE DEF new
<1>3. Directive("listen", 1)
  <2>1. it' = it + 2 /\ tokens' = tokens
    BY <1>1, Now DEF SetServer, file
  <2>2. "listen" \in Once \cup {"autoindex", "location"}
    BY DEF Once
  <2> QED
    BY <1>1, <2>1, <2>2, Now, TakesOne
<1>4. flag' \subseteq Once /\ "listen" # OPEN /\ "listen" # CLOSE /\ "listen" \in flag'
  BY <1>1, Now, BracesDiffer DEF Once
<1>5. \A i \in DOMAIN new.locations : ValidLocation(new.locations[i])
  BY <1>1, <1>2, Now
<1>6. SetServer(new, 1)
  BY <1>1 DEF new
<1> QED
  BY <1>1, <1>2, <1>3, <1>4, <1>5, <1>6, ServerKeeps

LEMMA RootKeeps ==
  ASSUME IInv, parseRoot
  PROVE  IInv'
<1>1. /\ pc = "parseServer" /\ Has(1) /\ ~AtEnd /\ tokens[it] = W("root")
      /\ flag' = flag \cup {"root"}
      /\ SetServer([server EXCEPT !.root = Word(1)], 1)
  BY DEF parseRoot, Given, InServer, Is
<1> DEFINE new == [server EXCEPT !.root = Word(1)]
<1>2. new \in ServerRead /\ new.locations = server.locations
  <2>1. Word(1) \in AnyWord
    BY <1>1, Now, WordIs
  <2> QED
    BY <2>1, Now DEF ServerRead
<1> HIDE DEF new
<1>3. Directive("root", 1)
  <2>1. it' = it + 2 /\ tokens' = tokens
    BY <1>1, Now DEF SetServer, file
  <2>2. "root" \in Once \cup {"autoindex", "location"}
    BY DEF Once
  <2> QED
    BY <1>1, <2>1, <2>2, Now, TakesOne
<1>4. /\ flag' \subseteq Once /\ "root" # OPEN /\ "root" # CLOSE /\ "root" # "listen"
      /\ ("listen" \in flag' <=> "listen" \in flag)
  BY <1>1, Now, BracesDiffer DEF Once
<1>5. \A i \in DOMAIN new.locations : ValidLocation(new.locations[i])
  BY <1>1, <1>2, Now
<1>6. SetServer(new, 1)
  BY <1>1 DEF new
<1> QED
  BY <1>1, <1>2, <1>3, <1>4, <1>5, <1>6, ServerKeeps

LEMMA LimitKeeps ==
  ASSUME IInv, parseClientBodySizeLimit
  PROVE  IInv'
<1> DEFINE word == "client_body_size_limit"
           new == [server EXCEPT !.limit = ft_stoi(Word(1))]
<1>1. /\ pc = "parseServer" /\ Has(1) /\ ~AtEnd /\ tokens[it] = W(word)
      /\ flag' = flag \cup {word}
      /\ SetServer(new, 1)
  BY DEF parseClientBodySizeLimit, Given, InServer, Is
<1>2. new \in ServerRead /\ new.locations = server.locations
  BY Now, StoiIs DEF ServerRead
<1>3. Directive(word, 1)
  <2>1. it' = it + 2 /\ tokens' = tokens
    BY <1>1, Now DEF SetServer, file
  <2>2. word \in Once \cup {"autoindex", "location"}
    BY DEF Once
  <2> QED
    BY <1>1, <2>1, <2>2, Now, TakesOne
<1>4. /\ flag' \subseteq Once /\ word # OPEN /\ word # CLOSE /\ word # "listen"
      /\ ("listen" \in flag' <=> "listen" \in flag)
  BY <1>1, Now, BracesDiffer DEF Once
<1> HIDE DEF new, word
<1>5. \A i \in DOMAIN new.locations : ValidLocation(new.locations[i])
  BY <1>1, <1>2, Now
<1> QED
  BY <1>1, <1>2, <1>3, <1>4, <1>5, ServerKeeps

LEMMA JoinedWords ==
  ASSUME tokens \in Seq(Token), it \in 1..(Len(tokens) + 1), Semicolons # {},
         NEW words \in Seq(AnyWord)
  PROVE  words \o Contents \in Seq(AnyWord)
<1>1. Contents \in Seq(AnyWord)
  BY ContentsAre
<1> QED
  BY <1>1, ConcatProperties

LEMMA ServerNameKeeps ==
  ASSUME IInv, parseServerName
  PROVE  IInv'
<1> DEFINE word == "server_name"
           new == [server EXCEPT !.names = server.names \o Contents]
           n == countContents
<1>1. /\ pc = "parseServer" /\ Semicolons # {} /\ tokens[it] = W(word)
      /\ flag' = flag
      /\ SetServer(new, n)
  BY DEF parseServerName, InServer, Is
<1>2. new \in ServerRead /\ new.locations = server.locations
  <2>1. server.names \in Seq(AnyWord)
    BY Now DEF ServerRead
  <2>2. server.names \o Contents \in Seq(AnyWord)
    BY <1>1, <2>1, Now, JoinedWords
  <2> DEFINE names == server.names \o Contents
  <2> HIDE DEF names
  <2>3. names \in Seq(AnyWord)
    BY <2>2 DEF names
  <2>4. [server EXCEPT !.names = names] \in ServerRead
    BY <2>3, Now DEF ServerRead
  <2>5. [server EXCEPT !.names = names].locations = server.locations
    BY Now DEF ServerRead
  <2> QED
    BY <2>4, <2>5, Zenon DEF names
<1>3. Directive(word, n)
  <2>1. it' = it + 1 + countContents /\ tokens' = tokens
    BY <1>1, Now DEF SetServer, file
  <2> QED
    BY <1>1, <2>1, Now, TakesSeveral
<1>4. /\ flag' \subseteq Once /\ word # OPEN /\ word # CLOSE /\ word # "listen"
      /\ ("listen" \in flag' <=> "listen" \in flag)
  BY <1>1, Now, BracesDiffer
<1> HIDE DEF new, word, n
<1>5. \A i \in DOMAIN new.locations : ValidLocation(new.locations[i])
  BY <1>1, <1>2, Now
<1> QED
  BY <1>1, <1>2, <1>3, <1>4, <1>5, ServerKeeps

LEMMA ErrorPagesKeep ==
  ASSUME IInv, parseErrorPages
  PROVE  IInv'
<1> DEFINE word == "error_page"
           map == Inserted(server.error_pages, ft_stoi(Word(1)), Word(2))
           new == [server EXCEPT !.error_pages = map]
<1>1. /\ pc = "parseServer" /\ Has(2) /\ tokens[it] = W(word)
      /\ flag' = flag
      /\ SetServer(new, 2)
  BY DEF parseErrorPages, InServer, Is
<1>2. map \in Maps
  <2>1. Word(2) \in AnyWord
    BY <1>1, Now, WordIs
  <2>2. server.error_pages \in Maps /\ ft_stoi(Word(1)) \in Int
    BY Now, StoiIs DEF ServerRead
  <2> QED
    BY <2>1, <2>2, InsertedIs
<1> HIDE DEF map
<1>3. new \in ServerRead /\ new.locations = server.locations
  BY <1>2, Now DEF ServerRead
<1>4. Directive(word, 2)
  <2>1. it' = it + 3 /\ tokens' = tokens
    BY <1>1, Now DEF SetServer, file
  <2> QED
    BY <1>1, <2>1, Now, TakesTwo
<1>5. /\ flag' \subseteq Once /\ word # OPEN /\ word # CLOSE /\ word # "listen"
      /\ ("listen" \in flag' <=> "listen" \in flag)
  BY <1>1, Now, BracesDiffer
<1> HIDE DEF new, word
<1>6. \A i \in DOMAIN new.locations : ValidLocation(new.locations[i])
  BY <1>1, <1>3, Now
<1> QED
  BY <1>1, <1>3, <1>4, <1>5, <1>6, ServerKeeps

LEMMA NewLocationIs ==
  ASSUME NEW path \in AnyWord
  PROVE  NewLocation(path) \in LocationRead /\ ValidLocation(NewLocation(path))
<1>1. EMPTY \in AnyWord
  BY KeywordsAreWords, KeywordsAre
<1>2. <<>> \in Seq(AnyWord) /\ <<>> \in Maps /\ DOMAIN <<>> = {}
  BY EmptyIs
<1>3. NewLocation(path) \in LocationRead
  BY <1>1, <1>2 DEF NewLocation, LocationRead
<1>4. /\ NewLocation(path).methods = <<>> /\ NewLocation(path).redirect = <<>>
      /\ NewLocation(path).root = EMPTY /\ NewLocation(path).autoindex = "unset"
  BY DEF NewLocation
<1>5. <<>> \in AcceptedLists
  BY Zenon DEF AcceptedLists
<1>6. ValidLocation(NewLocation(path))
  BY <1>2, <1>4, <1>5, WordsAssumption DEF ValidLocation
<1> QED
  BY <1>3, <1>6

\* A valid location behind those a server has.
LEMMA OneLocationMore ==
  ASSUME NEW s \in ServerRead, \A i \in DOMAIN s.locations : ValidLocation(s.locations[i]),
         NEW l \in LocationRead, ValidLocation(l),
         NEW t, t = [s EXCEPT !.locations = Append(s.locations, l)]
  PROVE  /\ t \in ServerRead
         /\ \A i \in DOMAIN t.locations : ValidLocation(t.locations[i])
<1> DEFINE ls == s.locations
           new == Append(ls, l)
<1>1. ls \in Seq(LocationRead) /\ Len(ls) \in Nat /\ DOMAIN ls = 1..Len(ls)
  <2>1. ls \in Seq(LocationRead)
    BY DEF ServerRead
  <2> QED
    BY <2>1, LenProperties
<1>2. /\ new \in Seq(LocationRead) /\ Len(new) = Len(ls) + 1
      /\ \A i \in 1..Len(ls) : new[i] = ls[i]
      /\ new[Len(ls) + 1] = l
  BY <1>1, AppendProperties
<1>3. DOMAIN new = 1..(Len(ls) + 1)
  BY <1>2, LenProperties
<1> HIDE DEF new
<1>4. t = [s EXCEPT !.locations = new]
  BY DEF new
<1>5. t \in ServerRead /\ t.locations = new
  BY <1>2, <1>4 DEF ServerRead
<1>6. \A i \in 1..(Len(ls) + 1) : i \in 1..Len(ls) \/ i = Len(ls) + 1
  BY <1>1
<1>7. \A i \in DOMAIN new : ValidLocation(new[i])
  <2> TAKE i \in DOMAIN new
  <2>1. CASE i \in 1..Len(ls)
    <3>1. new[i] = ls[i] /\ ValidLocation(ls[i])
      BY <1>1, <1>2, <2>1
    <3> QED
      BY <3>1
  <2>2. CASE i = Len(ls) + 1
    BY <1>2, <2>2
  <2> QED
    BY <1>3, <1>6, <2>1, <2>2
<1> QED
  BY <1>5, <1>7

LEMMA WithoutBodyKeeps ==
  ASSUME IInv, LocationWithoutBody
  PROVE  IInv'
<1> DEFINE word == "location"
           new == [server EXCEPT !.locations = Append(server.locations, NewLocation(tokens[it + 1].word))]
<1>1. /\ pc = "parseServer" /\ Has(2) /\ tokens[it] = W(word) /\ tokens[it + 2] # W(OPEN)
      /\ flag' = flag
      /\ SetServer(new, 2)
  BY DEF LocationWithoutBody, InServer, Is
<1>2. tokens[it + 1].word \in AnyWord
  <2>1. Has(1)
    BY <1>1, Now, TokensAre DEF Has
  <2> QED
    BY <2>1, Now, WordIs DEF Word
<1> DEFINE l == NewLocation(tokens[it + 1].word)
<1>3. l \in LocationRead /\ ValidLocation(l)
  BY <1>2, NewLocationIs
<1>4. /\ new \in ServerRead
      /\ \A i \in DOMAIN new.locations : ValidLocation(new.locations[i])
  <2> HIDE DEF l
  <2>1. new = [server EXCEPT !.locations = Append(server.locations, l)]
    BY DEF l
  <2> HIDE DEF new
  <2> QED
    BY <1>1, <1>3, <2>1, Now, OneLocationMore
<1>5. Directive(word, 2)
  <2>1. it' = it + 3 /\ tokens' = tokens
    BY <1>1, Now DEF SetServer, file
  <2> QED
    BY <1>1, <2>1, Now, TakesTwo
<1>6. /\ flag' \subseteq Once /\ word # OPEN /\ word # CLOSE /\ word # "listen"
      /\ ("listen" \in flag' <=> "listen" \in flag)
  BY <1>1, Now, BracesDiffer
<1> HIDE DEF new, word
<1> QED
  BY <1>1, <1>4, <1>5, <1>6, ServerKeeps

LEMMA LocationRootKeeps ==
  ASSUME IInv, parseLocationRoot
  PROVE  IInv'
<1> DEFINE word == "root"
           new == [location EXCEPT !.root = Word(1)]
<1>1. /\ pc = "parseLocation" /\ Has(1) /\ ~AtEnd /\ tokens[it] = W(word)
      /\ l_flag' = l_flag \cup {word}
      /\ SetLocation(new, 1)
  BY DEF parseLocationRoot, InLocation, Is
<1>2. new \in LocationRead
  <2>1. Word(1) \in AnyWord
    BY <1>1, Now, WordIs
  <2> QED
    BY <2>1, Now DEF LocationRead
<1>3. Directive(word, 1)
  <2>1. it' = it + 2 /\ tokens' = tokens
    BY <1>1, Now DEF SetLocation, file
  <2>2. word \in Once \cup {"autoindex", "location"}
    BY DEF Once
  <2> QED
    BY <1>1, <2>1, <2>2, Now, TakesOne
<1>4. /\ l_flag' \subseteq {"root", "autoindex"}
      /\ word # OPEN /\ word # CLOSE /\ word # "listen"
  BY <1>1, Now, BracesDiffer
<1> HIDE DEF new, word
<1> QED
  BY <1>1, <1>2, <1>3, <1>4, LocationKeeps

LEMMA AutoindexKeeps ==
  ASSUME IInv, parseLocationAutoindexes
  PROVE  IInv'
<1> DEFINE word == "autoindex"
           new == [location EXCEPT !.autoindex = Word(1)]
<1>1. pc = "parseLocation" /\ Has(1) /\ ~AtEnd /\ tokens[it] = W(word)
  BY DEF parseLocationAutoindexes, InLocation, Is
<1>2. CASE Word(1) \notin {"on", "off"}
  <2>1. Throw("Invalid_autoindex")
    BY <1>2 DEF parseLocationAutoindexes
  <2> QED
    BY <1>1, <2>1, ThrowKeeps
<1>3. CASE Word(1) \in {"on", "off"}
  <2>1. l_flag' = l_flag \cup {word} /\ SetLocation(new, 1)
    BY <1>3 DEF parseLocationAutoindexes
  <2>2. new \in LocationRead
    BY <1>3, Now DEF LocationRead
  <2>3. Directive(word, 1)
    <3>1. it' = it + 2 /\ tokens' = tokens
      BY <2>1, Now DEF SetLocation, file
    <3> QED
      BY <1>1, <3>1, Now, TakesOne
  <2>4. /\ l_flag' \subseteq {"root", "autoindex"}
        /\ word # OPEN /\ word # CLOSE /\ word # "listen"
    BY <2>1, Now, BracesDiffer
  <2> HIDE DEF new, word
  <2> QED
    BY <1>1, <2>1, <2>2, <2>3, <2>4, LocationKeeps
<1> QED
  BY <1>2, <1>3

LEMMA ListsKeep ==
  ASSUME IInv, parseLocationLists
  PROVE  IInv'
<1> DEFINE n == countContents
           methods == IF Is("allowed_method") THEN location.methods \o Contents ELSE location.methods
           indexes == IF Is("index") THEN location.indexes \o Contents ELSE location.indexes
           cgi == IF Is("cgi_extension") THEN location.cgi \o Contents ELSE location.cgi
           new == [location EXCEPT !.methods = methods, !.indexes = indexes, !.cgi = cgi]
<1>1. PICK word \in Lists : pc = "parseLocation" /\ tokens[it] = W(word)
  BY DEF parseLocationLists, InLocation, Is
<1>2. Semicolons # {} /\ l_flag' = l_flag /\ SetLocation(new, n)
  BY DEF parseLocationLists
<1>3. /\ location.methods \in Seq(AnyWord) /\ location.indexes \in Seq(AnyWord)
      /\ location.cgi \in Seq(AnyWord)
  BY Now DEF LocationRead
<1>4. methods \in Seq(AnyWord) /\ indexes \in Seq(AnyWord) /\ cgi \in Seq(AnyWord)
  <2>1. /\ location.methods \o Contents \in Seq(AnyWord)
        /\ location.indexes \o Contents \in Seq(AnyWord)
        /\ location.cgi \o Contents \in Seq(AnyWord)
    BY <1>2, <1>3, Now, JoinedWords
  <2> QED
    BY <1>3, <2>1, Zenon
<1> HIDE DEF methods, indexes, cgi
<1>5. new \in LocationRead
  BY <1>4, Now DEF LocationRead
<1>6. Directive(word, n)
  <2>1. it' = it + 1 + countContents /\ tokens' = tokens
    BY <1>2, Now DEF SetLocation, file
  <2> QED
    BY <1>1, <1>2, <2>1, Now, TakesSeveral
<1>7. l_flag' \subseteq {"root", "autoindex"} /\ word # OPEN /\ word # CLOSE /\ word # "listen"
  BY <1>2, Now, WordsOf
<1> HIDE DEF new, n
<1> QED
  BY <1>1, <1>2, <1>5, <1>6, <1>7, LocationKeeps

LEMMA RedirectKeeps ==
  ASSUME IInv, parseLocationRedirect
  PROVE  IInv'
<1> DEFINE word == "return"
           map == Inserted(location.redirect, ft_stoi(Word(1)), Word(2))
           new == [location EXCEPT !.redirect = map]
<1>1. /\ pc = "parseLocation" /\ Has(2) /\ tokens[it] = W(word)
      /\ l_flag' = l_flag
      /\ SetLocation(new, 2)
  BY DEF parseLocationRedirect, InLocation, Is
<1>2. map \in Maps
  <2>1. Word(2) \in AnyWord
    BY <1>1, Now, WordIs
  <2>2. location.redirect \in Maps /\ ft_stoi(Word(1)) \in Int
    BY Now, StoiIs DEF LocationRead
  <2> QED
    BY <2>1, <2>2, InsertedIs
<1> HIDE DEF map
<1>3. new \in LocationRead
  BY <1>2, Now DEF LocationRead
<1>4. Directive(word, 2)
  <2>1. it' = it + 3 /\ tokens' = tokens
    BY <1>1, Now DEF SetLocation, file
  <2> QED
    BY <1>1, <2>1, Now, TakesTwo
<1>5. /\ l_flag' \subseteq {"root", "autoindex"}
      /\ word # OPEN /\ word # CLOSE /\ word # "listen"
  BY <1>1, Now, BracesDiffer
<1> HIDE DEF new, word
<1> QED
  BY <1>1, <1>3, <1>4, <1>5, LocationKeeps

LEMMA CountsInBlocks ==
  ASSUME IInv, pc \in {"parseTokens", "parseServer", "parseLocation"}
  PROVE  /\ Listening \in Nat /\ Depth \in Nat /\ Len(servers) \in Nat
         /\ ListensCounted /\ BracesCounted /\ ServersValid
         /\ why = "none"
         /\ pc = "parseTokens" => Depth = 0 /\ Listening = Len(servers)
         /\ pc = "parseServer" => Depth = 1
         /\ pc = "parseLocation" => Depth = 2
<1>1. Len(servers) \in Nat /\ Pending \in Nat
  BY Now, LenProperties DEF Pending
<1>2. pc = "parseTokens" => Pending = 0
  BY DEF Pending, InBlock
<1>3. Listening \in Nat /\ (pc = "parseTokens" => Listening = Len(servers))
  BY <1>1, <1>2 DEF Listening
<1>4. /\ Depth \in Nat
      /\ pc = "parseTokens" => Depth = 0
      /\ pc = "parseServer" => Depth = 1
      /\ pc = "parseLocation" => Depth = 2
  BY DEF Depth
<1>5. ListensCounted /\ BracesCounted /\ ServersValid
  BY DEF IInv, GoesOn
<1>6. why = "none"
  BY DEF IInv, Typed, TypeOK
<1> QED
  BY <1>1, <1>3, <1>4, <1>5, <1>6

LEMMA OpenServerKeeps ==
  ASSUME IInv, OpenServer
  PROVE  IInv'
<1> DEFINE word == "server"
<1>1. /\ pc = "parseTokens" /\ Has(1) /\ tokens[it] = W(word) /\ tokens[it + 1] = W(OPEN)
      /\ server' = NewServer /\ flag' = {} /\ pc' = "parseServer" /\ it' = it + 2
      /\ tokens' = tokens /\ why' = why /\ location' = location /\ l_flag' = l_flag
      /\ servers' = servers
  BY DEF OpenServer, Is, file
<1>2. CountsOpen(word, 0)
  <2>1. Len(tokens) \in Nat /\ it \in Nat /\ it + 1 <= Len(tokens)
    BY <1>1, Now, TokensAre DEF Has
  <2>2. it + 0 + 1 = it + 1 /\ it + 0 + 2 = it + 2 /\ (it + 1)..(it + 0) = {} /\ 0 \in Nat
    BY <2>1
  <2>3. \A j \in (it + 1)..(it + 0) : Takes(it, j)
    BY <2>2
  <2>4. it + 0 + 1 <= Len(tokens) /\ tokens[it + 0 + 1] = W(OPEN) /\ it' = it + 0 + 2
    BY <1>1, <2>1, <2>2
  <2> QED
    BY <1>1, <2>2, <2>3, <2>4 DEF CountsOpen
<1>3. Listening' = Listening /\ Depth' = Depth + 1
  <2>1. Pending' = 0
    BY <1>1 DEF Pending
  <2>2. Listening' = Len(servers)
    BY <1>1, <2>1, CountsInBlocks DEF Listening
  <2>3. Depth' = 1
    BY <1>1 DEF Depth
  <2> QED
    BY <1>1, <2>2, <2>3, CountsInBlocks
<1>4. word \notin {OPEN, "listen"}
  BY BracesDiffer
<1> HIDE DEF word
<1>5. Listening \in Nat /\ Depth \in Nat /\ ListensCounted /\ BracesCounted /\ ServersValid
      /\ why = "none"
  BY <1>1, CountsInBlocks
<1>6. (ListensCounted /\ BracesCounted)' /\ it' \in 1..(Len(tokens) + 1)
  <2>1. (ListensCounted /\ BracesCounted)'
    BY <1>2, <1>3, <1>4, <1>5, Now, OpenCounts
  <2>2. it' \in 1..(Len(tokens) + 1)
    BY <1>2, <1>3, <1>4, <1>5, Now, OpenCounts
  <2> QED
    BY <2>1, <2>2
<1>7. NewServer \in ServerRead /\ NewServer.locations = <<>>
  <2>1. EMPTY \in AnyWord
    BY KeywordsAreWords, KeywordsAre
  <2>2. <<>> \in Seq(AnyWord) /\ <<>> \in Maps /\ <<>> \in Seq(LocationRead)
    BY EmptyIs
  <2>3. W(EMPTY) \in Token /\ Unset \in Number
    BY <2>1, TokenType DEF Number
  <2> QED
    BY <2>1, <2>2, <2>3 DEF NewServer, ServerRead
<1>8. TypeOK'
  <2>1. location \in LocationRead /\ l_flag \subseteq {"root", "autoindex"}
    BY Now
  <2> QED
    BY <1>1, <1>5, <1>6, <2>1 DEF TypeOK, LocationRead
<1>9. Typed'
  BY <1>1, <1>7, <1>8, Now DEF Typed
<1>10. ServersValid' /\ LocationsValid'
  BY <1>1, <1>5, <1>7, EmptyIs DEF ServersValid, LocationsValid
<1>11. pc' # "accepted"
  BY <1>1
<1> QED
  BY <1>6, <1>9, <1>10, <1>11 DEF IInv

LEMMA OpenLocationKeeps ==
  ASSUME IInv, OpenLocation
  PROVE  IInv'
<1> DEFINE word == "location"
<1>1. pc = "parseServer" /\ ~AtEnd /\ Has(2) /\ tokens[it] = W(word) /\ tokens[it + 2] = W(OPEN)
  BY DEF OpenLocation, InServer, Is
<1>2. CASE ~Has(3)
  <2>1. Throw("Need_to_be_closed_by_brackets")
    BY <1>2 DEF OpenLocation
  <2> QED
    BY <1>1, <2>1, ThrowKeeps
<1>3. CASE Has(3)
  <2>1. /\ location' = NewLocation(Word(1)) /\ l_flag' = {} /\ pc' = "parseLocation"
        /\ it' = it + 3 /\ tokens' = tokens /\ why' = why /\ server' = server /\ flag' = flag
        /\ servers' = servers
    BY <1>3 DEF OpenLocation, file
  <2>2. Len(tokens) \in Nat /\ it \in Nat /\ it + 2 <= Len(tokens)
    BY <1>1, Now, TokensAre DEF Has
  <2>3. CountsOpen(word, 1)
    <3>1. it + 1 + 1 = it + 2 /\ it + 1 + 2 = it + 3 /\ 1 \in Nat
      BY <2>2
    <3>2. \A j \in (it + 1)..(it + 1) : Takes(it, j)
      <4>1. \A j \in (it + 1)..(it + 1) : j = it + 1 /\ it < j
        BY <2>2
      <4>2. tokens[it].word = word /\ tokens[it].semi = FALSE
        BY <1>1 DEF W
      <4> QED
        BY <4>1, <4>2 DEF Takes
    <3>3. it + 1 + 1 <= Len(tokens) /\ tokens[it + 1 + 1] = W(OPEN) /\ it' = it + 1 + 2
      BY <1>1, <2>1, <2>2, <3>1
    <3> QED
      BY <1>1, <2>1, <3>1, <3>2, <3>3 DEF CountsOpen
  <2>4. Listening' = Listening /\ Depth' = Depth + 1
    <3>1. Pending' = Pending
      BY <1>1, <2>1 DEF Pending, InBlock
    <3>2. Listening' = Listening
      BY <2>1, <3>1 DEF Listening
    <3>3. Depth' = 2 /\ Depth = 1
      BY <1>1, <2>1 DEF Depth
    <3> QED
      BY <3>2, <3>3
  <2>5. word \notin {OPEN, "listen"}
    BY BracesDiffer
  <2> HIDE DEF word
  <2>6. /\ Listening \in Nat /\ Depth \in Nat /\ ListensCounted /\ BracesCounted /\ ServersValid
        /\ why = "none"
    BY <1>1, CountsInBlocks
  <2>7. (ListensCounted /\ BracesCounted)' /\ it' \in 1..(Len(tokens) + 1)
    <3>1. (ListensCounted /\ BracesCounted)'
      BY <2>3, <2>4, <2>5, <2>6, Now, OpenCounts
    <3>2. it' \in 1..(Len(tokens) + 1)
      BY <2>3, <2>4, <2>5, <2>6, Now, OpenCounts
    <3> QED
      BY <3>1, <3>2
  <2>8. NewLocation(Word(1)) \in LocationRead
    <3>1. Has(1)
      BY <2>2 DEF Has
    <3> QED
      BY <3>1, Now, WordIs, NewLocationIs
  <2>9. TypeOK'
    <3>1. flag \subseteq Once /\ location'.autoindex \in {"unset", "on", "off"}
      BY <2>1, <2>8, Now DEF LocationRead
    <3> QED
      BY <2>1, <2>6, <2>7, <3>1 DEF TypeOK
  <2>10. Typed'
    BY <2>1, <2>8, <2>9, Now DEF Typed
  <2>11. ServersValid' /\ LocationsValid'
    BY <1>1, <2>1, <2>6, Now DEF ServersValid, LocationsValid
  <2>12. pc' # "accepted"
    BY <2>1
  <2> QED
    BY <2>7, <2>10, <2>11, <2>12 DEF IInv
<1> QED
  BY <1>2, <1>3

Statuses == 101..599

LEMMA StatusIs ==
  ASSUME NEW map \in Maps
  PROVE  isValidStatus(map) <=> DOMAIN map \subseteq Statuses
<1>1. DOMAIN map \in SUBSET Int
  BY MapsAre
<1>2. \A k \in DOMAIN map : (k > 100 /\ k < 600) <=> k \in 101..599
  BY <1>1
<1> QED
  BY <1>2 DEF isValidStatus, Statuses

\* A location without a problem is a valid one.
LEMMA LocationChecked ==
  ASSUME NEW l \in LocationRead
  PROVE  LocationProblem(l) = "none" <=> ValidLocation(l)
<1>1. /\ l.methods \in Seq(AnyWord) /\ l.redirect \in Maps
      /\ l.autoindex \in {"unset", "on", "off"}
  BY DEF LocationRead
<1>2. isValidVector(l.methods) <=> l.methods \in AcceptedLists
  BY <1>1, ValidVector
<1>3. isValidStatus(l.redirect) <=> DOMAIN l.redirect \subseteq Statuses
  BY <1>1, StatusIs, Zenon
<1>4. isValidRoot(l.root) <=> l.root \notin DotRoots
  BY DEF isValidRoot
<1>5. LocationProblem(l) = "none" <=>
        isValidVector(l.methods) /\ isValidStatus(l.redirect) /\ isValidRoot(l.root)
  BY DEF LocationProblem
<1> QED
  BY <1>1, <1>2, <1>3, <1>4, <1>5 DEF ValidLocation, Statuses

\* A server without a problem is a valid one, if its locations are.
LEMMA ServerChecked ==
  ASSUME server \in ServerRead, LocationsValid
  PROVE  ServerProblem = "none" <=> "listen" \in flag /\ ValidServer(server)
<1>1. server.error_pages \in Maps
  BY DEF ServerRead
<1>2. /\ ~isDupLocation(server) <=>
           \A i \in DOMAIN server.locations :
             i > 1 => server.locations[i].location # server.locations[1].location
      /\ isValidRoot(server.root) <=> server.root \notin DotRoots
  BY DEF isDupLocation, isValidRoot
<1>3. isValidStatus(server.error_pages) <=>
        \A status \in DOMAIN server.error_pages : status \in Statuses
  BY <1>1, StatusIs, Zenon
<1>4. isValidErrorPages(server.error_pages) <=>
        \A status \in DOMAIN server.error_pages : server.error_pages[status] \in Slashed
  BY DEF isValidErrorPages
<1>5. ServerProblem = "none" <=>
        /\ "listen" \in flag /\ ~isDupLocation(server)
        /\ isValidStatus(server.error_pages) /\ isValidErrorPages(server.error_pages)
        /\ isValidRoot(server.root)
  BY DEF ServerProblem
<1> QED
  BY <1>2, <1>3, <1>4, <1>5 DEF ValidServer, LocationsValid, Statuses

LEMMA CloseIsDirective ==
  ASSUME tokens \in Seq(Token), it \in 1..(Len(tokens) + 1), Is(CLOSE),
         it' = it + 1, tokens' = tokens
  PROVE  Directive(CLOSE, 0)
<1>1. Len(tokens) \in Nat /\ it \in Nat /\ it # Len(tokens) + 1 /\ tokens[it] = W(CLOSE)
  BY TokensAre DEF Is, AtEnd
<1>2. it + 0 = it /\ it' = it + 1 + 0 /\ it + 0 <= Len(tokens) /\ (it + 1)..(it + 0) = {}
  BY <1>1
<1>3. \A j \in (it + 1)..(it + 0) : Takes(it, j)
  BY <1>2
<1> QED
  BY <1>1, <1>2, <1>3 DEF Directive

LEMMA CloseLocationKeeps ==
  ASSUME IInv, CloseLocation
  PROVE  IInv'
<1>1. pc = "parseLocation" /\ Is(CLOSE)
  BY DEF CloseLocation, InLocation
<1>2. CASE LocationProblem(location) # "none"
  <2>1. Throw(LocationProblem(location))
    BY <1>2 DEF CloseLocation
  <2> QED
    BY <1>1, <1>2, <2>1, ThrowKeeps
<1>3. CASE LocationProblem(location) = "none"
  <2>1. /\ server' = [server EXCEPT !.locations = Append(server.locations, location)]
        /\ pc' = "parseServer" /\ it' = it + 1 /\ tokens' = tokens /\ why' = why
        /\ flag' = flag /\ location' = location /\ l_flag' = l_flag /\ servers' = servers
    BY <1>3 DEF CloseLocation, file
  <2>2. ValidLocation(location)
    BY <1>3, Now, LocationChecked
  <2>3. /\ server' \in ServerRead
        /\ \A i \in DOMAIN server'.locations : ValidLocation(server'.locations[i])
    <3>1. \A i \in DOMAIN server.locations : ValidLocation(server.locations[i])
      BY <1>1 DEF IInv, InBlock, LocationsValid
    <3> QED
      BY <2>1, <2>2, <3>1, Now, OneLocationMore
  <2>4. Directive(CLOSE, 0)
    BY <1>1, <2>1, Now, CloseIsDirective
  <2>5. CLOSE # OPEN /\ CLOSE # "listen"
    BY BracesDiffer
  <2>6. /\ Listening \in Nat /\ Depth = 2 /\ ListensCounted /\ BracesCounted /\ ServersValid
        /\ why = "none"
    BY <1>1, CountsInBlocks
  <2>7. Listening' = Listening /\ Depth' = 1
    <3>1. Pending' = Pending
      BY <1>1, <2>1 DEF Pending, InBlock
    <3>2. Listening' = Listening
      BY <2>1, <3>1 DEF Listening
    <3>3. Depth' = 1
      BY <2>1 DEF Depth
    <3> QED
      BY <3>2, <3>3
  <2>8. (ListensCounted /\ BracesCounted)' /\ it' \in 1..(Len(tokens) + 1)
    <3>1. /\ Listening' = Listening + (IF CLOSE = "listen" THEN 1 ELSE 0)
          /\ Depth' = Depth - (IF CLOSE = CLOSE THEN 1 ELSE 0)
          /\ Depth \in Nat
      BY <2>5, <2>6, <2>7
    <3>2. (ListensCounted /\ BracesCounted)'
      BY <2>4, <2>5, <2>6, <3>1, Now, CountsKept
    <3>3. it' \in 1..(Len(tokens) + 1)
      BY <2>4, Now, DirectiveCounts
    <3> QED
      BY <3>2, <3>3
  <2>9. TypeOK'
    <3>1. /\ flag \subseteq Once /\ l_flag \subseteq {"root", "autoindex"}
          /\ location.autoindex \in {"unset", "on", "off"}
      BY Now DEF LocationRead
    <3> QED
      BY <2>1, <2>6, <2>8, <3>1 DEF TypeOK
  <2>10. Typed'
    BY <2>1, <2>3, <2>9, Now DEF Typed
  <2>11. ServersValid' /\ LocationsValid'
    BY <2>1, <2>3, <2>6 DEF ServersValid, LocationsValid
  <2>12. pc' # "accepted"
    BY <2>1
  <2> QED
    BY <2>8, <2>10, <2>11, <2>12 DEF IInv
<1> QED
  BY <1>2, <1>3

LEMMA CloseServerKeeps ==
  ASSUME IInv, CloseServer
  PROVE  IInv'
<1>1. pc = "parseServer" /\ Is(CLOSE) /\ LocationsValid
  BY DEF CloseServer, InServer, IInv, InBlock
<1>2. CASE ServerProblem # "none"
  <2>1. Throw(ServerProblem)
    BY <1>2 DEF CloseServer
  <2> QED
    BY <1>1, <1>2, <2>1, ThrowKeeps
<1>3. CASE ServerProblem = "none"
  <2>1. /\ servers' = Append(servers, server)
        /\ pc' = "parseTokens" /\ it' = it + 1 /\ tokens' = tokens /\ why' = why
        /\ server' = server /\ flag' = flag /\ location' = location /\ l_flag' = l_flag
    BY <1>3 DEF CloseServer, file
  <2>2. "listen" \in flag /\ ValidServer(server)
    BY <1>1, <1>3, Now, ServerChecked
  <2>3. Directive(CLOSE, 0)
    BY <1>1, <2>1, Now, CloseIsDirective
  <2>4. CLOSE # OPEN /\ CLOSE # "listen"
    BY BracesDiffer
  <2>5. /\ Listening \in Nat /\ Depth = 1 /\ ListensCounted /\ BracesCounted /\ ServersValid
        /\ why = "none" /\ Len(servers) \in Nat
    BY <1>1, CountsInBlocks
  <2>6. /\ servers' \in Seq(ServerRead) /\ Len(servers') = Len(servers) + 1
        /\ DOMAIN servers = 1..Len(servers) /\ DOMAIN servers' = 1..Len(servers')
        /\ \A i \in 1..Len(servers) : servers'[i] = servers[i]
        /\ servers'[Len(servers) + 1] = server
    BY <2>1, Now, AppendProperties, LenProperties
  <2>7. Listening' = Listening /\ Depth' = 0
    <3>1. Pending' = 0 /\ Pending = 1
      BY <1>1, <2>1, <2>2 DEF Pending, InBlock
    <3>2. Depth' = 0
      BY <2>1 DEF Depth
    <3>3. Listening' = Len(servers') + 0 /\ Listening = Len(servers) + 1
      BY <3>1 DEF Listening
    <3> QED
      BY <2>5, <2>6, <3>2, <3>3
  <2>8. (ListensCounted /\ BracesCounted)' /\ it' \in 1..(Len(tokens) + 1)
    <3>1. /\ Listening' = Listening + (IF CLOSE = "listen" THEN 1 ELSE 0)
          /\ Depth' = Depth - (IF CLOSE = CLOSE THEN 1 ELSE 0)
          /\ Depth \in Nat
      BY <2>4, <2>5, <2>7
    <3>2. (ListensCounted /\ BracesCounted)'
      BY <2>3, <2>4, <2>5, <3>1, Now, CountsKept
    <3>3. it' \in 1..(Len(tokens) + 1)
      BY <2>3, Now, DirectiveCounts
    <3> QED
      BY <3>2, <3>3
  <2>9. TypeOK'
    <3>1. /\ flag \subseteq Once /\ l_flag \subseteq {"root", "autoindex"}
          /\ location.autoindex \in {"unset", "on", "off"}
      BY Now DEF LocationRead
    <3> QED
      BY <2>1, <2>5, <2>8, <3>1 DEF TypeOK
  <2>10. Typed'
    BY <2>1, <2>6, <2>9, Now DEF Typed
  <2>11. \A i \in 1..(Len(servers) + 1) : i \in 1..Len(servers) \/ i = Len(servers) + 1
    BY <2>5
  <2>12. ServersValid'
    <3>1. \A i \in 1..Len(servers) : ValidServer(servers[i])
      BY <2>5, <2>6 DEF ServersValid
    <3>2. \A i \in 1..(Len(servers) + 1) : ValidServer(servers'[i])
      BY <2>2, <2>6, <2>11, <3>1
    <3> QED
      BY <2>6, <3>2 DEF ServersValid
  <2>13. pc' # "accepted" /\ ~InBlock'
    BY <2>1 DEF InBlock
  <2> QED
    BY <2>8, <2>10, <2>12, <2>13 DEF IInv
<1> QED
  BY <1>2, <1>3

LEMMA FinishKeeps ==
  ASSUME IInv, Finish
  PROVE  IInv'
<1>1. /\ pc = "parseTokens" /\ it = Len(tokens) + 1 /\ pc' = "accepted"
      /\ it' = it /\ tokens' = tokens /\ why' = why /\ server' = server /\ flag' = flag
      /\ location' = location /\ l_flag' = l_flag /\ servers' = servers
  BY DEF Finish, AtEnd, file
<1>2. /\ ListensCounted /\ BracesCounted /\ ServersValid /\ why = "none" /\ Depth = 0
      /\ Listening = Len(servers)
  BY <1>1, CountsInBlocks
<1>3. TypeOK'
  <2>1. TypeOK
    BY DEF IInv, Typed
  <2> QED
    BY <1>1, <1>2, <2>1 DEF TypeOK
<1>4. Typed'
  BY <1>1, <1>3, Now DEF Typed
<1>5. ServersValid' /\ ~InBlock'
  BY <1>1, <1>2 DEF ServersValid, InBlock
<1>6. (ListensCounted /\ BracesCounted)'
  <2>1. \A t : ReadTokens(t)' = ReadTokens(t) /\ ReadUntaken(t)' = ReadUntaken(t)
    <3> TAKE t
    <3>1. ReadTokens(t)' = ReadOf(Tokens(t), it') /\ ReadUntaken(t)' = ReadOf(Untaken(t), it')
      BY <1>1, CountsNow
    <3> QED
      BY <1>1, <3>1 DEF ReadTokens, ReadUntaken
  <2>2. Depth' = 0 /\ Pending' = 0
    BY <1>1 DEF Depth, Pending, InBlock
  <2>3. Pending = 0 /\ Len(servers) \in Nat
    BY <1>1, CountsInBlocks DEF Pending, InBlock
  <2>4. Listening' = Listening
    BY <1>1, <2>2, <2>3 DEF Listening
  <2> QED
    BY <1>2, <2>1, <2>2, <2>4 DEF ListensCounted, BracesCounted
<1>7. it' = Len(tokens') + 1
  BY <1>1
<1> QED
  BY <1>4, <1>5, <1>6, <1>7 DEF IInv

LEMMA NotClosedKeeps ==
  ASSUME IInv, LocationNotClosed
  PROVE  IInv'
<1>1. pc = "parseLocation"
  BY DEF LocationNotClosed
<1>2. CASE LocationProblem(location) # "none"
  <2>1. Throw(LocationProblem(location))
    BY <1>2 DEF LocationNotClosed
  <2> QED
    BY <1>1, <1>2, <2>1, ThrowKeeps
<1>3. CASE LocationProblem(location) = "none"
  <2>1. ReadPastEnd
    BY <1>3 DEF LocationNotClosed
  <2> QED
    BY <1>1, <2>1, PastEndKeeps
<1> QED
  BY <1>2, <1>3

LEMMA RefusalKeeps ==
  ASSUME IInv, NoServer \/ Duplicated \/ ServerNotClosed \/ UnknownDirective
  PROVE  IInv'
<1>1. CASE NoServer
  <2>1. pc = "parseTokens" /\ Throw("Wrong_syntax")
    BY <1>1 DEF NoServer
  <2> QED
    BY <2>1, ThrowKeeps
<1>2. CASE Duplicated
  <2>1. pc \in {"parseServer", "parseLocation"} /\ Throw("Duplicated_directive")
    BY <1>2 DEF Duplicated, InServer, InLocation
  <2> QED
    BY <2>1, ThrowKeeps
<1>3. CASE ServerNotClosed
  <2>1. pc = "parseServer" /\ Throw("Need_to_be_closed_by_brackets")
    BY <1>3 DEF ServerNotClosed
  <2> QED
    BY <2>1, ThrowKeeps
<1>4. CASE UnknownDirective
  <2>1. /\ pc \in {"parseServer", "parseLocation"}
        /\ Throw("Wrong_syntax") \/ Throw("Syntax_error")
    BY <1>4 DEF UnknownDirective
  <2>2. CASE Throw("Wrong_syntax")
    BY <2>1, <2>2, ThrowKeeps
  <2>3. CASE Throw("Syntax_error")
    BY <2>1, <2>3, ThrowKeeps
  <2> QED
    BY <2>1, <2>2, <2>3
<1> QED
  BY <1>1, <1>2, <1>3, <1>4

LEMMA MissingKeeps ==
  ASSUME IInv, WordsMissing
  PROVE  IInv'
<1>1. pc \in {"parseTokens", "parseServer", "parseLocation"} /\ ReadPastEnd
  BY DEF WordsMissing, InServer, InLocation
<1> QED
  BY <1>1, PastEndKeeps

LEMMA StutterKeeps ==
  ASSUME IInv, UNCHANGED vars
  PROVE  IInv'
<1>1. /\ tokens' = tokens /\ it' = it /\ pc' = pc /\ why' = why /\ server' = server
      /\ flag' = flag /\ location' = location /\ l_flag' = l_flag /\ servers' = servers
  BY DEF vars
<1>2. \A t : ReadTokens(t)' = ReadTokens(t) /\ ReadUntaken(t)' = ReadUntaken(t)
  <2> TAKE t
  <2>1. ReadTokens(t)' = ReadOf(Tokens(t), it') /\ ReadUntaken(t)' = ReadOf(Untaken(t), it')
    BY <1>1, CountsNow
  <2> QED
    BY <1>1, <2>1 DEF ReadTokens, ReadUntaken
<1>3. Listening' = Listening /\ Depth' = Depth
  BY <1>1 DEF Listening, Pending, InBlock, Depth
<1>4. (ListensCounted' <=> ListensCounted) /\ (BracesCounted' <=> BracesCounted)
  BY <1>2, <1>3 DEF ListensCounted, BracesCounted
<1>5. (Typed' <=> Typed)
  BY <1>1 DEF Typed, TypeOK
<1>6. (ServersValid' <=> ServersValid) /\ (LocationsValid' <=> LocationsValid)
  BY <1>1 DEF ServersValid, LocationsValid
<1>7. (InBlock' <=> InBlock) /\ (GoesOn' <=> GoesOn)
  BY <1>1 DEF InBlock, GoesOn
<1> QED
  BY <1>1, <1>4, <1>5, <1>6, <1>7 DEF IInv

LEMMA StepKeeps == IInv /\ [Next]_vars => IInv'
<1> SUFFICES ASSUME IInv, [Next]_vars PROVE IInv'
  OBVIOUS
<1>1. CASE UNCHANGED vars
  BY <1>1, StutterKeeps
<1>2. CASE Finish
  BY <1>2, FinishKeeps
<1>3. CASE OpenServer
  BY <1>3, OpenServerKeeps
<1>4. CASE NoServer \/ Duplicated \/ ServerNotClosed \/ UnknownDirective
  BY <1>4, RefusalKeeps
<1>5. CASE parseListen
  BY <1>5, ListenKeeps
<1>6. CASE parseRoot
  BY <1>6, RootKeeps
<1>7. CASE parseClientBodySizeLimit
  BY <1>7, LimitKeeps
<1>8. CASE parseServerName
  BY <1>8, ServerNameKeeps
<1>9. CASE parseErrorPages
  BY <1>9, ErrorPagesKeep
<1>10. CASE OpenLocation
  BY <1>10, OpenLocationKeeps
<1>11. CASE LocationWithoutBody
  BY <1>11, WithoutBodyKeeps
<1>12. CASE CloseServer
  BY <1>12, CloseServerKeeps
<1>13. CASE parseLocationRoot
  BY <1>13, LocationRootKeeps
<1>14. CASE parseLocationAutoindexes
  BY <1>14, AutoindexKeeps
<1>15. CASE parseLocationLists
  BY <1>15, ListsKeep
<1>16. CASE parseLocationRedirect
  BY <1>16, RedirectKeeps
<1>17. CASE CloseLocation
  BY <1>17, CloseLocationKeeps
<1>18. CASE LocationNotClosed
  BY <1>18, NotClosedKeeps
<1>19. CASE WordsMissing
  BY <1>19, MissingKeeps
<1> QED
  BY <1>1, <1>2, <1>3, <1>4, <1>5, <1>6, <1>7, <1>8, <1>9, <1>10, <1>11, <1>12, <1>13, <1>14,
     <1>15, <1>16, <1>17, <1>18, <1>19 DEF Next

LEMMA InitHolds == Init => IInv
<1> SUFFICES ASSUME Init PROVE IInv
  OBVIOUS
<1>1. /\ doc \in Docs /\ damage \in Damages /\ damage.at <= Len(Text(doc))
      /\ tokens = Damaged(Text(doc), damage) /\ it = 1
      /\ pc = "parseTokens" /\ why = "none" /\ server = NewServer /\ flag = {}
      /\ location = NewLocation(EMPTY) /\ l_flag = {} /\ servers = <<>>
  BY DEF Init
<1>2. Text(doc) \in Seq(Token)
  <2>1. doc \in Seq(ServerDoc)
    BY <1>1, DocsAssumption
  <2> QED
    BY <2>1, ServerTextsType
<1>3. tokens \in Seq(Token)
  BY <1>1, <1>2, DamagedType
<1>4. Len(tokens) \in Nat
  BY <1>3, TokensAre
<1>5. EMPTY \in AnyWord
  BY KeywordsAreWords, KeywordsAre
<1>6. NewLocation(EMPTY) \in LocationRead
  BY <1>5, NewLocationIs
<1>7. NewServer \in ServerRead
  <2>1. <<>> \in Seq(AnyWord) /\ <<>> \in Maps /\ <<>> \in Seq(LocationRead)
    BY EmptyIs
  <2>2. W(EMPTY) \in Token /\ Unset \in Number
    BY <1>5, TokenType DEF Number
  <2> QED
    BY <1>5, <2>1, <2>2 DEF NewServer, ServerRead
<1>8. Typed
  <2>1. it \in 1..(Len(tokens) + 1)
    BY <1>1, <1>4
  <2>2. location.autoindex \in {"unset", "on", "off"}
    BY <1>1, <1>6 DEF LocationRead
  <2>3. TypeOK
    BY <1>1, <2>1, <2>2 DEF TypeOK
  <2>4. servers \in Seq(ServerRead)
    BY <1>1, EmptyIs
  <2> QED
    BY <1>1, <1>3, <1>6, <1>7, <2>3, <2>4 DEF Typed
<1>9. ServersValid /\ ~InBlock /\ Pending = 0 /\ Depth = 0 /\ Listening = 0
  <2>1. ServersValid
    BY <1>1, EmptyIs DEF ServersValid
  <2>2. ~InBlock /\ Pending = 0 /\ Depth = 0
    BY <1>1 DEF InBlock, Pending, Depth
  <2>3. Len(servers) = 0
    BY <1>1, EmptyIs
  <2> QED
    BY <2>1, <2>2, <2>3 DEF Listening
<1>10. \A t : ReadTokens(t) = 0 /\ ReadUntaken(t) = 0
  <2> TAKE t
  <2>1. /\ Tokens(t) \in SUBSET (1..Len(tokens)) /\ Untaken(t) \in SUBSET (1..Len(tokens))
    BY <1>3, TokensAre
  <2>2. \A S \in SUBSET (1..Len(tokens)) : ReadOf(S, 1) = 0
    <3> TAKE S \in SUBSET (1..Len(tokens))
    <3>1. \A x \in S : ~(x < 1)
      BY <1>4
    <3>2. {x \in S : x < 1} = {}
      BY <3>1
    <3> QED
      BY <3>2, FS_EmptySet DEF ReadOf
  <2> QED
    BY <1>1, <2>1, <2>2 DEF ReadTokens, ReadUntaken
<1>11. ListensCounted /\ BracesCounted
  <2>1. ReadUntaken(W("listen")) = 0 /\ ReadTokens(W("listen")) = 0
    BY <1>10
  <2>2. ReadUntaken(W(OPEN)) = 0 /\ ReadTokens(W(CLOSE)) = 0
    BY <1>10
  <2> QED
    BY <1>9, <2>1, <2>2 DEF ListensCounted, BracesCounted
<1>12. pc # "accepted"
  BY <1>1
<1> QED
  BY <1>8, <1>9, <1>11, <1>12 DEF IInv

LEMMA InvariantHolds == Spec => []IInv
BY InitHolds, StepKeeps, PTL DEF Spec

-------------------------------------------------------------------------------

\* The iterator stays in the text or one step behind it, a directive that may
\* stand once is noted once, and there is a reason when a file is refused and
\* only then: whatever text the parser is given.
THEOREM TypesHold == Spec => []TypeOK
<1>1. IInv => TypeOK
  BY DEF IInv, Typed
<1> QED
  BY <1>1, InvariantHolds, PTL

LEMMA AllRead ==
  ASSUME IInv, pc = "accepted"
  PROVE  /\ Depth = 0 /\ Listening = Len(servers) /\ Len(servers) \in Nat
         /\ ListensCounted /\ BracesCounted /\ ServersValid
         /\ \A t : /\ ReadTokens(t) = Cardinality(Tokens(t))
                   /\ ReadUntaken(t) = Cardinality(Untaken(t))
<1>1. it = Len(tokens) + 1 /\ ListensCounted /\ BracesCounted /\ ServersValid
  BY DEF IInv, GoesOn
<1>2. Len(servers) \in Nat /\ Depth = 0 /\ Pending = 0
  BY Now, LenProperties DEF Depth, Pending, InBlock
<1>3. Listening = Len(servers)
  BY <1>2 DEF Listening
<1>4. ASSUME NEW t
      PROVE  /\ ReadTokens(t) = Cardinality(Tokens(t))
             /\ ReadUntaken(t) = Cardinality(Untaken(t))
  <2>1. /\ Tokens(t) \in SUBSET (1..Len(tokens)) /\ Untaken(t) \in SUBSET (1..Len(tokens))
        /\ Len(tokens) \in Nat
    BY Now, TokensAre
  <2>2. ReadOf(Tokens(t), Len(tokens) + 1) = Cardinality(Tokens(t))
    BY <2>1, ReadOfIs
  <2>3. ReadOf(Untaken(t), Len(tokens) + 1) = Cardinality(Untaken(t))
    BY <2>1, ReadOfIs
  <2> QED
    BY <1>1, <2>2, <2>3 DEF ReadTokens, ReadUntaken
<1> QED
  BY <1>1, <1>2, <1>3, <1>4

\* Whatever was lost from the file or came into it twice: the servers that the
\* parser hands on are valid ones, and each has had a listen directive of its
\* own.
THEOREM AcceptedServersValid == Spec => []AcceptedIsValid
<1>1. ASSUME IInv, pc = "accepted"
      PROVE  /\ \A i \in DOMAIN servers : ValidServer(servers[i])
             /\ Cardinality(Untaken(W("listen"))) <= Len(servers)
             /\ Len(servers) <= Cardinality(Tokens(W("listen")))
  <2>1. /\ ReadUntaken(W("listen")) = Cardinality(Untaken(W("listen")))
        /\ ReadTokens(W("listen")) = Cardinality(Tokens(W("listen")))
    BY <1>1, AllRead
  <2>2. Listening = Len(servers) /\ ListensCounted /\ ServersValid
    BY <1>1, AllRead
  <2> QED
    BY <2>1, <2>2 DEF ListensCounted, ServersValid
<1>2. IInv => AcceptedIsValid
  BY <1>1 DEF AcceptedIsValid
<1> QED
  BY <1>2, InvariantHolds, PTL

\* No text is accepted that opens more blocks than it closes.
THEOREM AcceptedBlocksClosed == Spec => []AcceptedIsClosed
<1>1. ASSUME IInv, pc = "accepted"
      PROVE  Cardinality(Untaken(W(OPEN))) <= Cardinality(Tokens(W(CLOSE)))
  <2>1. /\ ReadUntaken(W(OPEN)) = Cardinality(Untaken(W(OPEN)))
        /\ ReadTokens(W(CLOSE)) = Cardinality(Tokens(W(CLOSE)))
    BY <1>1, AllRead
  <2>2. Depth = 0 /\ BracesCounted
    BY <1>1, AllRead
  <2>3. IsFiniteSet(Tokens(W(CLOSE)))
    <3>1. Len(tokens) \in Nat /\ Tokens(W(CLOSE)) \in SUBSET (1..Len(tokens))
      BY <1>1, Now, TokensAre
    <3>2. IsFiniteSet(1..Len(tokens))
      BY <3>1, FS_Interval
    <3> QED
      BY <3>1, <3>2, FS_Subset
  <2>4. Cardinality(Tokens(W(CLOSE))) \in Nat
    BY <2>3, FS_CardinalityType
  <2> QED
    BY <2>1, <2>2, <2>4 DEF BracesCounted
<1>2. IInv => AcceptedIsClosed
  BY <1>1 DEF AcceptedIsClosed
<1> QED
  BY <1>2, InvariantHolds, PTL

-------------------------------------------------------------------------------
(* What is written is read: what stands at the iterator *)

Left == SubSeq(tokens, it, Len(tokens))

LEMMA LeftIs ==
  ASSUME tokens \in Seq(Token), it \in 1..(Len(tokens) + 1)
  PROVE  /\ Left \in Seq(Token) /\ Len(tokens) \in Nat /\ it \in Nat
         /\ Len(Left) = Len(tokens) + 1 - it
         /\ \A k \in 1..Len(Left) : Left[k] = tokens[it + k - 1]
<1> DEFINE m == it - 1
           n == Len(tokens)
<1>1. n \in Nat /\ it \in Nat /\ m \in Nat /\ m <= n /\ n <= Len(tokens) /\ it = m + 1
  BY TokensAre
<1>2. Left = SubSeq(tokens, m + 1, n)
  <2> HIDE DEF m
  <2> QED
    BY <1>1, Zenon DEF Left
<1> HIDE DEF m
<1>3. /\ Left \in Seq(Token) /\ Len(Left) = n - m
      /\ \A k \in 1..(n - m) : Left[k] = tokens[m + k]
  BY <1>1, <1>2, Part
<1>4. \A k \in 1..(n - m) : m + k = it + k - 1
  BY <1>1
<1> HIDE DEF n
<1>5. n - m = n + 1 - it
  BY <1>1
<1> QED
  BY <1>1, <1>3, <1>4, <1>5 DEF n

LEMMA AtHand ==
  ASSUME tokens \in Seq(Token), it \in 1..(Len(tokens) + 1),
         NEW a \in Seq(Token), NEW b \in Seq(Token), Left = Then(a, b)
  PROVE  /\ Len(a) \in Nat /\ Len(b) \in Nat /\ Len(tokens) \in Nat /\ it \in Nat
         /\ it + Len(a) + Len(b) = Len(tokens) + 1
         /\ \A k \in 1..Len(a) : tokens[it + k - 1] = a[k]
         /\ \A k \in 1..Len(b) : tokens[it + Len(a) + k - 1] = b[k]
<1>1. /\ Len(tokens) \in Nat /\ it \in Nat
      /\ Len(Left) = Len(tokens) + 1 - it
      /\ \A k \in 1..Len(Left) : Left[k] = tokens[it + k - 1]
  BY LeftIs
<1>2. /\ Len(a) \in Nat /\ Len(b) \in Nat
      /\ Len(Left) = Len(a) + Len(b)
      /\ \A k \in 1..Len(a) : Left[k] = a[k]
      /\ \A k \in 1..Len(b) : Left[Len(a) + k] = b[k]
  BY ThenTokens, LenProperties
<1>3. it + Len(a) + Len(b) = Len(tokens) + 1
  <2> DEFINE n == Len(tokens)
             x == Len(a)
             y == Len(b)
             z == Len(Left)
  <2>1. n \in Nat /\ it \in Nat /\ x \in Nat /\ y \in Nat /\ z = n + 1 - it /\ z = x + y
    BY <1>1, <1>2
  <2> HIDE DEF n, x, y, z
  <2>2. it + x + y = n + 1
    BY <2>1
  <2> QED
    BY <2>2 DEF n, x, y
<1>4. \A k \in 1..Len(a) : k \in 1..Len(Left)
  BY <1>2
<1>5. \A k \in 1..Len(b) :
        Len(a) + k \in 1..Len(Left) /\ it + (Len(a) + k) - 1 = it + Len(a) + k - 1
  BY <1>1, <1>2
<1>6. \A k \in 1..Len(a) : tokens[it + k - 1] = a[k]
  BY <1>1, <1>2, <1>4
<1>7. \A k \in 1..Len(b) : tokens[it + Len(a) + k - 1] = b[k]
  <2> TAKE k \in 1..Len(b)
  <2>1. Left[Len(a) + k] = tokens[it + (Len(a) + k) - 1]
    BY <1>1, <1>5
  <2> QED
    BY <1>2, <1>5, <2>1
<1> QED
  BY <1>1, <1>2, <1>3, <1>6, <1>7

LEMMA Advance ==
  ASSUME tokens \in Seq(Token), it \in 1..(Len(tokens) + 1),
         NEW a \in Seq(Token), NEW b \in Seq(Token), Left = Then(a, b),
         tokens' = tokens, it' = it + Len(a)
  PROVE  Left' = b
<1>1. /\ Len(a) \in Nat /\ Len(b) \in Nat /\ Len(tokens) \in Nat /\ it \in Nat
      /\ it + Len(a) + Len(b) = Len(tokens) + 1
      /\ \A k \in 1..Len(b) : tokens[it + Len(a) + k - 1] = b[k]
  BY AtHand
<1> DEFINE i == it + Len(a)
           m == i - 1
           n == Len(tokens)
           rest == SubSeq(tokens, i, n)
<1>2. n \in Nat /\ m \in Nat /\ m <= n /\ n <= Len(tokens) /\ i = m + 1 /\ n - m = Len(b)
  BY <1>1, LenProperties
<1>3. rest = SubSeq(tokens, m + 1, n)
  <2> HIDE DEF i, m
  <2> QED
    BY <1>2, Zenon
<1>4. Left' = rest
  BY Zenon DEF Left
<1> HIDE DEF m, n, rest
<1>5. /\ rest \in Seq(Token) /\ Len(rest) = n - m
      /\ \A k \in 1..(n - m) : rest[k] = tokens[m + k]
  BY <1>2, <1>3, Part
<1>6. \A k \in 1..Len(b) : m + k = i + k - 1
  <2> HIDE DEF i
  <2> QED
    BY <1>1, <1>2
<1>7. \A k \in 1..Len(rest) : rest[k] = b[k]
  BY <1>1, <1>2, <1>5, <1>6
<1>8. rest = b
  BY <1>2, <1>5, <1>7, SeqEqual
<1> QED
  BY <1>4, <1>8

LEMMA ReadOne ==
  ASSUME tokens \in Seq(Token), it \in 1..(Len(tokens) + 1),
         NEW keyword \in AnyWord, NEW word \in AnyWord, NEW b \in Seq(Token),
         Left = Then(One(keyword, word), b)
  PROVE  /\ ~AtEnd /\ tokens[it] = W(keyword) /\ Has(1) /\ Word(1) = word
         /\ tokens[it + 1] = End(word)
         /\ tokens' = tokens /\ it' = it + 1 + 1 => Left' = b
<1> DEFINE a == One(keyword, word)
<1>1. a \in Seq(Token) /\ Len(a) = 2 /\ a[1] = W(keyword) /\ a[2] = End(word)
  <2>1. W(keyword) \in Token /\ End(word) \in Token
    BY TokenType
  <2> QED
    BY <2>1, Double DEF One
<1>2. End(word).word = word
  BY TokenType
<1> HIDE DEF a
<1>3. /\ Len(b) \in Nat /\ Len(tokens) \in Nat /\ it \in Nat
      /\ it + 2 + Len(b) = Len(tokens) + 1
      /\ \A k \in 1..2 : tokens[it + k - 1] = a[k]
  <2>1. Left = Then(a, b) /\ a \in Seq(Token)
    BY <1>1 DEF a
  <2>2. Len(b) \in Nat /\ Len(tokens) \in Nat /\ it \in Nat
    BY <2>1, AtHand
  <2>3. it + Len(a) + Len(b) = Len(tokens) + 1
    BY <2>1, AtHand
  <2>4. \A k \in 1..Len(a) : tokens[it + k - 1] = a[k]
    BY <2>1, AtHand
  <2> QED
    BY <1>1, <2>2, <2>3, <2>4
<1>4. tokens[it + 1 - 1] = a[1] /\ tokens[it + 2 - 1] = a[2]
  BY <1>3
<1>5. it + 1 - 1 = it /\ it + 2 - 1 = it + 1 /\ it + 1 <= Len(tokens) /\ it # Len(tokens) + 1
  BY <1>3
<1>6. tokens[it] = W(keyword) /\ tokens[it + 1] = End(word)
  BY <1>1, <1>4, <1>5
<1>7. ASSUME tokens' = tokens, it' = it + 1 + 1 PROVE Left' = b
  <2>1. it' = it + Len(a)
    BY <1>1, <1>3, <1>7
  <2> QED
    BY <1>1, <1>7, <2>1, Advance DEF a
<1> QED
  BY <1>2, <1>5, <1>6, <1>7 DEF AtEnd, Has, Word

LEMMA ReadPair ==
  ASSUME tokens \in Seq(Token), it \in 1..(Len(tokens) + 1),
         NEW keyword \in AnyWord, NEW first \in AnyWord, NEW second \in AnyWord,
         NEW b \in Seq(Token),
         Left = Then(<<W(keyword), W(first), End(second)>>, b)
  PROVE  /\ ~AtEnd /\ tokens[it] = W(keyword) /\ Has(2)
         /\ Word(1) = first /\ Word(2) = second
         /\ tokens' = tokens /\ it' = it + 1 + 2 => Left' = b
<1> DEFINE a == <<W(keyword), W(first), End(second)>>
<1>1. /\ a \in Seq(Token) /\ Len(a) = 3
      /\ a[1] = W(keyword) /\ a[2] = W(first) /\ a[3] = End(second)
  <2>1. W(keyword) \in Token /\ W(first) \in Token /\ End(second) \in Token
    BY TokenType
  <2> QED
    BY <2>1, Triple
<1>2. End(second).word = second /\ W(first).word = first
  BY TokenType
<1> HIDE DEF a
<1>3. /\ Len(b) \in Nat /\ Len(tokens) \in Nat /\ it \in Nat
      /\ it + 3 + Len(b) = Len(tokens) + 1
      /\ \A k \in 1..3 : tokens[it + k - 1] = a[k]
  <2>1. Left = Then(a, b) /\ a \in Seq(Token)
    BY <1>1 DEF a
  <2>2. Len(b) \in Nat /\ Len(tokens) \in Nat /\ it \in Nat
    BY <2>1, AtHand
  <2>3. it + Len(a) + Len(b) = Len(tokens) + 1
    BY <2>1, AtHand
  <2>4. \A k \in 1..Len(a) : tokens[it + k - 1] = a[k]
    BY <2>1, AtHand
  <2> QED
    BY <1>1, <2>2, <2>3, <2>4
<1>4. tokens[it + 1 - 1] = a[1] /\ tokens[it + 2 - 1] = a[2] /\ tokens[it + 3 - 1] = a[3]
  BY <1>3
<1>5. /\ it + 1 - 1 = it /\ it + 2 - 1 = it + 1 /\ it + 3 - 1 = it + 2
      /\ it + 2 <= Len(tokens) /\ it # Len(tokens) + 1
  BY <1>3
<1>6. tokens[it] = W(keyword) /\ tokens[it + 1] = W(first) /\ tokens[it + 2] = End(second)
  BY <1>1, <1>4, <1>5
<1>7. ASSUME tokens' = tokens, it' = it + 1 + 2 PROVE Left' = b
  <2>1. it' = it + Len(a)
    BY <1>1, <1>3, <1>7
  <2> QED
    BY <1>1, <1>7, <2>1, Advance DEF a
<1> QED
  BY <1>2, <1>5, <1>6, <1>7 DEF AtEnd, Has, Word

LEMMA WordSeq ==
  ASSUME NEW words \in Seq(STRING)
  PROVE  words \in Seq(AnyWord) /\ Len(words) \in Nat /\ DOMAIN words = 1..Len(words)
<1>1. Len(words) \in Nat /\ DOMAIN words = 1..Len(words) /\ words \in [1..Len(words) -> STRING]
  BY LenProperties
<1>2. words \in [1..Len(words) -> AnyWord]
  BY <1>1, KeywordsAreWords
<1> QED
  BY <1>1, <1>2, FunctionIsSeq

LEMMA ReadSeveral ==
  ASSUME tokens \in Seq(Token), it \in 1..(Len(tokens) + 1),
         NEW keyword \in AnyWord, NEW words \in Seq(STRING), NEW b \in Seq(Token),
         words # <<>>, Left = Then(Several(keyword, words), b)
  PROVE  /\ ~AtEnd /\ tokens[it] = W(keyword) /\ Semicolons # {} /\ Contents = words
         /\ tokens' = tokens /\ it' = it + 1 + countContents => Left' = b
<1> DEFINE a == Several(keyword, words)
           n == Len(words)
<1>1. /\ a \in Seq(Token) /\ n \in Nat \ {0} /\ Len(a) = 1 + n /\ a[1] = W(keyword)
      /\ \A i \in 1..n : a[1 + i] = [word |-> words[i], semi |-> i = n]
  <2>1. a \in Seq(Token) /\ n \in Nat \ {0}
    BY SeveralType
  <2>2. Len(a) = 1 + n /\ a[1] = W(keyword)
    BY SeveralType
  <2>3. \A i \in 1..n : a[1 + i] = [word |-> words[i], semi |-> i = n]
    BY SeveralType
  <2> QED
    BY <2>1, <2>2, <2>3
<1>2. Left = Then(a, b)
  OBVIOUS
<1> HIDE DEF a, n
<1>3. /\ Len(b) \in Nat /\ Len(tokens) \in Nat /\ it \in Nat
      /\ it + (1 + n) + Len(b) = Len(tokens) + 1
      /\ \A k \in 1..(1 + n) : tokens[it + k - 1] = a[k]
  <2>1. Len(b) \in Nat /\ Len(tokens) \in Nat /\ it \in Nat
    BY <1>1, <1>2, AtHand
  <2>2. it + Len(a) + Len(b) = Len(tokens) + 1
    BY <1>1, <1>2, AtHand
  <2>3. \A k \in 1..Len(a) : tokens[it + k - 1] = a[k]
    BY <1>1, <1>2, AtHand
  <2> QED
    BY <1>1, <2>1, <2>2, <2>3
<1>4. /\ it + 1 - 1 = it /\ 1 \in 1..(1 + n) /\ it # Len(tokens) + 1 /\ it + n <= Len(tokens)
      /\ \A i \in 1..n : 1 + i \in 1..(1 + n) /\ it + (1 + i) - 1 = it + i
  BY <1>1, <1>3
<1>5. tokens[it] = W(keyword) /\ ~AtEnd
  BY <1>1, <1>3, <1>4 DEF AtEnd
<1>6. \A i \in 1..n : tokens[it + i] = [word |-> words[i], semi |-> i = n]
  <2> TAKE i \in 1..n
  <2>1. tokens[it + (1 + i) - 1] = a[1 + i]
    BY <1>3, <1>4
  <2> QED
    BY <1>1, <1>4, <2>1
<1>7. \A i \in 1..n : tokens[it + i].word = words[i] /\ (tokens[it + i].semi <=> i = n)
  <2> TAKE i \in 1..n
  <2> DEFINE last == i = n
  <2>1. tokens[it + i] = [word |-> words[i], semi |-> last]
    BY <1>6, Zenon
  <2>2. last <=> i = n
    OBVIOUS
  <2> HIDE DEF last
  <2>3. tokens[it + i].word = words[i] /\ tokens[it + i].semi = last
    BY <2>1
  <2> QED
    BY <2>2, <2>3, Zenon
<1>8. n \in 1..n /\ tokens[it + n].semi
  <2>1. n \in 1..n
    BY <1>1
  <2> QED
    BY <1>7, <2>1
<1>9. Semicolons # {}
  <2>1. n \in 1..(Len(tokens) - it)
    BY <1>1, <1>3, <1>4
  <2> QED
    BY <1>8, <2>1 DEF Semicolons
<1> DEFINE c == countContents
<1>10. /\ c \in Nat \ {0}
       /\ \A k \in 1..(c - 1) : ~tokens[it + k].semi
       /\ tokens[it + c].semi
       /\ Contents \in Seq(AnyWord) /\ Len(Contents) = c
       /\ \A k \in 1..c : Contents[k] = tokens[it + k].word
  BY <1>9, ContentsAre
<1> HIDE DEF c
<1>11. c = n
  <2>1. ~(n < c)
    <3>1. n < c => n \in 1..(c - 1)
      BY <1>1, <1>10
    <3> QED
      BY <1>8, <1>10, <3>1
  <2>2. ~(c < n)
    <3>1. c < n => c \in 1..n /\ c # n
      BY <1>1, <1>10
    <3> QED
      BY <1>7, <1>10, <3>1
  <2> QED
    BY <1>1, <1>10, <2>1, <2>2
<1>12. Contents = words
  <2>1. words \in Seq(AnyWord) /\ Len(words) = n
    BY WordSeq DEF n
  <2>2. \A k \in 1..n : Contents[k] = words[k]
    BY <1>7, <1>10, <1>11
  <2> QED
    BY <1>10, <1>11, <2>1, <2>2, SeqEqual
<1>13. ASSUME tokens' = tokens, it' = it + 1 + countContents PROVE Left' = b
  <2>1. it' = it + Len(a)
    BY <1>1, <1>3, <1>11, <1>13 DEF c
  <2> QED
    BY <1>1, <1>2, <1>13, <2>1, Advance
<1> QED
  BY <1>5, <1>9, <1>12, <1>13

LEMMA ReadLocation ==
  ASSUME tokens \in Seq(Token), it \in 1..(Len(tokens) + 1),
         NEW path \in AnyWord, NEW b \in Seq(Token), Len(b) # 0,
         Left = Then(Opened("location", path), b)
  PROVE  /\ ~AtEnd /\ tokens[it] = W("location") /\ Has(3) /\ Has(2)
         /\ Word(1) = path /\ tokens[it + 2] = W(OPEN)
         /\ tokens' = tokens /\ it' = it + 3 => Left' = b
<1> DEFINE a == Opened("location", path)
<1>1. /\ a \in Seq(Token) /\ Len(a) = 3
      /\ a[1] = W("location") /\ a[2] = W(path) /\ a[3] = W(OPEN)
  <2>1. "location" \in AnyWord /\ OPEN \in AnyWord
    BY KeywordsAreWords, KeywordsAre
  <2>2. W("location") \in Token /\ W(path) \in Token /\ W(OPEN) \in Token
    BY <2>1, TokenType
  <2> QED
    BY <2>2, Triple DEF Opened
<1>2. W(path).word = path
  BY TokenType
<1>3. /\ Len(b) \in Nat /\ Len(tokens) \in Nat /\ it \in Nat
      /\ it + 3 + Len(b) = Len(tokens) + 1
      /\ \A k \in 1..3 : tokens[it + k - 1] = a[k]
  <2>1. Left = Then(a, b) /\ a \in Seq(Token)
    BY <1>1
  <2> HIDE DEF a
  <2>2. Len(b) \in Nat /\ Len(tokens) \in Nat /\ it \in Nat
    BY <2>1, AtHand
  <2>3. it + Len(a) + Len(b) = Len(tokens) + 1
    BY <2>1, AtHand
  <2>4. \A k \in 1..Len(a) : tokens[it + k - 1] = a[k]
    BY <2>1, AtHand
  <2> QED
    BY <1>1, <2>2, <2>3, <2>4
<1>4. Left = Then(a, b)
  OBVIOUS
<1> HIDE DEF a
<1>5. tokens[it + 1 - 1] = a[1] /\ tokens[it + 2 - 1] = a[2] /\ tokens[it + 3 - 1] = a[3]
  BY <1>3
<1>6. /\ it + 1 - 1 = it /\ it + 2 - 1 = it + 1 /\ it + 3 - 1 = it + 2
      /\ it + 2 <= Len(tokens) /\ it + 3 <= Len(tokens) /\ it # Len(tokens) + 1
  BY <1>3
<1>7. tokens[it] = W("location") /\ tokens[it + 1] = W(path) /\ tokens[it + 2] = W(OPEN)
  BY <1>1, <1>5, <1>6
<1>8. ASSUME tokens' = tokens, it' = it + 3 PROVE Left' = b
  <2>1. it' = it + Len(a)
    BY <1>1, <1>8
  <2> QED
    BY <1>1, <1>4, <1>8, <2>1, Advance
<1> QED
  BY <1>2, <1>6, <1>7, <1>8 DEF AtEnd, Has, Word

LEMMA ReadServer ==
  ASSUME tokens \in Seq(Token), it \in 1..(Len(tokens) + 1),
         NEW b \in Seq(Token), Left = Then(ServerOpened, b)
  PROVE  /\ ~AtEnd /\ tokens[it] = W("server") /\ Has(1) /\ tokens[it + 1] = W(OPEN)
         /\ tokens' = tokens /\ it' = it + 2 => Left' = b
<1> DEFINE a == ServerOpened
<1>1. a \in Seq(Token) /\ Len(a) = 2 /\ a[1] = W("server") /\ a[2] = W(OPEN)
  <2>1. "server" \in AnyWord /\ OPEN \in AnyWord
    BY KeywordsAreWords, KeywordsAre
  <2>2. W("server") \in Token /\ W(OPEN) \in Token
    BY <2>1, TokenType
  <2> QED
    BY <2>2, Double DEF ServerOpened
<1>2. Left = Then(a, b)
  OBVIOUS
<1> HIDE DEF a
<1>3. /\ Len(b) \in Nat /\ Len(tokens) \in Nat /\ it \in Nat
      /\ it + 2 + Len(b) = Len(tokens) + 1
      /\ \A k \in 1..2 : tokens[it + k - 1] = a[k]
  <2>2. Len(b) \in Nat /\ Len(tokens) \in Nat /\ it \in Nat
    BY <1>1, <1>2, AtHand
  <2>3. it + Len(a) + Len(b) = Len(tokens) + 1
    BY <1>1, <1>2, AtHand
  <2>4. \A k \in 1..Len(a) : tokens[it + k - 1] = a[k]
    BY <1>1, <1>2, AtHand
  <2> QED
    BY <1>1, <2>2, <2>3, <2>4
<1>4. tokens[it + 1 - 1] = a[1] /\ tokens[it + 2 - 1] = a[2]
  BY <1>3
<1>5. it + 1 - 1 = it /\ it + 2 - 1 = it + 1 /\ it + 1 <= Len(tokens) /\ it # Len(tokens) + 1
  BY <1>3
<1>6. tokens[it] = W("server") /\ tokens[it + 1] = W(OPEN)
  BY <1>1, <1>4, <1>5
<1>7. ASSUME tokens' = tokens, it' = it + 2 PROVE Left' = b
  <2>1. it' = it + Len(a)
    BY <1>1, <1>7
  <2> QED
    BY <1>1, <1>2, <1>7, <2>1, Advance
<1> QED
  BY <1>5, <1>6, <1>7 DEF AtEnd, Has

LEMMA ReadClose ==
  ASSUME tokens \in Seq(Token), it \in 1..(Len(tokens) + 1),
         NEW b \in Seq(Token), Left = Then(Close, b)
  PROVE  /\ ~AtEnd /\ tokens[it] = W(CLOSE)
         /\ tokens' = tokens /\ it' = it + 1 => Left' = b
<1>1. Close \in Seq(Token) /\ Len(Close) = 1 /\ Close[1] = W(CLOSE)
  BY CloseType
<1>3. /\ Len(b) \in Nat /\ Len(tokens) \in Nat /\ it \in Nat
      /\ it + 1 + Len(b) = Len(tokens) + 1
      /\ \A k \in 1..1 : tokens[it + k - 1] = Close[k]
  <2>2. Len(b) \in Nat /\ Len(tokens) \in Nat /\ it \in Nat
    BY <1>1, AtHand
  <2>3. it + Len(Close) + Len(b) = Len(tokens) + 1
    BY <1>1, AtHand
  <2>4. \A k \in 1..Len(Close) : tokens[it + k - 1] = Close[k]
    BY <1>1, AtHand
  <2> QED
    BY <1>1, <2>2, <2>3, <2>4
<1>4. tokens[it + 1 - 1] = Close[1]
  BY <1>3
<1>5. it + 1 - 1 = it /\ it # Len(tokens) + 1
  BY <1>3
<1>7. ASSUME tokens' = tokens, it' = it + 1 PROVE Left' = b
  <2>1. it' = it + Len(Close)
    BY <1>1, <1>7
  <2> QED
    BY <1>1, <1>7, <2>1, Advance
<1> QED
  BY <1>1, <1>4, <1>5, <1>7 DEF AtEnd

LEMMA NothingLeft ==
  ASSUME tokens \in Seq(Token), it \in 1..(Len(tokens) + 1), Left = <<>>
  PROVE  AtEnd
BY LeftIs, EmptyIs DEF AtEnd

-------------------------------------------------------------------------------
(* What is written is read: the step that is taken *)

\* At a directive of a server, with the words it needs, it is the function of
\* that directive that reads on.
LEMMA ServerStep ==
  ASSUME pc = "parseServer", ~AtEnd, NEW word \in ServerWords, tokens[it] = W(word), Next
  PROVE  /\ word \in Once /\ word \notin flag /\ Has(1) =>
              \/ word = "listen" /\ parseListen
              \/ word = "root" /\ parseRoot
              \/ word = "client_body_size_limit" /\ parseClientBodySizeLimit
         /\ word = "server_name" /\ Semicolons # {} => parseServerName
         /\ word = "error_page" /\ Has(2) => parseErrorPages
         /\ word = "location" /\ Has(2) /\ tokens[it + 2] = W(OPEN) => OpenLocation
         /\ word = CLOSE => CloseServer
<1>1. \A w : Is(w) <=> w = word
  BY WordsDiffer DEF Is
<1>2. \A w : InServer(w) <=> w = word
  BY <1>1 DEF InServer
<1>3. \A w : ~InLocation(w)
  BY DEF InLocation
<1>4. ~Finish /\ ~OpenServer /\ ~NoServer /\ ~ServerNotClosed /\ ~LocationNotClosed
  BY DEF Finish, OpenServer, NoServer, ServerNotClosed, LocationNotClosed
<1>5. /\ ~parseLocationRoot /\ ~parseLocationAutoindexes /\ ~parseLocationLists
      /\ ~parseLocationRedirect /\ ~CloseLocation
  BY <1>3 DEF parseLocationRoot, parseLocationAutoindexes, parseLocationLists,
              parseLocationRedirect, CloseLocation
<1>6. ~UnknownDirective
  BY DEF UnknownDirective
<1>7. Duplicated => word \in Once /\ word \in flag
  BY <1>2, <1>3 DEF Duplicated
<1>8. /\ parseListen => word = "listen"
      /\ parseRoot => word = "root"
      /\ parseClientBodySizeLimit => word = "client_body_size_limit"
  BY <1>2 DEF parseListen, parseRoot, parseClientBodySizeLimit, Given
<1>9. /\ parseServerName => word = "server_name"
      /\ parseErrorPages => word = "error_page"
      /\ OpenLocation => word = "location"
      /\ LocationWithoutBody => word = "location" /\ tokens[it + 2] # W(OPEN)
      /\ CloseServer => word = CLOSE
  BY <1>2 DEF parseServerName, parseErrorPages, OpenLocation, LocationWithoutBody, CloseServer
<1>10. WordsMissing =>
         \/ word \in Once /\ ~Has(1)
         \/ word = "error_page" /\ ~Has(2)
         \/ word = "server_name" /\ Semicolons = {}
         \/ word = "location" /\ ~Has(2)
  BY <1>2, <1>3 DEF WordsMissing
<1>11. /\ word \in Once =>
            word \notin {"server_name", "error_page", "location"} /\ word # CLOSE
       /\ \A w \in {"server_name", "error_page", "location", "listen", "root",
                     "client_body_size_limit"} : w # CLOSE
  BY WordsOf, BracesDiffer
<1>12. \/ Duplicated \/ parseListen \/ parseRoot \/ parseClientBodySizeLimit
       \/ parseServerName \/ parseErrorPages \/ OpenLocation \/ LocationWithoutBody
       \/ CloseServer \/ WordsMissing
  BY <1>4, <1>5, <1>6 DEF Next
<1>13. word \in Once /\ word \notin flag /\ Has(1) =>
              \/ word = "listen" /\ parseListen
              \/ word = "root" /\ parseRoot
              \/ word = "client_body_size_limit" /\ parseClientBodySizeLimit
  <2>1. CASE word \in Once /\ word \notin flag /\ Has(1)
    <3>1. parseListen \/ parseRoot \/ parseClientBodySizeLimit
      BY <1>7, <1>9, <1>10, <1>11, <1>12, <2>1
    <3> QED
      BY <1>8, <3>1
  <2> QED
    BY <2>1
<1>14. word = "server_name" /\ Semicolons # {} => parseServerName
  BY <1>7, <1>8, <1>9, <1>10, <1>11, <1>12
<1>15. word = "error_page" /\ Has(2) => parseErrorPages
  BY <1>7, <1>8, <1>9, <1>10, <1>11, <1>12
<1>16. word = "location" /\ Has(2) /\ tokens[it + 2] = W(OPEN) => OpenLocation
  BY <1>7, <1>8, <1>9, <1>10, <1>11, <1>12
<1>17. word = CLOSE => CloseServer
  BY <1>7, <1>8, <1>9, <1>10, <1>11, <1>12
<1> QED
  BY <1>13, <1>14, <1>15, <1>16, <1>17

LEMMA LocationStep ==
  ASSUME pc = "parseLocation", ~AtEnd, NEW word \in LocationWords, tokens[it] = W(word), Next
  PROVE  /\ word = "root" /\ "root" \notin l_flag /\ Has(1) => parseLocationRoot
         /\ word = "autoindex" /\ "autoindex" \notin l_flag /\ Has(1) =>
              parseLocationAutoindexes
         /\ word \in Lists /\ Semicolons # {} => parseLocationLists
         /\ word = "return" /\ Has(2) => parseLocationRedirect
         /\ word = CLOSE => CloseLocation
<1>1. \A w : Is(w) <=> w = word
  BY WordsDiffer DEF Is
<1>2. \A w : InLocation(w) <=> w = word
  BY <1>1 DEF InLocation
<1>3. \A w : ~InServer(w)
  BY DEF InServer
<1>4. ~Finish /\ ~OpenServer /\ ~NoServer /\ ~ServerNotClosed /\ ~LocationNotClosed
  BY DEF Finish, OpenServer, NoServer, ServerNotClosed, LocationNotClosed
<1>5. /\ ~parseListen /\ ~parseRoot /\ ~parseClientBodySizeLimit /\ ~parseServerName
      /\ ~parseErrorPages /\ ~OpenLocation /\ ~LocationWithoutBody /\ ~CloseServer
  BY <1>3 DEF parseListen, parseRoot, parseClientBodySizeLimit, Given, parseServerName,
              parseErrorPages, OpenLocation, LocationWithoutBody, CloseServer
<1>6. ~UnknownDirective
  BY DEF UnknownDirective
<1>7. Duplicated => word \in {"root", "autoindex"} /\ word \in l_flag
  BY <1>2, <1>3 DEF Duplicated
<1>8. /\ parseLocationRoot => word = "root"
      /\ parseLocationAutoindexes => word = "autoindex"
      /\ parseLocationLists => word \in Lists
      /\ parseLocationRedirect => word = "return"
      /\ CloseLocation => word = CLOSE
  BY <1>2 DEF parseLocationRoot, parseLocationAutoindexes, parseLocationLists,
              parseLocationRedirect, CloseLocation
<1>9. WordsMissing =>
         \/ word \in {"root", "autoindex"} /\ ~Has(1)
         \/ word = "return" /\ ~Has(2)
         \/ word \in Lists /\ Semicolons = {}
  BY <1>2, <1>3 DEF WordsMissing
<1>10. /\ word \in Lists => word \notin {"root", "autoindex", "return"} /\ word # CLOSE
       /\ \A w \in {"root", "autoindex", "return"} : w # CLOSE
  BY WordsOf, BracesDiffer
<1>11. \/ Duplicated \/ parseLocationRoot \/ parseLocationAutoindexes \/ parseLocationLists
       \/ parseLocationRedirect \/ CloseLocation \/ WordsMissing
  BY <1>4, <1>5, <1>6 DEF Next
<1>12. word = "root" /\ "root" \notin l_flag /\ Has(1) => parseLocationRoot
  BY <1>7, <1>8, <1>9, <1>10, <1>11
<1>13. word = "autoindex" /\ "autoindex" \notin l_flag /\ Has(1) => parseLocationAutoindexes
  BY <1>7, <1>8, <1>9, <1>10, <1>11
<1>14. word \in Lists /\ Semicolons # {} => parseLocationLists
  BY <1>7, <1>8, <1>9, <1>10, <1>11
<1>15. word = "return" /\ Has(2) => parseLocationRedirect
  BY <1>7, <1>8, <1>9, <1>10, <1>11
<1>16. word = CLOSE => CloseLocation
  BY <1>7, <1>8, <1>9, <1>10, <1>11
<1> QED
  BY <1>12, <1>13, <1>14, <1>15, <1>16

\* Between the servers.
LEMMA TopStep ==
  ASSUME pc = "parseTokens", Next
  PROVE  /\ AtEnd => Finish
         /\ ~AtEnd /\ tokens[it] = W("server") /\ Has(1) /\ tokens[it + 1] = W(OPEN) =>
              OpenServer
<1>1. \A w : ~InServer(w) /\ ~InLocation(w)
  BY DEF InServer, InLocation
<1>2. /\ ~parseListen /\ ~parseRoot /\ ~parseClientBodySizeLimit /\ ~parseServerName
      /\ ~parseErrorPages /\ ~OpenLocation /\ ~LocationWithoutBody /\ ~CloseServer
  BY <1>1 DEF parseListen, parseRoot, parseClientBodySizeLimit, Given, parseServerName,
              parseErrorPages, OpenLocation, LocationWithoutBody, CloseServer
<1>3. /\ ~parseLocationRoot /\ ~parseLocationAutoindexes /\ ~parseLocationLists
      /\ ~parseLocationRedirect /\ ~CloseLocation
  BY <1>1 DEF parseLocationRoot, parseLocationAutoindexes, parseLocationLists,
              parseLocationRedirect, CloseLocation
<1>4. ~ServerNotClosed /\ ~LocationNotClosed /\ ~UnknownDirective /\ ~Duplicated
  BY <1>1 DEF ServerNotClosed, LocationNotClosed, UnknownDirective, Duplicated
<1>5. WordsMissing => ~AtEnd /\ ~Has(1)
  BY <1>1 DEF WordsMissing
<1>6. Finish \/ OpenServer \/ NoServer \/ WordsMissing
  BY <1>2, <1>3, <1>4 DEF Next
<1>7. OpenServer => ~AtEnd
  BY DEF OpenServer, Is
<1>8. AtEnd => ~NoServer
  BY DEF NoServer
<1>9. Finish => AtEnd
  BY DEF Finish
<1>10. ~AtEnd /\ tokens[it] = W("server") /\ tokens[it + 1] = W(OPEN) => ~NoServer
  BY DEF NoServer, Is
<1> QED
  BY <1>5, <1>6, <1>7, <1>8, <1>9, <1>10

-------------------------------------------------------------------------------
(* What is written is read: what the first pairs and locations mean *)

AtStatus(pairs, n, status) == {i \in 1..n : ft_stoi(pairs[i][1]) = status}
MapUpTo(pairs, n) ==
  [status \in {ft_stoi(pairs[i][1]) : i \in 1..n} |->
     pairs[Min(AtStatus(pairs, n, status))][2]]
MeaningsUpTo(s, n) == [i \in 1..n |-> LocationMeaning(s.locations[i])]

LEMMA MapOfAll ==
  ASSUME NEW pairs \in Seq(STRING \X STRING)
  PROVE  MapUpTo(pairs, 0) = <<>> /\ MapUpTo(pairs, Len(pairs)) = MapOf(pairs)
<1>1. DOMAIN pairs = 1..Len(pairs)
  BY LenProperties
<1>2. MapUpTo(pairs, 0) = <<>>
  <2>1. {ft_stoi(pairs[i][1]) : i \in 1..0} = {}
    OBVIOUS
  <2>2. \A f, g : [x \in {} |-> f[x]] = [x \in {} |-> g[x]]
    OBVIOUS
  <2> QED
    BY <2>1 DEF MapUpTo
<1>3. MapUpTo(pairs, Len(pairs)) = MapOf(pairs)
  BY <1>1 DEF MapUpTo, MapOf, AtStatus
<1> QED
  BY <1>2, <1>3

(* One pair more is what std::map::insert makes of it.                      *)
LEMMA MapGrows ==
  ASSUME NEW pairs \in Seq(STRING \X STRING), NEW n \in Nat, n < Len(pairs)
  PROVE  Inserted(MapUpTo(pairs, n), ft_stoi(pairs[n + 1][1]), pairs[n + 1][2])
           = MapUpTo(pairs, n + 1)
<1> DEFINE key(i) == ft_stoi(pairs[i][1])
           old == {key(i) : i \in 1..n}
           new == {key(i) : i \in 1..(n + 1)}
<1>1. 1..(n + 1) = 1..n \cup {n + 1}
  OBVIOUS
<1>2. new = old \cup {key(n + 1)}
  <2> HIDE DEF key
  <2> QED
    BY <1>1
<1>3. ASSUME NEW k \in new
      PROVE  (IF k \in old THEN pairs[Min(AtStatus(pairs, n, k))][2] ELSE pairs[n + 1][2])
               = pairs[Min(AtStatus(pairs, n + 1, k))][2]
  <2> DEFINE a == AtStatus(pairs, n, k)
             b == AtStatus(pairs, n + 1, k)
  <2>1. /\ a = {i \in 1..n : key(i) = k} /\ b = {i \in 1..(n + 1) : key(i) = k}
        /\ b \in SUBSET Nat /\ a \in SUBSET Nat
    BY DEF AtStatus
  <2> HIDE DEF key, a, b
  <2>2. b # {} /\ Min(b) \in b /\ \A j \in b : Min(b) <= j
    <3>1. b # {}
      BY <2>1
    <3> QED
      BY <2>1, <3>1, MinOfNats
  <2>3. CASE k \in old
    <3>1. a # {}
      BY <2>1, <2>3
    <3>2. Min(a) \in a /\ \A j \in a : Min(a) <= j
      BY <2>1, <3>1, MinOfNats
    <3>3. Min(a) \in b /\ Min(a) \in 1..n
      BY <2>1, <3>2
    <3>4. Min(b) <= Min(a)
      BY <2>2, <3>3
    <3>5. Min(b) \in 1..n
      BY <2>1, <2>2, <3>3, <3>4
    <3>6. Min(b) \in a
      BY <2>1, <2>2, <3>5
    <3>7. Min(a) = Min(b)
      BY <3>2, <3>3, <3>4, <3>5, <3>6
    <3> QED
      BY <2>3, <3>7 DEF a, b
  <2>4. CASE k \notin old
    <3>1. Min(b) = n + 1
      BY <1>1, <2>1, <2>2, <2>4
    <3> QED
      BY <2>4, <3>1 DEF b
  <2> QED
    BY <2>3, <2>4
<1>4. DOMAIN MapUpTo(pairs, n) = old
  BY DEF MapUpTo
<1>5. \A k \in old : MapUpTo(pairs, n)[k] = pairs[Min(AtStatus(pairs, n, k))][2]
  BY DEF MapUpTo
<1>6. MapUpTo(pairs, n + 1) = [k \in new |-> pairs[Min(AtStatus(pairs, n + 1, k))][2]]
  BY DEF MapUpTo
<1>7. Inserted(MapUpTo(pairs, n), key(n + 1), pairs[n + 1][2])
        = [k \in old \cup {key(n + 1)} |->
             IF k \in old THEN MapUpTo(pairs, n)[k] ELSE pairs[n + 1][2]]
  BY <1>4 DEF Inserted
<1>8. Inserted(MapUpTo(pairs, n), key(n + 1), pairs[n + 1][2])
        = [k \in new |->
             IF k \in old THEN pairs[Min(AtStatus(pairs, n, k))][2] ELSE pairs[n + 1][2]]
  <2> HIDE DEF old, new, key
  <2> QED
    BY <1>2, <1>5, <1>7
<1>9. Inserted(MapUpTo(pairs, n), key(n + 1), pairs[n + 1][2]) = MapUpTo(pairs, n + 1)
  <2> HIDE DEF old, new, key
  <2> QED
    BY <1>3, <1>6, <1>8
<1> QED
  BY <1>9

LEMMA MeaningsGrow ==
  ASSUME NEW s, NEW n \in Nat
  PROVE  /\ MeaningsUpTo(s, 0) = <<>>
         /\ Len(MeaningsUpTo(s, n)) = n
         /\ Append(MeaningsUpTo(s, n), LocationMeaning(s.locations[n + 1]))
              = MeaningsUpTo(s, n + 1)
<1> DEFINE m(i) == LocationMeaning(s.locations[i])
           S == {m(i) : i \in 1..(n + 1)}
           a == [i \in 1..n |-> m(i)]
           b == [i \in 1..(n + 1) |-> m(i)]
<1>1. MeaningsUpTo(s, n) = a /\ MeaningsUpTo(s, n + 1) = b
  BY DEF MeaningsUpTo
<1>2. MeaningsUpTo(s, 0) = <<>>
  <2> HIDE DEF m
  <2>1. [i \in 1..0 |-> m(i)] = <<>>
    OBVIOUS
  <2> QED
    BY <2>1 DEF MeaningsUpTo, m
<1> HIDE DEF m
<1>3. a \in [1..n -> S] /\ b \in [1..(n + 1) -> S] /\ m(n + 1) \in S
  OBVIOUS
<1> HIDE DEF S
<1>4. a \in Seq(S) /\ Len(a) = n /\ b \in Seq(S) /\ Len(b) = n + 1
  BY <1>3, FunctionIsSeq
<1>5. /\ Append(a, m(n + 1)) \in Seq(S) /\ Len(Append(a, m(n + 1))) = n + 1
      /\ \A i \in 1..n : Append(a, m(n + 1))[i] = a[i]
      /\ Append(a, m(n + 1))[n + 1] = m(n + 1)
  BY <1>3, <1>4, AppendProperties
<1>6. \A i \in 1..(n + 1) : Append(a, m(n + 1))[i] = b[i]
  BY <1>5
<1>7. Append(a, m(n + 1)) = b
  <2> HIDE DEF a, b
  <2> QED
    BY <1>4, <1>5, <1>6, SeqEqual
<1> QED
  BY <1>1, <1>2, <1>4, <1>7 DEF m

-------------------------------------------------------------------------------
(* What is written is read: a server, with the text r behind it *)

Srv(host, port, names, root, pages, limit, locs) ==
  [host |-> host, port |-> port, names |-> names, root |-> root, error_pages |-> pages,
   limit |-> limit, locations |-> locs]

\* What a server has of the directives that may be left out.
HostOfDoc(s) == IF s.listen = EMPTY THEN W(EMPTY) ELSE HostIn(End(s.listen))
PortOfDoc(s) == IF s.listen = EMPTY THEN Unset ELSE ft_stoi(PortIn(s.listen))
LimitOfDoc(s) == IF s.limit = EMPTY THEN Unset ELSE ft_stoi(s.limit)

\* What has been read at each place of the text of s.
PortRead(s) == Srv(HostOfDoc(s), PortOfDoc(s), <<>>, EMPTY, <<>>, Unset, <<>>)
NamesRead(s) == Srv(HostOfDoc(s), PortOfDoc(s), s.names, EMPTY, <<>>, Unset, <<>>)
PagesRead(s, n) ==
  Srv(HostOfDoc(s), PortOfDoc(s), s.names, s.root, MapUpTo(s.error_pages, n), Unset, <<>>)
LocationsRead(s, n) ==
  Srv(HostOfDoc(s), PortOfDoc(s), s.names, s.root, MapOf(s.error_pages), LimitOfDoc(s),
      MeaningsUpTo(s, n))

PortFlag(s) == IF s.listen = EMPTY THEN {} ELSE {"listen"}
RootFlag(s) == PortFlag(s) \cup (IF s.root = EMPTY THEN {} ELSE {"root"})
LimitFlag(s) ==
  RootFlag(s) \cup (IF s.limit = EMPTY THEN {} ELSE {"client_body_size_limit"})

\* The places, each before a directive or behind all of its kind.
AtPort(s, r) == server = NewServer /\ flag = {} /\ Left = ServerLeft(s, r)
AtNames(s, r) == server = PortRead(s) /\ flag = PortFlag(s) /\ Left = NamesLeft(s, r)
AtRoot(s, r) == server = NamesRead(s) /\ flag = PortFlag(s) /\ Left = RootLeft(s, r)
AtPages(s, n, r) ==
  server = PagesRead(s, n - 1) /\ flag = RootFlag(s) /\ Left = PagesLeft(s, n, r)
AtLimit(s, r) ==
  /\ server = PagesRead(s, Len(s.error_pages)) /\ flag = RootFlag(s)
  /\ Left = LimitLeft(s, r)
HeadRead(s, n) == server = LocationsRead(s, n - 1) /\ flag = LimitFlag(s)
AtLocations(s, n, r) == HeadRead(s, n) /\ Left = LocationsLeft(s, n, r)

StillInServer == pc' = "parseServer" /\ UNCHANGED <<doc, damage, servers>>

LEMMA ServerDocIs ==
  ASSUME NEW s \in ServerDoc
  PROVE  /\ s.listen \in STRING /\ s.root \in STRING /\ s.limit \in STRING
         /\ s.listen \in AnyWord /\ s.root \in AnyWord /\ s.limit \in AnyWord
         /\ s.names \in Seq(STRING) /\ s.error_pages \in Seq(STRING \X STRING)
         /\ s.locations \in Seq(LocationDoc)
         /\ Len(s.error_pages) \in Nat /\ Len(s.locations) \in Nat
<1>1. /\ s.listen \in STRING /\ s.root \in STRING /\ s.limit \in STRING
      /\ s.names \in Seq(STRING) /\ s.error_pages \in Seq(STRING \X STRING)
      /\ s.locations \in Seq(LocationDoc)
  BY DEF ServerDoc
<1> QED
  BY <1>1, KeywordsAreWords, LenProperties

LEMMA FirstPlaces ==
  ASSUME NEW s \in ServerDoc, NEW r \in Seq(Token)
  PROVE  /\ PagesLeft(s, 1, r) \in Seq(Token) /\ LocationsLeft(s, 1, r) \in Seq(Token)
         /\ \A n \in 1..Len(s.error_pages) : PagesLeft(s, n + 1, r) \in Seq(Token)
<1>1. /\ 1 \in 1..(Len(s.error_pages) + 1) /\ 1 \in 1..(Len(s.locations) + 1)
      /\ \A n \in 1..Len(s.error_pages) : n + 1 \in 1..(Len(s.error_pages) + 1)
  BY ServerDocIs
<1>2. \A e \in 1..(Len(s.error_pages) + 1) : PagesLeft(s, e, r) \in Seq(Token)
  BY ServerLeftType
<1>3. \A j \in 1..(Len(s.locations) + 1) : LocationsLeft(s, j, r) \in Seq(Token)
  BY ServerLeftType
<1> QED
  BY <1>1, <1>2, <1>3

LEMMA SkipPort ==
  ASSUME NEW s \in ServerDoc, NEW r \in Seq(Token), AtPort(s, r), s.listen = EMPTY
  PROVE  AtNames(s, r)
<1>1. Optional("listen", s.listen) = <<>>
  BY DEF Optional
<1>2. Left = NamesLeft(s, r)
  BY <1>1, ServerLeftType, ThenEmpty DEF AtPort, ServerLeft
<1>3. server = PortRead(s)
  BY DEF AtPort, NewServer, PortRead, Srv, HostOfDoc, PortOfDoc
<1> QED
  BY <1>2, <1>3 DEF AtPort, AtNames, PortFlag

LEMMA ReadPort ==
  ASSUME IInv, pc = "parseServer", NEW s \in ServerDoc, NEW r \in Seq(Token),
         AtPort(s, r), s.listen # EMPTY, Next
  PROVE  AtNames(s, r)' /\ StillInServer
<1> DEFINE b == NamesLeft(s, r)
<1>1. b \in Seq(Token) /\ s.listen \in AnyWord /\ "listen" \in AnyWord
  BY ServerLeftType, ServerDocIs, KeywordsAreWords, KeywordsAre
<1>2. Left = Then(One("listen", s.listen), b)
  BY DEF AtPort, ServerLeft, Optional
<1> HIDE DEF b
<1>3. /\ ~AtEnd /\ tokens[it] = W("listen") /\ Has(1) /\ Word(1) = s.listen
      /\ tokens[it + 1] = End(s.listen)
      /\ tokens' = tokens /\ it' = it + 1 + 1 => Left' = b
  BY <1>1, <1>2, Now, ReadOne
<1>4. parseListen
  <2>1. "listen" \in ServerWords /\ "listen" \in Once /\ "listen" \notin flag
    BY DEF ServerWords, Once, AtPort
  <2> QED
    BY <1>3, <2>1, ServerStep
<1>5. /\ flag' = flag \cup {"listen"}
      /\ server' = [server EXCEPT !.host = HostIn(tokens[it + 1]),
                                 !.port = ft_stoi(PortIn(Word(1)))]
      /\ it' = it + 1 + 1 /\ tokens' = tokens /\ StillInServer
  BY <1>4 DEF parseListen, SetServer, file, StillInServer
<1>6. server' = PortRead(s)
  BY <1>3, <1>5 DEF AtPort, NewServer, PortRead, Srv, HostOfDoc, PortOfDoc
<1>7. flag' = PortFlag(s)
  BY <1>5 DEF AtPort, PortFlag
<1> QED
  BY <1>3, <1>5, <1>6, <1>7 DEF AtNames, b

LEMMA SkipNames ==
  ASSUME NEW s \in ServerDoc, NEW r \in Seq(Token), AtNames(s, r), s.names = <<>>
  PROVE  AtRoot(s, r)
<1>1. Several("server_name", s.names) = <<>>
  BY DEF Several
<1>2. Left = RootLeft(s, r)
  BY <1>1, ServerLeftType, ThenEmpty DEF AtNames, NamesLeft
<1>3. server = NamesRead(s)
  BY DEF AtNames, PortRead, NamesRead, Srv
<1> QED
  BY <1>2, <1>3 DEF AtNames, AtRoot

LEMMA NamesAfterNone ==
  ASSUME NEW words \in Seq(STRING)
  PROVE  <<>> \o words = words
<1>1. words \in Seq(AnyWord)
  BY WordSeq
<1> QED
  BY ConcatEmptySeq

LEMMA ReadNames ==
  ASSUME IInv, pc = "parseServer", NEW s \in ServerDoc, NEW r \in Seq(Token),
         AtNames(s, r), s.names # <<>>, Next
  PROVE  AtRoot(s, r)' /\ StillInServer
<1> DEFINE b == RootLeft(s, r)
<1>1. b \in Seq(Token) /\ s.names \in Seq(STRING) /\ "server_name" \in AnyWord
  BY ServerLeftType, ServerDocIs, KeywordsAreWords, KeywordsAre
<1>2. Left = Then(Several("server_name", s.names), b)
  BY DEF AtNames, NamesLeft
<1> HIDE DEF b
<1>3. /\ ~AtEnd /\ tokens[it] = W("server_name") /\ Semicolons # {} /\ Contents = s.names
      /\ tokens' = tokens /\ it' = it + 1 + countContents => Left' = b
  BY <1>1, <1>2, Now, ReadSeveral
<1>4. parseServerName
  <2>1. "server_name" \in ServerWords
    BY DEF ServerWords
  <2> QED
    BY <1>3, <2>1, ServerStep
<1>5. /\ flag' = flag /\ server' = [server EXCEPT !.names = server.names \o Contents]
      /\ it' = it + 1 + countContents /\ tokens' = tokens /\ StillInServer
  BY <1>4 DEF parseServerName, SetServer, file, StillInServer
<1>6. server' = NamesRead(s)
  <2>1. server.names = <<>>
    BY DEF AtNames, PortRead, Srv
  <2>2. server' = [server EXCEPT !.names = s.names]
    BY <1>1, <1>3, <1>5, <2>1, NamesAfterNone
  <2> QED
    BY <2>2 DEF AtNames, PortRead, NamesRead, Srv
<1> QED
  BY <1>3, <1>5, <1>6 DEF AtNames, AtRoot, b

LEMMA SkipRoot ==
  ASSUME NEW s \in ServerDoc, NEW r \in Seq(Token), AtRoot(s, r), s.root = EMPTY
  PROVE  AtPages(s, 1, r)
<1>1. Optional("root", s.root) = <<>>
  BY DEF Optional
<1>2. PagesLeft(s, 1, r) \in Seq(Token)
  BY FirstPlaces
<1>3. Left = PagesLeft(s, 1, r)
  BY <1>1, <1>2, ThenEmpty DEF AtRoot, RootLeft
<1>4. 1 - 1 = 0 /\ MapUpTo(s.error_pages, 0) = <<>>
  BY ServerDocIs, MapOfAll
<1>5. server = PagesRead(s, 1 - 1)
  BY <1>4 DEF AtRoot, NamesRead, PagesRead, Srv
<1> QED
  BY <1>3, <1>5 DEF AtRoot, AtPages, RootFlag

LEMMA ReadRoot ==
  ASSUME IInv, pc = "parseServer", NEW s \in ServerDoc, NEW r \in Seq(Token),
         AtRoot(s, r), s.root # EMPTY, Next
  PROVE  AtPages(s, 1, r)' /\ StillInServer
<1> DEFINE b == PagesLeft(s, 1, r)
<1>1. b \in Seq(Token) /\ s.root \in AnyWord /\ "root" \in AnyWord
  BY FirstPlaces, ServerDocIs, KeywordsAreWords, KeywordsAre
<1>2. Left = Then(One("root", s.root), b)
  BY DEF AtRoot, RootLeft, Optional
<1> HIDE DEF b
<1>3. /\ ~AtEnd /\ tokens[it] = W("root") /\ Has(1) /\ Word(1) = s.root
      /\ tokens' = tokens /\ it' = it + 1 + 1 => Left' = b
  BY <1>1, <1>2, Now, ReadOne
<1>4. parseRoot
  <2>1. "root" \in ServerWords /\ "root" \in Once /\ "root" \notin flag
    BY DEF ServerWords, Once, AtRoot, PortFlag
  <2> QED
    BY <1>3, <2>1, ServerStep
<1>5. /\ flag' = flag \cup {"root"} /\ server' = [server EXCEPT !.root = Word(1)]
      /\ it' = it + 1 + 1 /\ tokens' = tokens /\ StillInServer
  BY <1>4 DEF parseRoot, SetServer, file, StillInServer
<1>6. server' = PagesRead(s, 1 - 1)
  <2>1. 1 - 1 = 0 /\ MapUpTo(s.error_pages, 0) = <<>>
    BY ServerDocIs, MapOfAll
  <2> QED
    BY <1>3, <1>5, <2>1 DEF AtRoot, NamesRead, PagesRead, Srv
<1>7. flag' = RootFlag(s)
  BY <1>5 DEF AtRoot, RootFlag
<1> QED
  BY <1>3, <1>5, <1>6, <1>7 DEF AtPages, b

LEMMA ReadPage ==
  ASSUME IInv, pc = "parseServer", NEW s \in ServerDoc, NEW r \in Seq(Token),
         NEW n \in 1..Len(s.error_pages), AtPages(s, n, r), Next
  PROVE  AtPages(s, n + 1, r)' /\ StillInServer
<1> DEFINE pages == s.error_pages
           texts == PairTexts("error_page", pages)
           b == PagesLeft(s, n + 1, r)
<1>0. "error_page" \in AnyWord /\ pages \in Seq(STRING \X STRING) /\ Len(pages) \in Nat
  BY ServerDocIs, KeywordsAreWords, KeywordsAre
<1>1. /\ texts \in Seq(Seq(Token)) /\ Len(texts) = Len(pages)
      /\ pages[n][1] \in AnyWord /\ pages[n][2] \in AnyWord
      /\ texts[n] = <<W("error_page"), W(pages[n][1]), End(pages[n][2])>>
  BY <1>0, PairTextsType, KeywordsAreWords
<1>2. b \in Seq(Token) /\ n + 1 - 1 = n
  <2>1. b \in Seq(Token)
    BY FirstPlaces
  <2> QED
    BY <2>1
<1>3. From(texts, n) = Then(texts[n], From(texts, n + 1)) /\ From(texts, n + 1) \in Seq(Token)
  <2>1. n \in 1..Len(texts) /\ n + 1 \in 1..(Len(texts) + 1)
    <3>1. n \in 1..Len(pages)
      OBVIOUS
    <3> HIDE DEF pages, texts
    <3> QED
      BY <1>0, <1>1, <3>1
  <2> HIDE DEF texts
  <2> QED
    BY <1>1, <2>1, FromNext
<1>4. texts[n] \in Seq(Token) /\ LimitLeft(s, r) \in Seq(Token)
  BY <1>0, <1>1, ServerLeftType, ElementOfSeq
<1>5. Left = Then(texts[n], b)
  <2>1. Left = Then(Then(texts[n], From(texts, n + 1)), LimitLeft(s, r))
    BY <1>3 DEF AtPages, PagesLeft
  <2> QED
    BY <1>3, <1>4, <2>1, ThenAssociative DEF PagesLeft
<1> HIDE DEF b, texts, pages
<1>6. /\ ~AtEnd /\ tokens[it] = W("error_page") /\ Has(2)
      /\ Word(1) = pages[n][1] /\ Word(2) = pages[n][2]
      /\ tokens' = tokens /\ it' = it + 1 + 2 => Left' = b
  BY <1>0, <1>1, <1>2, <1>5, Now, ReadPair
<1>7. parseErrorPages
  <2>1. "error_page" \in ServerWords
    BY DEF ServerWords
  <2> QED
    BY <1>6, <2>1, ServerStep
<1>8. /\ flag' = flag
      /\ server' = [server EXCEPT !.error_pages =
                      Inserted(server.error_pages, ft_stoi(Word(1)), Word(2))]
      /\ it' = it + 1 + 2 /\ tokens' = tokens /\ StillInServer
  BY <1>7 DEF parseErrorPages, SetServer, file, StillInServer
<1>9. server' = PagesRead(s, n)
  <2>1. n - 1 \in Nat /\ n - 1 < Len(pages) /\ n - 1 + 1 = n
    BY <1>0 DEF pages
  <2>2. Inserted(MapUpTo(pages, n - 1), ft_stoi(pages[n - 1 + 1][1]), pages[n - 1 + 1][2])
          = MapUpTo(pages, n - 1 + 1)
    BY <1>0, <2>1, MapGrows
  <2>3. Inserted(MapUpTo(pages, n - 1), ft_stoi(pages[n][1]), pages[n][2]) = MapUpTo(pages, n)
    BY <2>1, <2>2
  <2>4. server = PagesRead(s, n - 1) /\ server.error_pages = MapUpTo(pages, n - 1)
    BY DEF AtPages, PagesRead, Srv, pages
  <2>5. server' = [server EXCEPT !.error_pages = MapUpTo(pages, n)]
    BY <1>6, <1>8, <2>3, <2>4
  <2> QED
    BY <2>4, <2>5 DEF PagesRead, Srv, pages
<1> QED
  BY <1>2, <1>6, <1>8, <1>9 DEF AtPages, b

LEMMA SkipPages ==
  ASSUME NEW s \in ServerDoc, NEW r \in Seq(Token), AtPages(s, Len(s.error_pages) + 1, r)
  PROVE  AtLimit(s, r)
<1> DEFINE n == Len(s.error_pages)
           texts == PairTexts("error_page", s.error_pages)
<1>1. /\ "error_page" \in AnyWord /\ s.error_pages \in Seq(STRING \X STRING) /\ n \in Nat
      /\ n + 1 - 1 = n
  BY ServerDocIs, KeywordsAreWords, KeywordsAre
<1>2. texts \in Seq(Seq(Token)) /\ Len(texts) = n
  BY <1>1, PairTextsType
<1>3. From(texts, n + 1) = <<>>
  <2> HIDE DEF texts, n
  <2> QED
    BY <1>2, FromNext
<1>4. Left = LimitLeft(s, r)
  BY <1>3, ServerLeftType, ThenEmpty DEF AtPages, PagesLeft
<1> QED
  BY <1>1, <1>4 DEF AtPages, AtLimit

LEMMA SkipLimit ==
  ASSUME NEW s \in ServerDoc, NEW r \in Seq(Token), AtLimit(s, r), s.limit = EMPTY
  PROVE  AtLocations(s, 1, r)
<1>1. Optional("client_body_size_limit", s.limit) = <<>>
  BY DEF Optional
<1>2. LocationsLeft(s, 1, r) \in Seq(Token)
  BY FirstPlaces
<1>3. Left = LocationsLeft(s, 1, r)
  BY <1>1, <1>2, ThenEmpty DEF AtLimit, LimitLeft
<1>4. /\ 1 - 1 = 0 /\ MeaningsUpTo(s, 0) = <<>>
      /\ MapUpTo(s.error_pages, Len(s.error_pages)) = MapOf(s.error_pages)
  BY ServerDocIs, MapOfAll, MeaningsGrow
<1>5. server = LocationsRead(s, 1 - 1)
  BY <1>4 DEF AtLimit, PagesRead, LocationsRead, Srv, LimitOfDoc
<1> QED
  BY <1>3, <1>5 DEF AtLimit, AtLocations, HeadRead, LimitFlag

LEMMA ReadLimit ==
  ASSUME IInv, pc = "parseServer", NEW s \in ServerDoc, NEW r \in Seq(Token),
         AtLimit(s, r), s.limit # EMPTY, Next
  PROVE  AtLocations(s, 1, r)' /\ StillInServer
<1> DEFINE b == LocationsLeft(s, 1, r)
           word == "client_body_size_limit"
<1>1. b \in Seq(Token) /\ s.limit \in AnyWord /\ word \in AnyWord
  BY FirstPlaces, ServerDocIs, KeywordsAreWords, KeywordsAre
<1>2. Left = Then(One(word, s.limit), b)
  BY DEF AtLimit, LimitLeft, Optional
<1>3. /\ word \in ServerWords /\ word \in Once /\ word \notin flag
      /\ word # "listen" /\ word # "root"
  BY DEF ServerWords, Once, AtLimit, RootFlag, PortFlag
<1> HIDE DEF b, word
<1>4. /\ ~AtEnd /\ tokens[it] = W(word) /\ Has(1) /\ Word(1) = s.limit
      /\ tokens' = tokens /\ it' = it + 1 + 1 => Left' = b
  BY <1>1, <1>2, Now, ReadOne
<1>5. parseClientBodySizeLimit
  BY <1>3, <1>4, ServerStep
<1>6. /\ flag' = flag \cup {"client_body_size_limit"}
      /\ server' = [server EXCEPT !.limit = ft_stoi(Word(1))]
      /\ it' = it + 1 + 1 /\ tokens' = tokens /\ StillInServer
  BY <1>5 DEF parseClientBodySizeLimit, SetServer, file, StillInServer
<1>7. server' = LocationsRead(s, 1 - 1)
  <2>1. /\ 1 - 1 = 0 /\ MeaningsUpTo(s, 0) = <<>>
        /\ MapUpTo(s.error_pages, Len(s.error_pages)) = MapOf(s.error_pages)
    BY ServerDocIs, MapOfAll, MeaningsGrow
  <2> QED
    BY <1>4, <1>6, <2>1 DEF AtLimit, PagesRead, LocationsRead, Srv, LimitOfDoc
<1>8. flag' = LimitFlag(s)
  BY <1>6 DEF AtLimit, LimitFlag
<1> QED
  BY <1>4, <1>6, <1>7, <1>8 DEF AtLocations, HeadRead, b

-------------------------------------------------------------------------------
(* What is written is read: a location, with the text r behind it *)

Loc(path, root, methods, indexes, autoindex, cgi, redirect) ==
  [location |-> path, root |-> root, methods |-> methods, indexes |-> indexes,
   autoindex |-> autoindex, cgi |-> cgi, redirect |-> redirect]

\* What has been read at each place of the text of l.
RootIn(l) == Loc(l.location, l.root, <<>>, <<>>, "unset", <<>>, <<>>)
MethodsIn(l) == Loc(l.location, l.root, l.methods, <<>>, "unset", <<>>, <<>>)
IndexIn(l) == Loc(l.location, l.root, l.methods, l.indexes, "unset", <<>>, <<>>)
AutoindexIn(l) == Loc(l.location, l.root, l.methods, l.indexes, l.autoindex, <<>>, <<>>)
ReturnsIn(l, n) ==
  Loc(l.location, l.root, l.methods, l.indexes, l.autoindex, l.cgi, MapUpTo(l.redirect, n))

RootFlagIn(l) == IF l.root = EMPTY THEN {} ELSE {"root"}

AtTop(l, r) ==
  location = NewLocation(l.location) /\ l_flag = {} /\ Left = LocationLeft(l, r)
AtMethods(l, r) ==
  location = RootIn(l) /\ l_flag = RootFlagIn(l) /\ Left = MethodsLeft(l, r)
AtIndex(l, r) ==
  location = MethodsIn(l) /\ l_flag = RootFlagIn(l) /\ Left = IndexLeft(l, r)
AtAutoindex(l, r) ==
  location = IndexIn(l) /\ l_flag = RootFlagIn(l) /\ Left = AutoindexLeft(l, r)
AtCgi(l, r) == location = AutoindexIn(l) /\ Left = CgiLeft(l, r)
AtReturns(l, n, r) == location = ReturnsIn(l, n - 1) /\ Left = ReturnsLeft(l, n, r)

StillInLocation ==
  pc' = "parseLocation" /\ UNCHANGED <<doc, damage, servers, server, flag>>
Refused == pc' = "rejected" /\ UNCHANGED <<doc, damage>>

LEMMA LocationDocIs ==
  ASSUME NEW l \in LocationDoc
  PROVE  /\ l.location \in AnyWord /\ l.root \in AnyWord /\ l.autoindex \in AnyWord
         /\ l.methods \in Seq(STRING) /\ l.indexes \in Seq(STRING) /\ l.cgi \in Seq(STRING)
         /\ l.redirect \in Seq(STRING \X STRING) /\ Len(l.redirect) \in Nat
<1>1. /\ l.location \in STRING /\ l.root \in STRING /\ l.autoindex \in STRING
      /\ l.methods \in Seq(STRING) /\ l.indexes \in Seq(STRING) /\ l.cgi \in Seq(STRING)
      /\ l.redirect \in Seq(STRING \X STRING)
  BY DEF LocationDoc
<1> QED
  BY <1>1, KeywordsAreWords, LenProperties

LEMMA ReturnPlaces ==
  ASSUME NEW l \in LocationDoc, NEW r \in Seq(Token)
  PROVE  /\ ReturnsLeft(l, 1, r) \in Seq(Token)
         /\ \A n \in 1..Len(l.redirect) : ReturnsLeft(l, n + 1, r) \in Seq(Token)
<1>1. /\ 1 \in 1..(Len(l.redirect) + 1)
      /\ \A n \in 1..Len(l.redirect) : n + 1 \in 1..(Len(l.redirect) + 1)
  BY LocationDocIs
<1>2. \A m \in 1..(Len(l.redirect) + 1) : ReturnsLeft(l, m, r) \in Seq(Token)
  BY LocationLeftType
<1> QED
  BY <1>1, <1>2

LEMMA SkipTop ==
  ASSUME NEW l \in LocationDoc, NEW r \in Seq(Token), AtTop(l, r), l.root = EMPTY
  PROVE  AtMethods(l, r)
<1>1. Optional("root", l.root) = <<>>
  BY DEF Optional
<1>2. Left = MethodsLeft(l, r)
  BY <1>1, LocationLeftType, ThenEmpty DEF AtTop, LocationLeft
<1>3. location = RootIn(l)
  BY DEF AtTop, NewLocation, RootIn, Loc
<1> QED
  BY <1>2, <1>3 DEF AtTop, AtMethods, RootFlagIn

LEMMA ReadTop ==
  ASSUME IInv, pc = "parseLocation", NEW l \in LocationDoc, NEW r \in Seq(Token),
         AtTop(l, r), l.root # EMPTY, Next
  PROVE  AtMethods(l, r)' /\ StillInLocation
<1> DEFINE b == MethodsLeft(l, r)
<1>1. b \in Seq(Token) /\ l.root \in AnyWord /\ "root" \in AnyWord
  BY LocationLeftType, LocationDocIs, KeywordsAreWords, KeywordsAre
<1>2. Left = Then(One("root", l.root), b)
  BY DEF AtTop, LocationLeft, Optional
<1> HIDE DEF b
<1>3. /\ ~AtEnd /\ tokens[it] = W("root") /\ Has(1) /\ Word(1) = l.root
      /\ tokens' = tokens /\ it' = it + 1 + 1 => Left' = b
  BY <1>1, <1>2, Now, ReadOne
<1>4. parseLocationRoot
  <2>1. "root" \in LocationWords /\ "root" \notin l_flag
    BY DEF LocationWords, AtTop
  <2> QED
    BY <1>3, <2>1, LocationStep
<1>5. /\ l_flag' = l_flag \cup {"root"} /\ location' = [location EXCEPT !.root = Word(1)]
      /\ it' = it + 1 + 1 /\ tokens' = tokens /\ StillInLocation
  BY <1>4 DEF parseLocationRoot, SetLocation, file, StillInLocation
<1>6. location' = RootIn(l)
  BY <1>3, <1>5 DEF AtTop, NewLocation, RootIn, Loc
<1>7. l_flag' = RootFlagIn(l)
  BY <1>5 DEF AtTop, RootFlagIn
<1> QED
  BY <1>3, <1>5, <1>6, <1>7 DEF AtMethods, b

\* One of the directives that take several words.
LEMMA ReadList ==
  ASSUME IInv, pc = "parseLocation", NEW word \in Lists, NEW words \in Seq(STRING),
         words # <<>>, NEW b \in Seq(Token), Left = Then(Several(word, words), b), Next
  PROVE  /\ Left' = b /\ StillInLocation /\ l_flag' = l_flag
         /\ location' =
              [location EXCEPT
                 !.methods = IF word = "allowed_method" THEN location.methods \o words ELSE @,
                 !.indexes = IF word = "index" THEN location.indexes \o words ELSE @,
                 !.cgi = IF word = "cgi_extension" THEN location.cgi \o words ELSE @]
<1>1. word \in AnyWord /\ word \in LocationWords
  <2>1. word \in Keywords
    BY WordsOf, KeywordsAre
  <2> QED
    BY <2>1, KeywordsAreWords DEF LocationWords
<1>2. /\ ~AtEnd /\ tokens[it] = W(word) /\ Semicolons # {} /\ Contents = words
      /\ tokens' = tokens /\ it' = it + 1 + countContents => Left' = b
  BY <1>1, Now, ReadSeveral
<1>3. parseLocationLists
  BY <1>1, <1>2, LocationStep
<1>4. \A w : Is(w) <=> w = word
  BY <1>2, WordsDiffer DEF Is
<1>5. /\ l_flag' = l_flag /\ it' = it + 1 + countContents /\ tokens' = tokens
      /\ StillInLocation
      /\ location' =
           [location EXCEPT
              !.methods = IF Is("allowed_method") THEN @ \o Contents ELSE @,
              !.indexes = IF Is("index") THEN @ \o Contents ELSE @,
              !.cgi = IF Is("cgi_extension") THEN @ \o Contents ELSE @]
  BY <1>3 DEF parseLocationLists, SetLocation, file, StillInLocation
<1> QED
  BY <1>2, <1>4, <1>5

LEMMA SkipMethods ==
  ASSUME NEW l \in LocationDoc, NEW r \in Seq(Token), AtMethods(l, r), l.methods = <<>>
  PROVE  AtIndex(l, r)
<1>1. Several("allowed_method", l.methods) = <<>>
  BY DEF Several
<1>2. Left = IndexLeft(l, r)
  BY <1>1, LocationLeftType, ThenEmpty DEF AtMethods, MethodsLeft
<1>3. location = MethodsIn(l)
  BY DEF AtMethods, RootIn, MethodsIn, Loc
<1> QED
  BY <1>2, <1>3 DEF AtMethods, AtIndex

LEMMA ReadMethods ==
  ASSUME IInv, pc = "parseLocation", NEW l \in LocationDoc, NEW r \in Seq(Token),
         AtMethods(l, r), l.methods # <<>>, Next
  PROVE  AtIndex(l, r)' /\ StillInLocation
<1> DEFINE word == "allowed_method"
           words == l.methods
           b == IndexLeft(l, r)
<1>1. b \in Seq(Token) /\ words \in Seq(STRING) /\ words # <<>>
  BY LocationLeftType, LocationDocIs
<1>2. Left = Then(Several(word, words), b)
  BY DEF AtMethods, MethodsLeft
<1>3. word \in Lists /\ word # "index" /\ word # "cgi_extension"
  BY DEF Lists
<1> HIDE DEF word, words, b
<1>4. /\ Left' = b /\ StillInLocation /\ l_flag' = l_flag
      /\ location' =
              [location EXCEPT
                 !.methods = IF word = "allowed_method" THEN location.methods \o words ELSE @,
                 !.indexes = IF word = "index" THEN location.indexes \o words ELSE @,
                 !.cgi = IF word = "cgi_extension" THEN location.cgi \o words ELSE @]
  BY <1>1, <1>2, <1>3, ReadList
<1>5. location.methods = <<>>
  BY DEF AtMethods, RootIn, Loc
<1>6. location.methods \o words = words
  BY <1>1, <1>5, NamesAfterNone
<1>7. location' = [location EXCEPT !.methods = words, !.indexes = @, !.cgi = @]
  BY <1>3, <1>4, <1>6 DEF word
<1>8. location' = MethodsIn(l)
  BY <1>7 DEF AtMethods, RootIn, MethodsIn, Loc, words
<1> QED
  BY <1>4, <1>8 DEF AtMethods, AtIndex, b

LEMMA SkipIndex ==
  ASSUME NEW l \in LocationDoc, NEW r \in Seq(Token), AtIndex(l, r), l.indexes = <<>>
  PROVE  AtAutoindex(l, r)
<1>1. Several("index", l.indexes) = <<>>
  BY DEF Several
<1>2. Left = AutoindexLeft(l, r)
  BY <1>1, LocationLeftType, ThenEmpty DEF AtIndex, IndexLeft
<1>3. location = IndexIn(l)
  BY DEF AtIndex, MethodsIn, IndexIn, Loc
<1> QED
  BY <1>2, <1>3 DEF AtIndex, AtAutoindex

LEMMA ReadIndex ==
  ASSUME IInv, pc = "parseLocation", NEW l \in LocationDoc, NEW r \in Seq(Token),
         AtIndex(l, r), l.indexes # <<>>, Next
  PROVE  AtAutoindex(l, r)' /\ StillInLocation
<1> DEFINE word == "index"
           words == l.indexes
           b == AutoindexLeft(l, r)
<1>1. b \in Seq(Token) /\ words \in Seq(STRING) /\ words # <<>>
  BY LocationLeftType, LocationDocIs
<1>2. Left = Then(Several(word, words), b)
  BY DEF AtIndex, IndexLeft
<1>3. word \in Lists /\ word # "allowed_method" /\ word # "cgi_extension"
  BY DEF Lists
<1> HIDE DEF word, words, b
<1>4. /\ Left' = b /\ StillInLocation /\ l_flag' = l_flag
      /\ location' =
              [location EXCEPT
                 !.methods = IF word = "allowed_method" THEN location.methods \o words ELSE @,
                 !.indexes = IF word = "index" THEN location.indexes \o words ELSE @,
                 !.cgi = IF word = "cgi_extension" THEN location.cgi \o words ELSE @]
  BY <1>1, <1>2, <1>3, ReadList
<1>5. location.indexes = <<>>
  BY DEF AtIndex, MethodsIn, Loc
<1>6. location.indexes \o words = words
  BY <1>1, <1>5, NamesAfterNone
<1>7. location' = [location EXCEPT !.methods = @, !.indexes = words, !.cgi = @]
  BY <1>3, <1>4, <1>6 DEF word
<1>8. location' = IndexIn(l)
  BY <1>7 DEF AtIndex, MethodsIn, IndexIn, Loc, words
<1> QED
  BY <1>4, <1>8 DEF AtIndex, AtAutoindex, b

LEMMA SkipAutoindex ==
  ASSUME NEW l \in LocationDoc, NEW r \in Seq(Token), AtAutoindex(l, r),
         l.autoindex = "unset"
  PROVE  AtCgi(l, r)
<1>1. AutoindexText(l) = <<>>
  BY DEF AutoindexText
<1>2. Left = CgiLeft(l, r)
  BY <1>1, LocationLeftType, ThenEmpty DEF AtAutoindex, AutoindexLeft
<1>3. location = AutoindexIn(l)
  BY DEF AtAutoindex, IndexIn, AutoindexIn, Loc
<1> QED
  BY <1>2, <1>3 DEF AtCgi

LEMMA ReadAutoindex ==
  ASSUME IInv, pc = "parseLocation", NEW l \in LocationDoc, NEW r \in Seq(Token),
         AtAutoindex(l, r), l.autoindex # "unset", Next
  PROVE  \/ AtCgi(l, r)' /\ StillInLocation
         \/ Refused /\ l.autoindex \notin {"unset", "on", "off"}
<1> DEFINE b == CgiLeft(l, r)
<1>1. b \in Seq(Token) /\ l.autoindex \in AnyWord /\ "autoindex" \in AnyWord
  BY LocationLeftType, LocationDocIs, KeywordsAreWords, KeywordsAre
<1>2. Left = Then(One("autoindex", l.autoindex), b)
  BY DEF AtAutoindex, AutoindexLeft, AutoindexText
<1> HIDE DEF b
<1>3. /\ ~AtEnd /\ tokens[it] = W("autoindex") /\ Has(1) /\ Word(1) = l.autoindex
      /\ tokens' = tokens /\ it' = it + 1 + 1 => Left' = b
  BY <1>1, <1>2, Now, ReadOne
<1>4. parseLocationAutoindexes
  <2>1. "autoindex" \in LocationWords /\ "autoindex" \notin l_flag
    BY DEF LocationWords, AtAutoindex, RootFlagIn
  <2> QED
    BY <1>3, <2>1, LocationStep
<1>5. CASE Word(1) \in {"on", "off"}
  <2>1. /\ location' = [location EXCEPT !.autoindex = Word(1)]
        /\ it' = it + 1 + 1 /\ tokens' = tokens /\ StillInLocation
    BY <1>4, <1>5 DEF parseLocationAutoindexes, SetLocation, file, StillInLocation
  <2>2. location' = AutoindexIn(l)
    BY <1>3, <2>1 DEF AtAutoindex, IndexIn, AutoindexIn, Loc
  <2> QED
    BY <1>3, <2>1, <2>2 DEF AtCgi, b
<1>6. CASE Word(1) \notin {"on", "off"}
  <2>1. Refused
    BY <1>4, <1>6 DEF parseLocationAutoindexes, Throw, file, Refused
  <2> QED
    BY <1>3, <1>6, <2>1
<1> QED
  BY <1>5, <1>6

LEMMA SkipCgi ==
  ASSUME NEW l \in LocationDoc, NEW r \in Seq(Token), AtCgi(l, r), l.cgi = <<>>
  PROVE  AtReturns(l, 1, r)
<1>1. Several("cgi_extension", l.cgi) = <<>>
  BY DEF Several
<1>2. Left = ReturnsLeft(l, 1, r)
  BY <1>1, ReturnPlaces, ThenEmpty DEF AtCgi, CgiLeft
<1>3. 1 - 1 = 0 /\ MapUpTo(l.redirect, 0) = <<>>
  BY LocationDocIs, MapOfAll
<1>4. location = ReturnsIn(l, 1 - 1)
  BY <1>3 DEF AtCgi, AutoindexIn, ReturnsIn, Loc
<1> QED
  BY <1>2, <1>4 DEF AtReturns

LEMMA ReadCgi ==
  ASSUME IInv, pc = "parseLocation", NEW l \in LocationDoc, NEW r \in Seq(Token),
         AtCgi(l, r), l.cgi # <<>>, Next
  PROVE  AtReturns(l, 1, r)' /\ StillInLocation
<1> DEFINE word == "cgi_extension"
           words == l.cgi
           b == ReturnsLeft(l, 1, r)
<1>1. b \in Seq(Token) /\ words \in Seq(STRING) /\ words # <<>>
  BY ReturnPlaces, LocationDocIs
<1>2. Left = Then(Several(word, words), b)
  BY DEF AtCgi, CgiLeft
<1>3. word \in Lists /\ word # "allowed_method" /\ word # "index"
  BY DEF Lists
<1> HIDE DEF word, words, b
<1>4. /\ Left' = b /\ StillInLocation
      /\ location' =
              [location EXCEPT
                 !.methods = IF word = "allowed_method" THEN location.methods \o words ELSE @,
                 !.indexes = IF word = "index" THEN location.indexes \o words ELSE @,
                 !.cgi = IF word = "cgi_extension" THEN location.cgi \o words ELSE @]
  BY <1>1, <1>2, <1>3, ReadList
<1>5. location.cgi = <<>>
  BY DEF AtCgi, AutoindexIn, Loc
<1>6. location.cgi \o words = words
  BY <1>1, <1>5, NamesAfterNone
<1>7. location' = [location EXCEPT !.methods = @, !.indexes = @, !.cgi = words]
  BY <1>3, <1>4, <1>6 DEF word
<1>8. 1 - 1 = 0 /\ MapUpTo(l.redirect, 0) = <<>>
  BY LocationDocIs, MapOfAll
<1>9. location' = ReturnsIn(l, 1 - 1)
  BY <1>7, <1>8 DEF AtCgi, AutoindexIn, ReturnsIn, Loc, words
<1> QED
  BY <1>4, <1>9 DEF AtReturns, b

LEMMA ReadReturn ==
  ASSUME IInv, pc = "parseLocation", NEW l \in LocationDoc, NEW r \in Seq(Token),
         NEW n \in 1..Len(l.redirect), AtReturns(l, n, r), Next
  PROVE  AtReturns(l, n + 1, r)' /\ StillInLocation
<1> DEFINE pairs == l.redirect
           texts == PairTexts("return", pairs)
           b == ReturnsLeft(l, n + 1, r)
<1>0. "return" \in AnyWord /\ pairs \in Seq(STRING \X STRING) /\ Len(pairs) \in Nat
  BY LocationDocIs, KeywordsAreWords, KeywordsAre
<1>1. /\ texts \in Seq(Seq(Token)) /\ Len(texts) = Len(pairs)
      /\ pairs[n][1] \in AnyWord /\ pairs[n][2] \in AnyWord
      /\ texts[n] = <<W("return"), W(pairs[n][1]), End(pairs[n][2])>>
  BY <1>0, PairTextsType, KeywordsAreWords
<1>2. b \in Seq(Token) /\ n + 1 - 1 = n
  <2>1. b \in Seq(Token)
    BY ReturnPlaces
  <2> QED
    BY <2>1
<1>3. From(texts, n) = Then(texts[n], From(texts, n + 1)) /\ From(texts, n + 1) \in Seq(Token)
  <2>1. n \in 1..Len(texts) /\ n + 1 \in 1..(Len(texts) + 1)
    <3>1. n \in 1..Len(pairs)
      OBVIOUS
    <3> HIDE DEF pairs, texts
    <3> QED
      BY <1>0, <1>1, <3>1
  <2> HIDE DEF texts
  <2> QED
    BY <1>1, <2>1, FromNext
<1>4. texts[n] \in Seq(Token) /\ Then(Close, r) \in Seq(Token)
  BY <1>0, <1>1, LocationLeftType, ElementOfSeq
<1>5. Left = Then(texts[n], b)
  <2>1. Left = Then(Then(texts[n], From(texts, n + 1)), Then(Close, r))
    BY <1>3 DEF AtReturns, ReturnsLeft
  <2> QED
    BY <1>3, <1>4, <2>1, ThenAssociative DEF ReturnsLeft
<1> HIDE DEF b, texts, pairs
<1>6. /\ ~AtEnd /\ tokens[it] = W("return") /\ Has(2)
      /\ Word(1) = pairs[n][1] /\ Word(2) = pairs[n][2]
      /\ tokens' = tokens /\ it' = it + 1 + 2 => Left' = b
  BY <1>0, <1>1, <1>2, <1>5, Now, ReadPair
<1>7. parseLocationRedirect
  <2>1. "return" \in LocationWords
    BY DEF LocationWords
  <2> QED
    BY <1>6, <2>1, LocationStep
<1>8. /\ location' = [location EXCEPT !.redirect =
                        Inserted(location.redirect, ft_stoi(Word(1)), Word(2))]
      /\ it' = it + 1 + 2 /\ tokens' = tokens /\ StillInLocation
  BY <1>7 DEF parseLocationRedirect, SetLocation, file, StillInLocation
<1>9. location' = ReturnsIn(l, n)
  <2>1. n - 1 \in Nat /\ n - 1 < Len(pairs) /\ n - 1 + 1 = n
    BY <1>0 DEF pairs
  <2>2. Inserted(MapUpTo(pairs, n - 1), ft_stoi(pairs[n - 1 + 1][1]), pairs[n - 1 + 1][2])
          = MapUpTo(pairs, n - 1 + 1)
    BY <1>0, <2>1, MapGrows
  <2>3. Inserted(MapUpTo(pairs, n - 1), ft_stoi(pairs[n][1]), pairs[n][2]) = MapUpTo(pairs, n)
    BY <2>1, <2>2
  <2>4. location = ReturnsIn(l, n - 1) /\ location.redirect = MapUpTo(pairs, n - 1)
    BY DEF AtReturns, ReturnsIn, Loc, pairs
  <2>5. location' = [location EXCEPT !.redirect = MapUpTo(pairs, n)]
    BY <1>6, <1>8, <2>3, <2>4
  <2> QED
    BY <2>4, <2>5 DEF ReturnsIn, Loc, pairs
<1> QED
  BY <1>2, <1>6, <1>8, <1>9 DEF AtReturns, b

LEMMA ThenNotEmpty ==
  ASSUME NEW s \in Seq(Token), NEW t \in Seq(Token), Len(s) # 0 \/ Len(t) # 0
  PROVE  Len(Then(s, t)) # 0
<1>1. Len(s) \in Nat /\ Len(t) \in Nat
  BY LenProperties
<1>2. Len(Then(s, t)) = Len(s) + Len(t)
  BY ThenTokens
<1> QED
  BY <1>1, <1>2

LEMMA LocationGoesOn ==
  ASSUME NEW l \in LocationDoc, NEW r \in Seq(Token)
  PROVE  Len(LocationLeft(l, r)) # 0
<1>0. /\ \A word \in {"root", "allowed_method", "index", "cgi_extension"} : word \in AnyWord
      /\ 1 \in 1..(Len(l.redirect) + 1)
  BY LocationDocIs, KeywordsAreWords, KeywordsAre
<1>1. Then(Close, r) \in Seq(Token) /\ Len(Then(Close, r)) # 0
  <2>1. Close \in Seq(Token) /\ Len(Close) # 0
    BY CloseType
  <2> QED
    BY <2>1, ThenTokens, ThenNotEmpty
<1>2. ReturnsLeft(l, 1, r) \in Seq(Token) /\ Len(ReturnsLeft(l, 1, r)) # 0
  <2>1. From(PairTexts("return", l.redirect), 1) \in Seq(Token)
    BY <1>0, LocationLeftType
  <2> QED
    BY <1>1, <2>1, ReturnPlaces, ThenNotEmpty DEF ReturnsLeft
<1>3. CgiLeft(l, r) \in Seq(Token) /\ Len(CgiLeft(l, r)) # 0
  <2>1. Several("cgi_extension", l.cgi) \in Seq(Token)
    BY <1>0, LocationDocIs, SeveralType
  <2> QED
    BY <1>2, <2>1, LocationLeftType, ThenNotEmpty DEF CgiLeft
<1>4. AutoindexLeft(l, r) \in Seq(Token) /\ Len(AutoindexLeft(l, r)) # 0
  BY <1>3, LocationLeftType, ThenNotEmpty DEF AutoindexLeft
<1>5. IndexLeft(l, r) \in Seq(Token) /\ Len(IndexLeft(l, r)) # 0
  <2>1. Several("index", l.indexes) \in Seq(Token)
    BY <1>0, LocationDocIs, SeveralType
  <2> QED
    BY <1>4, <2>1, LocationLeftType, ThenNotEmpty DEF IndexLeft
<1>6. MethodsLeft(l, r) \in Seq(Token) /\ Len(MethodsLeft(l, r)) # 0
  <2>1. Several("allowed_method", l.methods) \in Seq(Token)
    BY <1>0, LocationDocIs, SeveralType
  <2> QED
    BY <1>5, <2>1, LocationLeftType, ThenNotEmpty DEF MethodsLeft
<1>7. Optional("root", l.root) \in Seq(Token)
  BY <1>0, LocationDocIs, OptionalType
<1> QED
  BY <1>6, <1>7, ThenNotEmpty DEF LocationLeft

\* What is left after a location is what is left of its server.
LEMMA NextLocation ==
  ASSUME NEW s \in ServerDoc, NEW r \in Seq(Token), NEW n \in 1..Len(s.locations)
  PROVE  /\ s.locations[n] \in LocationDoc
         /\ LocationsLeft(s, n + 1, r) \in Seq(Token)
         /\ LocationsLeft(s, n, r)
              = Then(Opened("location", s.locations[n].location),
                     LocationLeft(s.locations[n], LocationsLeft(s, n + 1, r)))
<1> DEFINE texts == LocationTexts(s)
           l == s.locations[n]
           b == LocationsLeft(s, n + 1, r)
           c == Then(Close, r)
<1>1. /\ texts \in Seq(Seq(Token)) /\ Len(texts) = Len(s.locations)
      /\ Len(s.locations) \in Nat /\ l \in LocationDoc /\ texts[n] = LocationText(l)
  BY LocationTextsType
<1>2. n \in 1..Len(texts) /\ n + 1 \in 1..(Len(texts) + 1)
  BY <1>1
<1>3. /\ From(texts, n) = Then(texts[n], From(texts, n + 1))
      /\ From(texts, n + 1) \in Seq(Token) /\ texts[n] \in Seq(Token)
  <2> HIDE DEF texts
  <2> QED
    BY <1>1, <1>2, FromNext, ElementOfSeq
<1>4. c \in Seq(Token)
  BY CloseType, ThenTokens
<1>5. b = Then(From(texts, n + 1), c) /\ b \in Seq(Token)
  BY <1>3, <1>4, ThenTokens DEF LocationsLeft
<1>6. LocationsLeft(s, n, r) = Then(Then(texts[n], From(texts, n + 1)), c)
  BY <1>3 DEF LocationsLeft
<1> HIDE DEF texts, b, c
<1>7. LocationsLeft(s, n, r) = Then(texts[n], b)
  BY <1>3, <1>4, <1>5, <1>6, ThenAssociative
<1>8. \A u \in Seq(Token) :
        Then(LocationText(l), u) = Then(Opened("location", l.location), LocationLeft(l, u))
  <2> HIDE DEF l
  <2> QED
    BY <1>1, LocationIsLaidOut
<1>9. LocationsLeft(s, n, r) = Then(Opened("location", l.location), LocationLeft(l, b))
  BY <1>1, <1>5, <1>7, <1>8
<1> QED
  BY <1>1, <1>5, <1>9 DEF b

LEMMA ReadLocationOpen ==
  ASSUME IInv, pc = "parseServer", NEW s \in ServerDoc, NEW r \in Seq(Token),
         NEW n \in 1..Len(s.locations), AtLocations(s, n, r), Next
  PROVE  /\ AtTop(s.locations[n], LocationsLeft(s, n + 1, r))' /\ HeadRead(s, n)'
         /\ pc' = "parseLocation" /\ UNCHANGED <<doc, damage, servers>>
<1> DEFINE l == s.locations[n]
           b == LocationsLeft(s, n + 1, r)
           c == LocationLeft(l, b)
<1>1. /\ l \in LocationDoc /\ b \in Seq(Token)
      /\ Left = Then(Opened("location", l.location), c)
  BY NextLocation DEF AtLocations
<1> HIDE DEF l, b
<1>2. c \in Seq(Token) /\ Len(c) # 0 /\ l.location \in AnyWord
  BY <1>1, LocationLeftType, LocationGoesOn, LocationDocIs
<1> HIDE DEF c
<1>3. /\ ~AtEnd /\ tokens[it] = W("location") /\ Has(3) /\ Has(2)
      /\ Word(1) = l.location /\ tokens[it + 2] = W(OPEN)
      /\ tokens' = tokens /\ it' = it + 3 => Left' = c
  BY <1>1, <1>2, Now, ReadLocation
<1>4. OpenLocation
  <2>1. "location" \in ServerWords
    BY DEF ServerWords
  <2> QED
    BY <1>3, <2>1, ServerStep
<1>5. /\ location' = NewLocation(Word(1)) /\ l_flag' = {} /\ pc' = "parseLocation"
      /\ it' = it + 3 /\ tokens' = tokens /\ UNCHANGED <<doc, damage, servers>>
      /\ server' = server /\ flag' = flag
  BY <1>3, <1>4 DEF OpenLocation, file
<1>6. HeadRead(s, n)'
  BY <1>5 DEF AtLocations, HeadRead
<1>7. AtTop(l, b)'
  BY <1>3, <1>5 DEF AtTop, c
<1> QED
  BY <1>5, <1>6, <1>7 DEF l, b

LEMMA LocationMeaningIs ==
  ASSUME NEW l \in LocationDoc
  PROVE  ReturnsIn(l, Len(l.redirect)) = LocationMeaning(l)
<1>1. LocationMeaning(l) = [l EXCEPT !.redirect = MapOf(l.redirect)]
  BY DEF LocationMeaning
<1>2. MapUpTo(l.redirect, Len(l.redirect)) = MapOf(l.redirect)
  BY LocationDocIs, MapOfAll
<1> QED
  BY <1>1, <1>2 DEF ReturnsIn, Loc, LocationDoc

\* A location that is read to its end.
LEMMA ReadLocationClose ==
  ASSUME IInv, pc = "parseLocation", NEW s \in ServerDoc, NEW r \in Seq(Token),
         NEW n \in 1..Len(s.locations), HeadRead(s, n),
         AtReturns(s.locations[n], Len(s.locations[n].redirect) + 1,
                   LocationsLeft(s, n + 1, r)), Next
  PROVE  \/ AtLocations(s, n + 1, r)' /\ StillInServer
         \/ Refused /\ ~ValidLocation(LocationMeaning(s.locations[n]))
<1> DEFINE l == s.locations[n]
           m == Len(l.redirect)
           b == LocationsLeft(s, n + 1, r)
           texts == PairTexts("return", l.redirect)
<1>1. l \in LocationDoc /\ b \in Seq(Token) /\ n \in Nat /\ n + 1 - 1 = n /\ n - 1 \in Nat
      /\ n - 1 + 1 = n
  <2>1. l \in LocationDoc /\ b \in Seq(Token)
    BY NextLocation
  <2> QED
    BY <2>1
<1>2. location = ReturnsIn(l, m + 1 - 1) /\ Left = ReturnsLeft(l, m + 1, b)
  BY DEF AtReturns
<1> HIDE DEF l, b
<1>3. m \in Nat /\ l.redirect \in Seq(STRING \X STRING) /\ "return" \in AnyWord
  BY <1>1, LocationDocIs, KeywordsAreWords, KeywordsAre
<1>4. Left = Then(Close, b)
  <2>1. texts \in Seq(Seq(Token)) /\ Len(texts) = m
    BY <1>3, PairTextsType
  <2>2. From(texts, m + 1) = <<>>
    <3> HIDE DEF texts, m
    <3> QED
      BY <2>1, FromNext
  <2>3. Then(Close, b) \in Seq(Token)
    BY <1>1, CloseType, ThenTokens
  <2> QED
    BY <1>2, <2>2, <2>3, ThenEmpty DEF ReturnsLeft
<1>5. location = LocationMeaning(l)
  <2>1. m + 1 - 1 = m
    BY <1>3
  <2> QED
    BY <1>1, <1>2, <2>1, LocationMeaningIs
<1>6. ~AtEnd /\ tokens[it] = W(CLOSE) /\ (tokens' = tokens /\ it' = it + 1 => Left' = b)
  BY <1>1, <1>4, Now, ReadClose
<1>7. CloseLocation
  <2>1. CLOSE \in LocationWords
    BY DEF LocationWords
  <2> QED
    BY <1>6, <2>1, LocationStep
<1>8. LocationProblem(location) = "none" <=> ValidLocation(location)
  BY Now, LocationChecked
<1>9. CASE LocationProblem(location) # "none"
  <2>1. Refused
    BY <1>7, <1>9 DEF CloseLocation, Throw, file, Refused
  <2> QED
    BY <1>5, <1>8, <1>9, <2>1 DEF l
<1>10. CASE LocationProblem(location) = "none"
  <2>1. /\ server' = [server EXCEPT !.locations = Append(server.locations, location)]
        /\ it' = it + 1 /\ tokens' = tokens /\ flag' = flag /\ StillInServer
    BY <1>7, <1>10 DEF CloseLocation, file, StillInServer
  <2>2. server = LocationsRead(s, n - 1) /\ server.locations = MeaningsUpTo(s, n - 1)
    BY DEF HeadRead, LocationsRead, Srv
  <2>3. Append(MeaningsUpTo(s, n - 1), LocationMeaning(s.locations[n - 1 + 1]))
          = MeaningsUpTo(s, n - 1 + 1)
    BY <1>1, MeaningsGrow
  <2>4. Append(server.locations, location) = MeaningsUpTo(s, n)
    BY <1>1, <1>5, <2>2, <2>3 DEF l
  <2>5. server' = LocationsRead(s, n)
    BY <2>1, <2>2, <2>4 DEF LocationsRead, Srv
  <2>6. HeadRead(s, n + 1)'
    <3>1. server' = LocationsRead(s, n + 1 - 1)
      BY <1>1, <2>5
    <3>2. flag' = LimitFlag(s)
      BY <2>1 DEF HeadRead
    <3> QED
      BY <3>1, <3>2 DEF HeadRead
  <2> QED
    BY <1>6, <2>1, <2>6 DEF AtLocations, b
<1> QED
  BY <1>9, <1>10

LEMMA MeaningIs ==
  ASSUME NEW s \in ServerDoc
  PROVE  /\ LocationsRead(s, Len(s.locations)) = Meaning(s)
         /\ Meaning(s).locations = MeaningsUpTo(s, Len(s.locations))
         /\ "listen" \in LimitFlag(s) <=> s.listen # EMPTY
<1>1. DOMAIN s.locations = 1..Len(s.locations)
  BY ServerDocIs, LenProperties
<1>2. MeaningsUpTo(s, Len(s.locations))
        = [i \in DOMAIN s.locations |-> LocationMeaning(s.locations[i])]
  BY <1>1 DEF MeaningsUpTo
<1>3. LocationsRead(s, Len(s.locations)) = Meaning(s)
  BY <1>2 DEF Meaning, LocationsRead, Srv, HostOfDoc, PortOfDoc, LimitOfDoc
<1>4. "listen" \in LimitFlag(s) <=> s.listen # EMPTY
  BY DEF LimitFlag, RootFlag, PortFlag
<1> QED
  BY <1>3, <1>4 DEF LocationsRead, Srv

\* A server that is read to its end.
LEMMA ReadServerClose ==
  ASSUME IInv, pc = "parseServer", NEW s \in ServerDoc, NEW r \in Seq(Token),
         AtLocations(s, Len(s.locations) + 1, r), Next
  PROVE  \/ /\ Left' = r /\ s.listen # EMPTY /\ servers' = Append(servers, Meaning(s))
            /\ pc' = "parseTokens" /\ UNCHANGED <<doc, damage>>
         \/ Refused /\ ~(s.listen # EMPTY /\ ValidServer(Meaning(s)))
<1> DEFINE n == Len(s.locations)
           texts == LocationTexts(s)
<1>1. n \in Nat /\ n + 1 - 1 = n
  BY ServerDocIs
<1>2. server = Meaning(s) /\ ("listen" \in flag <=> s.listen # EMPTY)
  BY <1>1, MeaningIs DEF AtLocations, HeadRead
<1>3. Left = Then(Close, r)
  <2>1. texts \in Seq(Seq(Token)) /\ Len(texts) = n
    BY LocationTextsType
  <2>2. From(texts, n + 1) = <<>>
    <3> HIDE DEF texts, n
    <3> QED
      BY <2>1, FromNext
  <2>3. Then(Close, r) \in Seq(Token)
    BY CloseType, ThenTokens
  <2> QED
    BY <2>2, <2>3, ThenEmpty DEF AtLocations, LocationsLeft
<1>4. ~AtEnd /\ tokens[it] = W(CLOSE) /\ (tokens' = tokens /\ it' = it + 1 => Left' = r)
  BY <1>3, Now, ReadClose
<1>5. CloseServer
  <2>1. CLOSE \in ServerWords
    BY DEF ServerWords
  <2> QED
    BY <1>4, <2>1, ServerStep
<1>6. ServerProblem = "none" <=> "listen" \in flag /\ ValidServer(server)
  <2>1. LocationsValid
    BY Now DEF LocationsValid
  <2> QED
    BY <2>1, Now, ServerChecked
<1>7. CASE ServerProblem # "none"
  <2>1. Refused
    BY <1>5, <1>7 DEF CloseServer, Throw, file, Refused
  <2> QED
    BY <1>2, <1>6, <1>7, <2>1
<1>8. CASE ServerProblem = "none"
  <2>1. /\ servers' = Append(servers, server) /\ pc' = "parseTokens" /\ it' = it + 1
        /\ tokens' = tokens /\ UNCHANGED <<doc, damage>>
    BY <1>5, <1>8 DEF CloseServer, file
  <2> QED
    BY <1>2, <1>4, <1>6, <1>8, <2>1
<1> QED
  BY <1>7, <1>8

-------------------------------------------------------------------------------
(* What is written is read: the invariant *)

\* Somewhere in the text of a server, or of a location, with the text r behind it.
InServerText(s, r) ==
  \/ AtPort(s, r) \/ AtNames(s, r) \/ AtRoot(s, r) \/ AtLimit(s, r)
  \/ \E n \in 1..(Len(s.error_pages) + 1) : AtPages(s, n, r)
  \/ \E n \in 1..(Len(s.locations) + 1) : AtLocations(s, n, r)
InLocationText(l, r) ==
  \/ AtTop(l, r) \/ AtMethods(l, r) \/ AtIndex(l, r) \/ AtAutoindex(l, r) \/ AtCgi(l, r)
  \/ \E n \in 1..(Len(l.redirect) + 1) : AtReturns(l, n, r)
InSomeLocation(s, r) ==
  \E n \in 1..Len(s.locations) :
    HeadRead(s, n) /\ InLocationText(s.locations[n], LocationsLeft(s, n + 1, r))

SoFar ==
  /\ Len(servers) <= Len(doc)
  /\ \A i \in 1..Len(servers) : servers[i] = Meaning(doc[i]) /\ doc[i].listen # EMPTY
\* The server that comes next, and the text behind it.
Current(s, r) ==
  /\ Len(servers) < Len(doc)
  /\ s = doc[Len(servers) + 1] /\ r = From(ServerTexts(doc), Len(servers) + 1 + 1)

AsWritten ==
  /\ doc \in Seq(ServerDoc)
  /\ damage.kind = "none" =>
       \/ /\ pc = "parseTokens" /\ SoFar
          /\ Left = From(ServerTexts(doc), Len(servers) + 1)
       \/ pc = "parseServer" /\ SoFar /\ \E s, r : Current(s, r) /\ InServerText(s, r)
       \/ pc = "parseLocation" /\ SoFar /\ \E s, r : Current(s, r) /\ InSomeLocation(s, r)
       \/ pc = "accepted" /\ SoFar /\ Len(servers) = Len(doc)
       \/ pc = "rejected" /\ ~ValidDoc

Kept == UNCHANGED <<doc, damage, servers>>
\* What a step in the text of a server may come to.
ReadsOn(s, r) ==
  \/ pc' = "parseServer" /\ Kept /\ InServerText(s, r)'
  \/ pc' = "parseLocation" /\ Kept /\ InSomeLocation(s, r)'
  \/ /\ pc' = "parseTokens" /\ UNCHANGED <<doc, damage>>
     /\ Left' = r /\ s.listen # EMPTY /\ servers' = Append(servers, Meaning(s))
  \/ Refused /\ ~(s.listen # EMPTY /\ ValidServer(Meaning(s)))

LEMMA InServerStill ==
  ASSUME NEW s, NEW r, InServerText(s, r)', StillInServer
  PROVE  ReadsOn(s, r)
  BY DEF StillInServer, ReadsOn, Kept

LEMMA ServerReadsOn ==
  ASSUME IInv, pc = "parseServer", NEW s \in ServerDoc, NEW r \in Seq(Token),
         InServerText(s, r), Next
  PROVE  ReadsOn(s, r)
<1>0. /\ Len(s.error_pages) \in Nat /\ Len(s.locations) \in Nat
      /\ 1 \in 1..(Len(s.error_pages) + 1) /\ 1 \in 1..(Len(s.locations) + 1)
  BY ServerDocIs
<1>1. ASSUME NEW n \in 1..(Len(s.locations) + 1), AtLocations(s, n, r) PROVE ReadsOn(s, r)
  <2>1. CASE n = Len(s.locations) + 1
    <3>1. \/ /\ Left' = r /\ s.listen # EMPTY /\ servers' = Append(servers, Meaning(s))
             /\ pc' = "parseTokens" /\ UNCHANGED <<doc, damage>>
          \/ Refused /\ ~(s.listen # EMPTY /\ ValidServer(Meaning(s)))
      BY <1>1, <2>1, ReadServerClose
    <3> QED
      BY <3>1 DEF ReadsOn
  <2>2. CASE n # Len(s.locations) + 1
    <3>1. n \in 1..Len(s.locations)
      BY <1>0, <2>2
    <3>2. /\ AtTop(s.locations[n], LocationsLeft(s, n + 1, r))' /\ HeadRead(s, n)'
          /\ pc' = "parseLocation" /\ UNCHANGED <<doc, damage, servers>>
      BY <1>1, <3>1, ReadLocationOpen
    <3>3. InSomeLocation(s, r)'
      BY <3>1, <3>2 DEF InSomeLocation, InLocationText
    <3> QED
      BY <3>2, <3>3 DEF ReadsOn, Kept
  <2> QED
    BY <2>1, <2>2
<1>2. ASSUME AtLimit(s, r) PROVE ReadsOn(s, r)
  <2>1. CASE s.limit = EMPTY
    BY <1>0, <1>1, <1>2, <2>1, SkipLimit
  <2>2. CASE s.limit # EMPTY
    <3>1. AtLocations(s, 1, r)' /\ StillInServer
      BY <1>2, <2>2, ReadLimit
    <3>2. InServerText(s, r)'
      BY <1>0, <3>1 DEF InServerText
    <3> QED
      BY <3>1, <3>2, InServerStill
  <2> QED
    BY <2>1, <2>2
<1>3. ASSUME NEW n \in 1..(Len(s.error_pages) + 1), AtPages(s, n, r) PROVE ReadsOn(s, r)
  <2>1. CASE n = Len(s.error_pages) + 1
    BY <1>2, <1>3, <2>1, SkipPages
  <2>2. CASE n # Len(s.error_pages) + 1
    <3>1. n \in 1..Len(s.error_pages) /\ n + 1 \in 1..(Len(s.error_pages) + 1)
      BY <1>0, <2>2
    <3>2. AtPages(s, n + 1, r)' /\ StillInServer
      BY <1>3, <3>1, ReadPage
    <3>3. InServerText(s, r)'
      BY <3>1, <3>2 DEF InServerText
    <3> QED
      BY <3>2, <3>3, InServerStill
  <2> QED
    BY <2>1, <2>2
<1>4. ASSUME AtRoot(s, r) PROVE ReadsOn(s, r)
  <2>1. CASE s.root = EMPTY
    BY <1>0, <1>3, <1>4, <2>1, SkipRoot
  <2>2. CASE s.root # EMPTY
    <3>1. AtPages(s, 1, r)' /\ StillInServer
      BY <1>4, <2>2, ReadRoot
    <3>2. InServerText(s, r)'
      BY <1>0, <3>1 DEF InServerText
    <3> QED
      BY <3>1, <3>2, InServerStill
  <2> QED
    BY <2>1, <2>2
<1>5. ASSUME AtNames(s, r) PROVE ReadsOn(s, r)
  <2>1. CASE s.names = <<>>
    BY <1>4, <1>5, <2>1, SkipNames
  <2>2. CASE s.names # <<>>
    <3>1. AtRoot(s, r)' /\ StillInServer
      BY <1>5, <2>2, ReadNames
    <3>2. InServerText(s, r)'
      BY <3>1 DEF InServerText
    <3> QED
      BY <3>1, <3>2, InServerStill
  <2> QED
    BY <2>1, <2>2
<1>6. ASSUME AtPort(s, r) PROVE ReadsOn(s, r)
  <2>1. CASE s.listen = EMPTY
    BY <1>5, <1>6, <2>1, SkipPort
  <2>2. CASE s.listen # EMPTY
    <3>1. AtNames(s, r)' /\ StillInServer
      BY <1>6, <2>2, ReadPort
    <3>2. InServerText(s, r)'
      BY <3>1 DEF InServerText
    <3> QED
      BY <3>1, <3>2, InServerStill
  <2> QED
    BY <2>1, <2>2
<1> QED
  BY <1>1, <1>2, <1>3, <1>4, <1>5, <1>6 DEF InServerText

LEMMA InLocationStill ==
  ASSUME NEW s, NEW r, NEW n \in 1..Len(s.locations), HeadRead(s, n), StillInLocation,
         InLocationText(s.locations[n], LocationsLeft(s, n + 1, r))'
  PROVE  ReadsOn(s, r)
<1>1. HeadRead(s, n)'
  BY DEF StillInLocation, HeadRead
<1>2. InSomeLocation(s, r)'
  BY <1>1 DEF InSomeLocation
<1> QED
  BY <1>2 DEF StillInLocation, ReadsOn, Kept

LEMMA RefusedLocation ==
  ASSUME NEW s \in ServerDoc, NEW n \in 1..Len(s.locations),
         ~ValidLocation(LocationMeaning(s.locations[n]))
  PROVE  ~ValidServer(Meaning(s))
<1> DEFINE m == Len(s.locations)
<1>1. Meaning(s).locations = MeaningsUpTo(s, m)
  BY MeaningIs
<1>2. n \in DOMAIN MeaningsUpTo(s, m)
      /\ MeaningsUpTo(s, m)[n] = LocationMeaning(s.locations[n])
  BY DEF MeaningsUpTo
<1> QED
  BY <1>1, <1>2 DEF ValidServer

LEMMA LocationReadsOn ==
  ASSUME IInv, pc = "parseLocation", NEW s \in ServerDoc, NEW r \in Seq(Token),
         InSomeLocation(s, r), Next
  PROVE  ReadsOn(s, r)
<1> PICK n \in 1..Len(s.locations) :
      HeadRead(s, n) /\ InLocationText(s.locations[n], LocationsLeft(s, n + 1, r))
  BY DEF InSomeLocation
<1> DEFINE l == s.locations[n]
           b == LocationsLeft(s, n + 1, r)
<1>0. l \in LocationDoc /\ b \in Seq(Token) /\ InLocationText(l, b)
  BY NextLocation
<1>1. ASSUME InLocationText(l, b)', StillInLocation PROVE ReadsOn(s, r)
  BY <1>1, InLocationStill
<1>2. ASSUME AtReturns(l, Len(l.redirect) + 1, b) PROVE ReadsOn(s, r)
  <2>1. \/ AtLocations(s, n + 1, r)' /\ StillInServer
        \/ Refused /\ ~ValidLocation(LocationMeaning(l))
    BY <1>2, ReadLocationClose
  <2>2. CASE AtLocations(s, n + 1, r)' /\ StillInServer
    <3>1. n + 1 \in 1..(Len(s.locations) + 1)
      BY ServerDocIs
    <3>2. InServerText(s, r)'
      BY <2>2, <3>1 DEF InServerText
    <3> QED
      BY <2>2, <3>2, InServerStill
  <2>3. CASE Refused /\ ~ValidLocation(LocationMeaning(l))
    BY <2>3, RefusedLocation DEF ReadsOn
  <2> QED
    BY <2>1, <2>2, <2>3
<1>3. ASSUME Refused, l.autoindex \notin {"unset", "on", "off"} PROVE ReadsOn(s, r)
  <2>1. LocationMeaning(l).autoindex = l.autoindex
    BY <1>0 DEF LocationMeaning, LocationDoc
  <2>2. ~ValidLocation(LocationMeaning(l))
    BY <1>3, <2>1 DEF ValidLocation
  <2> QED
    BY <1>3, <2>2, RefusedLocation DEF ReadsOn
<1> HIDE DEF l, b
<1>4. Len(l.redirect) \in Nat /\ 1 \in 1..(Len(l.redirect) + 1)
  BY <1>0, LocationDocIs
<1>5. ASSUME NEW m \in 1..(Len(l.redirect) + 1), AtReturns(l, m, b) PROVE ReadsOn(s, r)
  <2>1. CASE m = Len(l.redirect) + 1
    BY <1>2, <1>5, <2>1
  <2>2. CASE m # Len(l.redirect) + 1
    <3>1. m \in 1..Len(l.redirect) /\ m + 1 \in 1..(Len(l.redirect) + 1)
      BY <1>4, <2>2
    <3>2. AtReturns(l, m + 1, b)' /\ StillInLocation
      BY <1>0, <1>5, <3>1, ReadReturn
    <3>3. InLocationText(l, b)'
      BY <3>1, <3>2 DEF InLocationText
    <3> QED
      BY <1>1, <3>2, <3>3
  <2> QED
    BY <2>1, <2>2
<1>6. ASSUME AtCgi(l, b) PROVE ReadsOn(s, r)
  <2>1. CASE l.cgi = <<>>
    BY <1>0, <1>4, <1>5, <1>6, <2>1, SkipCgi
  <2>2. CASE l.cgi # <<>>
    <3>1. AtReturns(l, 1, b)' /\ StillInLocation
      BY <1>0, <1>6, <2>2, ReadCgi
    <3>2. InLocationText(l, b)'
      BY <1>4, <3>1 DEF InLocationText
    <3> QED
      BY <1>1, <3>1, <3>2
  <2> QED
    BY <2>1, <2>2
<1>7. ASSUME AtAutoindex(l, b) PROVE ReadsOn(s, r)
  <2>1. CASE l.autoindex = "unset"
    BY <1>0, <1>6, <1>7, <2>1, SkipAutoindex
  <2>2. CASE l.autoindex # "unset"
    <3>1. \/ AtCgi(l, b)' /\ StillInLocation
          \/ Refused /\ l.autoindex \notin {"unset", "on", "off"}
      BY <1>0, <1>7, <2>2, ReadAutoindex
    <3>2. AtCgi(l, b)' => InLocationText(l, b)'
      BY DEF InLocationText
    <3> QED
      BY <1>1, <1>3, <3>1, <3>2
  <2> QED
    BY <2>1, <2>2
<1>8. ASSUME AtIndex(l, b) PROVE ReadsOn(s, r)
  <2>1. CASE l.indexes = <<>>
    BY <1>0, <1>7, <1>8, <2>1, SkipIndex
  <2>2. CASE l.indexes # <<>>
    <3>1. AtAutoindex(l, b)' /\ StillInLocation
      BY <1>0, <1>8, <2>2, ReadIndex
    <3>2. InLocationText(l, b)'
      BY <3>1 DEF InLocationText
    <3> QED
      BY <1>1, <3>1, <3>2
  <2> QED
    BY <2>1, <2>2
<1>9. ASSUME AtMethods(l, b) PROVE ReadsOn(s, r)
  <2>1. CASE l.methods = <<>>
    BY <1>0, <1>8, <1>9, <2>1, SkipMethods
  <2>2. CASE l.methods # <<>>
    <3>1. AtIndex(l, b)' /\ StillInLocation
      BY <1>0, <1>9, <2>2, ReadMethods
    <3>2. InLocationText(l, b)'
      BY <3>1 DEF InLocationText
    <3> QED
      BY <1>1, <3>1, <3>2
  <2> QED
    BY <2>1, <2>2
<1>10. ASSUME AtTop(l, b) PROVE ReadsOn(s, r)
  <2>1. CASE l.root = EMPTY
    BY <1>0, <1>9, <1>10, <2>1, SkipTop
  <2>2. CASE l.root # EMPTY
    <3>1. AtMethods(l, b)' /\ StillInLocation
      BY <1>0, <1>10, <2>2, ReadTop
    <3>2. InLocationText(l, b)'
      BY <3>1 DEF InLocationText
    <3> QED
      BY <1>1, <3>1, <3>2
  <2> QED
    BY <2>1, <2>2
<1> QED
  BY <1>0, <1>5, <1>6, <1>7, <1>8, <1>9, <1>10 DEF InLocationText

LEMMA TextKept ==
  ASSUME Next
  PROVE  doc' = doc /\ damage' = damage /\ tokens' = tokens
  BY DEF Next, Finish, OpenServer, NoServer, Duplicated, parseListen, parseRoot,
         parseClientBodySizeLimit, parseServerName, parseErrorPages, OpenLocation,
         LocationWithoutBody, CloseServer, ServerNotClosed, parseLocationRoot,
         parseLocationAutoindexes, parseLocationLists, parseLocationRedirect, CloseLocation,
         LocationNotClosed, UnknownDirective, WordsMissing, SetServer, SetLocation, Throw,
         ReadPastEnd, file

LEMMA EndedIsOver ==
  ASSUME Next
  PROVE  pc \in {"parseTokens", "parseServer", "parseLocation"}
  BY DEF Next, Finish, OpenServer, NoServer, Duplicated, parseListen, parseRoot,
         parseClientBodySizeLimit, parseServerName, parseErrorPages, OpenLocation,
         LocationWithoutBody, CloseServer, ServerNotClosed, parseLocationRoot,
         parseLocationAutoindexes, parseLocationLists, parseLocationRedirect, CloseLocation,
         LocationNotClosed, UnknownDirective, WordsMissing, Given, InServer, InLocation

LEMMA AppendIs ==
  ASSUME NEW S, NEW seq \in Seq(S), NEW x
  PROVE  /\ Len(Append(seq, x)) = Len(seq) + 1
         /\ \A i \in 1..Len(seq) : Append(seq, x)[i] = seq[i]
         /\ Append(seq, x)[Len(seq) + 1] = x
<1> DEFINE T == S \cup {x}
<1>1. Len(seq) \in Nat /\ seq \in [1..Len(seq) -> S]
  BY LenProperties
<1>2. seq \in [1..Len(seq) -> T] /\ x \in T
  BY <1>1
<1> HIDE DEF T
<1>3. seq \in Seq(T)
  BY <1>1, <1>2, FunctionIsSeq
<1> QED
  BY <1>2, <1>3, AppendProperties

LEMMA CurrentIs ==
  ASSUME doc \in Seq(ServerDoc), servers \in Seq(ServerRead), NEW s, NEW r, Current(s, r)
  PROVE  /\ s \in ServerDoc /\ r \in Seq(Token)
         /\ Len(servers) \in Nat /\ Len(doc) \in Nat /\ DOMAIN doc = 1..Len(doc)
         /\ Len(servers) + 1 \in DOMAIN doc
         /\ From(ServerTexts(doc), Len(servers) + 1) = Then(ServerText(s), r)
<1> DEFINE texts == ServerTexts(doc)
           k == Len(servers) + 1
<1>1. /\ texts \in Seq(Seq(Token)) /\ Len(texts) = Len(doc) /\ Len(doc) \in Nat
      /\ DOMAIN doc = 1..Len(doc)
      /\ \A i \in 1..Len(doc) : doc[i] \in ServerDoc /\ texts[i] = ServerText(doc[i])
  BY ServerTextsType
<1>2. Len(servers) \in Nat /\ Len(servers) < Len(doc) /\ s = doc[k] /\ r = From(texts, k + 1)
  BY LenProperties DEF Current
<1>3. k \in 1..Len(doc) /\ k \in 1..Len(texts) /\ k + 1 \in 1..(Len(texts) + 1)
  BY <1>1, <1>2
<1> HIDE DEF k
<1>4. s \in ServerDoc /\ texts[k] = ServerText(s)
  BY <1>1, <1>2, <1>3
<1> HIDE DEF texts
<1>5. From(texts, k) = Then(texts[k], From(texts, k + 1)) /\ From(texts, k + 1) \in Seq(Token)
  BY <1>1, <1>3, FromNext
<1> QED
  BY <1>1, <1>2, <1>3, <1>4, <1>5 DEF k, texts

LEMMA ServersReadOn ==
  ASSUME IInv, AsWritten, damage.kind = "none", pc = "parseTokens", Next
  PROVE  AsWritten'
<1> DEFINE texts == ServerTexts(doc)
<1>1. /\ doc \in Seq(ServerDoc) /\ SoFar /\ Left = From(texts, Len(servers) + 1)
      /\ servers \in Seq(ServerRead)
  BY Now DEF AsWritten
<1>2. Len(servers) \in Nat /\ Len(doc) \in Nat /\ Len(servers) <= Len(doc)
  BY <1>1, LenProperties DEF SoFar
<1>3. CASE Len(servers) = Len(doc)
  <2>1. texts \in Seq(Seq(Token)) /\ Len(texts) = Len(doc)
    BY <1>1, ServerTextsType
  <2>2. Left = <<>>
    <3> HIDE DEF texts
    <3> QED
      BY <1>1, <1>3, <2>1, FromNext
  <2>3. AtEnd
    BY <2>2, Now, NothingLeft
  <2>4. Finish
    BY <2>3, TopStep
  <2>5. pc' = "accepted" /\ UNCHANGED <<doc, damage, servers>>
    BY <2>4 DEF Finish, file
  <2>6. SoFar' /\ Len(servers') = Len(doc')
    BY <1>1, <1>3, <2>5 DEF SoFar
  <2> QED
    BY <1>1, <2>5, <2>6 DEF AsWritten
<1>4. CASE Len(servers) # Len(doc)
  <2>1. PICK s, r : Current(s, r)
    BY <1>2, <1>4 DEF Current
  <2>2. s \in ServerDoc /\ r \in Seq(Token) /\ Left = Then(ServerText(s), r)
    BY <1>1, <2>1, CurrentIs
  <2>3. Left = Then(ServerOpened, ServerLeft(s, r)) /\ ServerLeft(s, r) \in Seq(Token)
    BY <2>2, ServerIsLaidOut, ServerLeftType
  <2>4. /\ ~AtEnd /\ tokens[it] = W("server") /\ Has(1) /\ tokens[it + 1] = W(OPEN)
        /\ tokens' = tokens /\ it' = it + 2 => Left' = ServerLeft(s, r)
    BY <2>3, Now, ReadServer
  <2>5. OpenServer
    BY <2>4, TopStep
  <2>6. /\ server' = NewServer /\ flag' = {} /\ pc' = "parseServer" /\ it' = it + 2
        /\ tokens' = tokens /\ UNCHANGED <<doc, damage, servers>>
    BY <2>5 DEF OpenServer, file
  <2>7. InServerText(s, r)'
    BY <2>4, <2>6 DEF InServerText, AtPort
  <2>8. SoFar' /\ Current(s, r)'
    BY <1>1, <2>1, <2>6 DEF SoFar, Current
  <2> QED
    BY <1>1, <2>6, <2>7, <2>8 DEF AsWritten
<1> QED
  BY <1>3, <1>4

LEMMA BlockReadsOn ==
  ASSUME IInv, AsWritten, damage.kind = "none", SoFar, NEW s, NEW r, Current(s, r),
         ReadsOn(s, r)
  PROVE  AsWritten'
<1>1. doc \in Seq(ServerDoc) /\ servers \in Seq(ServerRead)
  BY Now DEF AsWritten
<1>2. /\ s \in ServerDoc /\ Len(servers) \in Nat /\ Len(doc) \in Nat
      /\ DOMAIN doc = 1..Len(doc) /\ Len(servers) + 1 \in DOMAIN doc
  BY <1>1, CurrentIs
<1>3. /\ Len(servers) < Len(doc)
      /\ s = doc[Len(servers) + 1] /\ r = From(ServerTexts(doc), Len(servers) + 1 + 1)
  BY DEF Current
<1>4. doc' = doc /\ damage' = damage
  BY DEF ReadsOn, Kept, Refused
<1>5. CASE Kept
  <2>1. SoFar' /\ Current(s, r)'
    BY <1>4, <1>5 DEF SoFar, Current, Kept
  <2>2. CASE pc' = "parseServer" /\ InServerText(s, r)'
    BY <1>1, <1>4, <2>1, <2>2 DEF AsWritten
  <2>3. CASE pc' = "parseLocation" /\ InSomeLocation(s, r)'
    BY <1>1, <1>4, <2>1, <2>3 DEF AsWritten
  <2>4. CASE Refused /\ ~(s.listen # EMPTY /\ ValidServer(Meaning(s)))
    <3>1. ~ValidDoc
      BY <1>2, <1>3, <2>4 DEF ValidDoc
    <3>2. ValidDoc' <=> ValidDoc
      BY <1>4 DEF ValidDoc
    <3> QED
      BY <1>1, <1>4, <2>4, <3>1, <3>2 DEF AsWritten, Refused
  <2>5. servers' # Append(servers, Meaning(s))
    <3>1. servers' = servers
      BY <1>5 DEF Kept
    <3>2. Len(Append(servers, Meaning(s))) = Len(servers) + 1
      BY <1>1, AppendIs
    <3> QED
      BY <1>2, <3>1, <3>2
  <2> QED
    BY <2>2, <2>3, <2>4, <2>5 DEF ReadsOn
<1>6. CASE /\ pc' = "parseTokens"
           /\ Left' = r /\ s.listen # EMPTY /\ servers' = Append(servers, Meaning(s))
  <2> DEFINE k == Len(servers)
  <2>1. /\ Len(servers') = k + 1
        /\ \A i \in 1..k : servers'[i] = servers[i]
        /\ servers'[k + 1] = Meaning(s)
    BY <1>1, <1>6, AppendIs
  <2>2. Left' = From(ServerTexts(doc), Len(servers') + 1)
    BY <1>3, <1>6, <2>1
  <2>3. ASSUME NEW i \in 1..(k + 1)
        PROVE  servers'[i] = Meaning(doc[i]) /\ doc[i].listen # EMPTY
    <3>1. CASE i = k + 1
      BY <1>3, <1>6, <2>1, <3>1
    <3>2. CASE i # k + 1
      <4>1. i \in 1..k
        BY <1>2, <3>2
      <4> QED
        BY <2>1, <4>1 DEF SoFar
    <3> QED
      BY <3>1, <3>2
  <2>4. SoFar'
    <3>1. Len(servers') <= Len(doc')
      BY <1>2, <1>3, <1>4, <2>1
    <3> QED
      BY <1>4, <2>1, <2>3, <3>1 DEF SoFar
  <2> QED
    BY <1>1, <1>4, <1>6, <2>2, <2>4 DEF AsWritten
<1>7. CASE Refused /\ ~(s.listen # EMPTY /\ ValidServer(Meaning(s)))
  <2>1. ~ValidDoc
    BY <1>2, <1>3, <1>7 DEF ValidDoc
  <2>2. ValidDoc' <=> ValidDoc
    BY <1>4 DEF ValidDoc
  <2> QED
    BY <1>1, <1>4, <1>7, <2>1, <2>2 DEF AsWritten, Refused
<1> QED
  BY <1>5, <1>6, <1>7 DEF ReadsOn

LEMMA StepsAsWritten == IInv /\ AsWritten /\ [Next]_vars => AsWritten'
<1> SUFFICES ASSUME IInv, AsWritten, [Next]_vars PROVE AsWritten'
  OBVIOUS
<1>1. CASE UNCHANGED vars
  <2>1. /\ doc' = doc /\ damage' = damage /\ pc' = pc /\ servers' = servers /\ Left' = Left
        /\ server' = server /\ flag' = flag /\ location' = location /\ l_flag' = l_flag
    BY <1>1 DEF vars, Left
  <2>2. /\ SoFar' <=> SoFar
        /\ \A s, r : Current(s, r)' <=> Current(s, r)
        /\ ValidDoc' <=> ValidDoc
    BY <2>1 DEF SoFar, Current, ValidDoc
  <2>3. \A s, n : HeadRead(s, n)' <=> HeadRead(s, n)
    BY <2>1 DEF HeadRead
  <2>4. \A s, r : InServerText(s, r)' <=> InServerText(s, r)
    BY <2>1, <2>3 DEF InServerText, AtPort, AtNames, AtRoot, AtPages, AtLimit, AtLocations
  <2>5. \A l, r : InLocationText(l, r)' <=> InLocationText(l, r)
    BY <2>1 DEF InLocationText, AtTop, AtMethods, AtIndex, AtAutoindex, AtCgi, AtReturns
  <2>6. \A s, r : InSomeLocation(s, r)' <=> InSomeLocation(s, r)
    BY <2>3, <2>5 DEF InSomeLocation
  <2> QED
    BY <2>1, <2>2, <2>4, <2>6 DEF AsWritten
<1>2. CASE Next
  <2>1. doc' = doc /\ damage' = damage
    BY <1>2, TextKept
  <2>2. CASE damage.kind # "none"
    BY <2>1, <2>2 DEF AsWritten
  <2>3. CASE damage.kind = "none"
    <3>1. doc \in Seq(ServerDoc) /\ servers \in Seq(ServerRead)
      BY Now DEF AsWritten
    <3>2. CASE pc = "parseTokens"
      BY <1>2, <2>3, <3>2, ServersReadOn
    <3>3. CASE pc = "parseServer"
      <4>1. SoFar /\ \E s, r : Current(s, r) /\ InServerText(s, r)
        BY <2>3, <3>3 DEF AsWritten
      <4>2. PICK s, r : Current(s, r) /\ InServerText(s, r)
        BY <4>1
      <4>3. s \in ServerDoc /\ r \in Seq(Token)
        BY <3>1, <4>2, CurrentIs
      <4>4. ReadsOn(s, r)
        BY <1>2, <3>3, <4>2, <4>3, ServerReadsOn
      <4> QED
        BY <2>3, <4>1, <4>2, <4>4, BlockReadsOn
    <3>4. CASE pc = "parseLocation"
      <4>1. SoFar /\ \E s, r : Current(s, r) /\ InSomeLocation(s, r)
        BY <2>3, <3>4 DEF AsWritten
      <4>2. PICK s, r : Current(s, r) /\ InSomeLocation(s, r)
        BY <4>1
      <4>3. s \in ServerDoc /\ r \in Seq(Token)
        BY <3>1, <4>2, CurrentIs
      <4>4. ReadsOn(s, r)
        BY <1>2, <3>4, <4>2, <4>3, LocationReadsOn
      <4> QED
        BY <2>3, <4>1, <4>2, <4>4, BlockReadsOn
    <3>5. CASE pc \in {"accepted", "rejected"}
      BY <1>2, <3>5, EndedIsOver
    <3> QED
      BY <2>3, <3>2, <3>3, <3>4, <3>5 DEF AsWritten
  <2> QED
    BY <2>2, <2>3
<1> QED
  BY <1>1, <1>2

LEMMA InitAsWritten == Init => AsWritten
<1> SUFFICES ASSUME Init PROVE AsWritten
  OBVIOUS
<1>1. /\ doc \in Docs /\ tokens = Damaged(Text(doc), damage) /\ it = 1
      /\ pc = "parseTokens" /\ servers = <<>>
  BY DEF Init
<1>2. doc \in Seq(ServerDoc)
  BY <1>1, DocsAssumption
<1>3. /\ ServerTexts(doc) \in Seq(Seq(Token)) /\ Text(doc) \in Seq(Token)
      /\ Len(doc) \in Nat
  BY <1>2, ServerTextsType
<1>4. Len(servers) = 0
  BY <1>1, EmptyIs
<1>5. ASSUME damage.kind = "none" PROVE Left = From(ServerTexts(doc), Len(servers) + 1)
  <2>1. tokens = Text(doc)
    BY <1>1, <1>5 DEF Damaged
  <2>2. Left = tokens
    <3>1. tokens \in Seq(Token) /\ Len(tokens) \in Nat /\ it \in 1..(Len(tokens) + 1)
      BY <1>1, <1>3, <2>1, LenProperties
    <3>2. /\ Left \in Seq(Token) /\ Len(Left) = Len(tokens) + 1 - it
          /\ \A k \in 1..Len(Left) : Left[k] = tokens[it + k - 1]
      BY <3>1, LeftIs
    <3>3. Len(Left) = Len(tokens) /\ \A k \in 1..Len(Left) : Left[k] = tokens[k]
      BY <1>1, <3>1, <3>2
    <3> QED
      BY <3>1, <3>2, <3>3, SeqEqual
  <2>3. From(ServerTexts(doc), 1) = Text(doc)
    BY <1>3, FromNext DEF Text
  <2>4. Len(servers) + 1 = 1
    BY <1>4
  <2> QED
    BY <2>1, <2>2, <2>3, <2>4
<1>6. SoFar
  BY <1>3, <1>4 DEF SoFar
<1> QED
  BY <1>1, <1>2, <1>5, <1>6 DEF AsWritten

LEMMA WrittenHolds == Spec => [](IInv /\ AsWritten)
<1>1. Init => IInv /\ AsWritten
  BY InitHolds, InitAsWritten
<1>2. IInv /\ AsWritten /\ [Next]_vars => (IInv /\ AsWritten)'
  BY StepKeeps, StepsAsWritten
<1> QED
  BY <1>1, <1>2, PTL DEF Spec

\* What somebody wrote is what the program is configured with: a file that is not
\* damaged is accepted if it is valid, whatever its length, its words and the
\* directives it has, with the values it was written with, and refused if it is
\* not; it is never read past its end.
THEOREM WrittenCorrect == Spec => []WrittenIsRead
<1>1. ASSUME IInv, AsWritten, Ended, damage.kind = "none"
      PROVE  IF ValidDoc THEN pc = "accepted" /\ servers = [i \in DOMAIN doc |-> Meaning(doc[i])]
                         ELSE pc = "rejected"
  <2>1. \/ pc = "accepted" /\ SoFar /\ Len(servers) = Len(doc)
        \/ pc = "rejected" /\ ~ValidDoc
    BY <1>1 DEF AsWritten, Ended
  <2>2. CASE pc = "rejected" /\ ~ValidDoc
    BY <2>2
  <2>3. CASE pc = "accepted" /\ SoFar /\ Len(servers) = Len(doc)
    <3>1. /\ doc \in Seq(ServerDoc) /\ servers \in Seq(ServerRead)
          /\ DOMAIN doc = 1..Len(doc) /\ DOMAIN servers = 1..Len(servers)
      BY <1>1, Now, LenProperties DEF AsWritten
    <3>2. \A i \in 1..Len(doc) : servers[i] = Meaning(doc[i]) /\ doc[i].listen # EMPTY
      BY <2>3 DEF SoFar
    <3>3. servers = [i \in DOMAIN doc |-> Meaning(doc[i])]
      <4>1. servers = [i \in 1..Len(servers) |-> servers[i]]
        BY <3>1
      <4> QED
        BY <2>3, <3>1, <3>2, <4>1
    <3>4. ValidDoc
      <4>1. \A i \in DOMAIN servers : ValidServer(servers[i])
        BY <1>1 DEF IInv, ServersValid
      <4> QED
        BY <2>3, <3>1, <3>2, <4>1 DEF ValidDoc
    <3> QED
      BY <2>3, <3>3, <3>4
  <2> QED
    BY <2>1, <2>2, <2>3
<1>2. IInv /\ AsWritten => WrittenIsRead
  BY <1>1 DEF WrittenIsRead
<1> QED
  BY <1>2, WrittenHolds, PTL
=============================================================================
