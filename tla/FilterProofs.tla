----------------------------- MODULE FilterProofs -----------------------------
(***************************************************************************)
(* What the filters select, for every name of a group and every list of    *)
(* patterns: the loop over the tokens finds the occurrences a pattern asks *)
(* for wherever there are any, and where it finds some that the pattern    *)
(* does not ask for, tokens overlap.                                       *)
(***************************************************************************)
EXTENDS GroupFilter, SequenceTheorems, WellFoundedInduction, TLAPS

(* A set of numbers has a least one.                                       *)
LEMMA LeastNumber ==
  ASSUME NEW T, T \subseteq Nat, T # {}
  PROVE  \E m \in T : \A k \in T : m <= k
<1>1. PICK m \in T : \A k \in T : ~(<<k, m>> \in OpToRel(<, Nat))
  BY WFMin, NatLessThanWellFounded
<1>2. \A k \in T : ~(k < m)
  BY <1>1 DEF OpToRel
<1>3. \A k \in T : k \in Nat /\ m \in Nat
  BY <1>1
<1> QED BY <1>2, <1>3

(* strstr finds the first occurrence there is.                             *)
LEMMA FirstIsFound ==
  ASSUME NEW text \in Word, NEW word \in Word, NEW i \in Nat, i >= 1
  PROVE  LET f == FirstFrom(word, text, i)
         IN  /\ f \in Nat
             /\ f # 0 => i <= f /\ f <= Len(text) /\ OccursAt(word, text, f)
             /\ \A j \in i..Len(text) : OccursAt(word, text, j) => f # 0 /\ f <= j
<1> DEFINE found == {j \in i..Len(text) : OccursAt(word, text, j)}
           f == FirstFrom(word, text, i)
<1>1. Len(text) \in Nat
  BY LenProperties DEF Word
<1>2. CASE found = {}
  BY <1>2 DEF FirstFrom
<1>3. CASE found # {}
  <2>1. found \subseteq Nat
    BY <1>1
  <2> DEFINE Leasts(j) == j \in found /\ \A k \in found : j <= k
  <2>2. \E j : Leasts(j)
    BY <1>3, <2>1, LeastNumber
  <2>3. f = CHOOSE j : Leasts(j)
    <3>1. f = CHOOSE j \in found : \A k \in found : j <= k
      BY <1>3 DEF FirstFrom
    <3> QED BY <3>1
  <2>4. Leasts(f)
    <3> HIDE DEF Leasts, f
    <3> QED BY <2>2, <2>3
  <2> HIDE DEF f
  <2>5. f \in i..Len(text) /\ OccursAt(word, text, f)
    BY <2>4
  <2>6. \A j \in i..Len(text) : OccursAt(word, text, j) => f <= j
    BY <2>4
  <2> QED BY <1>1, <2>5, <2>6 DEF f
<1> QED BY <1>2, <1>3

(* What the loop does with one token.                                      *)
Goes(name, tokens, k, v) == IF v = 0 THEN 0 ELSE FirstFrom(tokens[k], name, v)
IsWalk(name, tokens, m, f) ==
  f = [k \in 0..m |-> IF k = 0 THEN 1 ELSE Goes(name, tokens, k, f[k - 1])]

(* The loop over the tokens is defined: it starts at the front and goes on *)
(* from each token to the next.                                            *)
LEMMA FoundWalks ==
  ASSUME NEW name, NEW tokens, Len(tokens) \in Nat
  PROVE  IsWalk(name, tokens, Len(tokens), FoundAt(name, tokens))
<1> DEFINE n == Len(tokens)
           Bad == {m \in 0..n : ~\E f : IsWalk(name, tokens, m, f)}
           P(f) == IsWalk(name, tokens, n, f)
<1>1. Bad = {}
  <2> SUFFICES ASSUME Bad # {} PROVE FALSE
    OBVIOUS
  <2>1. Bad \subseteq Nat
    OBVIOUS
  <2>2. PICK m \in Bad : \A k \in Bad : m <= k
    BY <2>1, LeastNumber
  <2>3. m # 0
    <3>1. IsWalk(name, tokens, 0, [k \in 0..0 |-> 1])
      BY DEF IsWalk
    <3> QED BY <2>2, <3>1
  <2>4. m - 1 \in 0..n /\ m - 1 \notin Bad /\ m \in 0..n
    BY <2>2, <2>3
  <2>5. PICK f : IsWalk(name, tokens, m - 1, f)
    BY <2>4
  <2> DEFINE g == [k \in 0..m |-> IF k = m THEN Goes(name, tokens, m, f[m - 1]) ELSE f[k]]
  <2>6. \A k \in 0..(m - 1) : g[k] = f[k]
    BY <2>4
  <2>7. ASSUME NEW k \in 0..m
        PROVE  g[k] = IF k = 0 THEN 1 ELSE Goes(name, tokens, k, g[k - 1])
    <3>1. CASE k = m
      <4>1. m - 1 \in 0..(m - 1)
        BY <2>4
      <4> QED BY <3>1, <4>1, <2>3, <2>6
    <3>2. CASE k # m
      <4>1. k \in 0..(m - 1) /\ (k # 0 => k - 1 \in 0..(m - 1))
        BY <3>2, <2>4
      <4>2. f[k] = IF k = 0 THEN 1 ELSE Goes(name, tokens, k, f[k - 1])
        BY <4>1, <2>5 DEF IsWalk
      <4> QED BY <4>1, <4>2, <2>6
    <3> QED BY <3>1, <3>2
  <2>8. IsWalk(name, tokens, m, g)
    <3>1. g = [k \in 0..m |-> g[k]]
      OBVIOUS
    <3> HIDE DEF g
    <3> QED BY <3>1, <2>7 DEF IsWalk
  <2> QED BY <2>2, <2>8
<1>2. \E f : P(f)
  BY <1>1
<1>3. FoundAt(name, tokens) = CHOOSE f : P(f)
  BY DEF FoundAt, IsWalk, Goes
<1> HIDE DEF P
<1>4. P(FoundAt(name, tokens))
  BY <1>2, <1>3
<1> QED BY <1>4 DEF P

(* A list of words to look for.                                            *)
Tokens == Seq(Word \ {<< >>}) \ {<< >>}

LEMMA TokenType ==
  ASSUME NEW tokens \in Tokens
  PROVE  /\ Len(tokens) \in Nat /\ Len(tokens) >= 1
         /\ \A k \in 1..Len(tokens) :
              tokens[k] \in Word /\ Len(tokens[k]) \in Nat /\ Len(tokens[k]) >= 1
<1>1. tokens \in Seq(Word \ {<< >>}) /\ tokens # << >>
  BY DEF Tokens
<1>2. Len(tokens) \in Nat /\ Len(tokens) # 0
  BY <1>1, EmptySeq, LenProperties
<1>3. ASSUME NEW k \in 1..Len(tokens)
      PROVE  tokens[k] \in Word /\ Len(tokens[k]) \in Nat /\ Len(tokens[k]) >= 1
  <2>1. tokens[k] \in Word /\ tokens[k] # << >>
    BY <1>1, ElementOfSeq
  <2>2. Len(tokens[k]) \in Nat /\ Len(tokens[k]) # 0
    BY <2>1, EmptySeq, LenProperties DEF Word
  <2> QED BY <2>1, <2>2
<1> QED BY <1>2, <1>3

(* What the loop has found is a position, and one more token makes it go   *)
(* on from there.                                                          *)
LEMMA FoundSteps ==
  ASSUME NEW name \in Word, NEW tokens \in Tokens
  PROVE  LET F == FoundAt(name, tokens)
         IN  /\ F[0] = 1
             /\ \A k \in 0..Len(tokens) : F[k] \in Nat
             /\ \A k \in 1..Len(tokens) :
                  F[k] = IF F[k - 1] = 0 THEN 0 ELSE FirstFrom(tokens[k], name, F[k - 1])
<1> DEFINE F == FoundAt(name, tokens)
           n == Len(tokens)
<1>1. n \in Nat
  BY TokenType
<1>2. F = [k \in 0..n |-> IF k = 0 THEN 1 ELSE Goes(name, tokens, k, F[k - 1])]
  BY <1>1, FoundWalks DEF IsWalk
<1> HIDE DEF F
<1>3. F[0] = 1
  BY <1>1, <1>2
<1>4. \A k \in 1..n : F[k] = Goes(name, tokens, k, F[k - 1])
  BY <1>1, <1>2
<1> DEFINE Bad == {k \in 0..n : F[k] \notin Nat}
<1>5. Bad = {}
  <2> SUFFICES ASSUME Bad # {} PROVE FALSE
    OBVIOUS
  <2>1. PICK m \in Bad : \A k \in Bad : m <= k
    <3>1. Bad \subseteq Nat
      BY <1>1
    <3> QED BY <3>1, LeastNumber
  <2>2. m \in 1..n /\ m - 1 \in 0..n /\ m - 1 \notin Bad
    BY <1>1, <1>3, <2>1
  <2>3. F[m - 1] \in Nat
    BY <2>2
  <2>4. Goes(name, tokens, m, F[m - 1]) \in Nat
    <3>1. tokens[m] \in Word
      BY <2>2, TokenType
    <3>2. CASE F[m - 1] = 0
      BY <3>2 DEF Goes
    <3>3. CASE F[m - 1] # 0
      <4>1. F[m - 1] >= 1
        BY <2>3, <3>3
      <4>2. FirstFrom(tokens[m], name, F[m - 1]) \in Nat
        BY <2>3, <3>1, <4>1, FirstIsFound
      <4> QED BY <3>3, <4>2 DEF Goes
    <3> QED BY <3>2, <3>3
  <2> QED BY <1>4, <2>1, <2>2, <2>4
<1> QED BY <1>1, <1>3, <1>4, <1>5 DEF Goes, F

(* ... so that it has found an occurrence wherever it has found anything.  *)
LEMMA FoundOccurs ==
  ASSUME NEW name \in Word, NEW tokens \in Tokens, NEW k \in 1..Len(tokens),
         FoundAt(name, tokens)[k] # 0
  PROVE  LET F == FoundAt(name, tokens)
         IN  /\ F[k - 1] >= 1 /\ F[k - 1] <= F[k] /\ F[k] <= Len(name)
             /\ OccursAt(tokens[k], name, F[k])
<1> DEFINE F == FoundAt(name, tokens)
<1>1. k - 1 \in 0..Len(tokens) /\ tokens[k] \in Word
  BY TokenType
<1>2. F[k - 1] \in Nat /\ F[k] = IF F[k - 1] = 0 THEN 0 ELSE FirstFrom(tokens[k], name, F[k - 1])
  BY <1>1, FoundSteps
<1> HIDE DEF F
<1>3. F[k] # 0
  BY DEF F
<1>4. F[k - 1] # 0 /\ F[k] = FirstFrom(tokens[k], name, F[k - 1])
  BY <1>2, <1>3
<1>5. F[k - 1] >= 1
  BY <1>2, <1>4
<1>6. F[k - 1] <= F[k] /\ F[k] <= Len(name) /\ OccursAt(tokens[k], name, F[k])
  BY <1>1, <1>2, <1>3, <1>4, <1>5, FirstIsFound
<1> QED BY <1>5, <1>6 DEF F

(* The loop does not miss: it finds each token at or before any place the  *)
(* pattern may ask for.                                                    *)
LEMMA FoundIsFirst ==
  ASSUME NEW name \in Word, NEW tokens \in Tokens,
         NEW at \in [1..Len(tokens) -> 1..(Len(name) + 1)],
         \A k \in 1..Len(tokens) : OccursAt(tokens[k], name, at[k]),
         \A k \in 1..(Len(tokens) - 1) : at[k] + Len(tokens[k]) <= at[k + 1]
  PROVE  \A k \in 1..Len(tokens) :
           FoundAt(name, tokens)[k] # 0 /\ FoundAt(name, tokens)[k] <= at[k]
<1> DEFINE F == FoundAt(name, tokens)
           n == Len(tokens)
           Bad == {k \in 1..n : ~(F[k] # 0 /\ F[k] <= at[k])}
<1>1. n \in Nat /\ Len(name) \in Nat
  BY TokenType, LenProperties DEF Word
<1>2. /\ F[0] = 1 /\ \A k \in 0..n : F[k] \in Nat
      /\ \A k \in 1..n : F[k] = IF F[k - 1] = 0 THEN 0 ELSE FirstFrom(tokens[k], name, F[k - 1])
  BY FoundSteps
<1> HIDE DEF F
<1>3. ASSUME NEW k \in 1..n, F[k - 1] # 0, F[k - 1] <= at[k]
      PROVE  F[k] # 0 /\ F[k] <= at[k]
  <2>1. tokens[k] \in Word /\ Len(tokens[k]) \in Nat /\ Len(tokens[k]) >= 1
    BY TokenType
  <2>2. k - 1 \in 0..n /\ F[k - 1] \in Nat /\ at[k] \in 1..(Len(name) + 1)
    BY <1>1, <1>2
  <2>3. at[k] + Len(tokens[k]) - 1 <= Len(name)
    BY DEF OccursAt
  <2>4. F[k - 1] >= 1 /\ at[k] \in F[k - 1]..Len(name)
    BY <1>1, <1>3, <2>1, <2>2, <2>3
  <2>5. F[k] = FirstFrom(tokens[k], name, F[k - 1])
    BY <1>2, <1>3
  <2> QED BY <2>1, <2>2, <2>4, <2>5, FirstIsFound
<1>4. Bad = {}
  <2> SUFFICES ASSUME Bad # {} PROVE FALSE
    OBVIOUS
  <2>1. PICK m \in Bad : \A k \in Bad : m <= k
    <3>1. Bad \subseteq Nat
      BY <1>1
    <3> QED BY <3>1, LeastNumber
  <2>2. F[m - 1] # 0 /\ F[m - 1] <= at[m]
    <3>1. CASE m = 1
      BY <1>1, <1>2, <2>1, <3>1
    <3>2. CASE m # 1
      <4>1. m - 1 \in 1..n /\ m - 1 \in 1..(n - 1) /\ m - 1 \notin Bad /\ (m - 1) + 1 = m
        BY <1>1, <2>1, <3>2
      <4>2. F[m - 1] # 0 /\ F[m - 1] <= at[m - 1]
        BY <4>1
      <4>3. at[m - 1] + Len(tokens[m - 1]) <= at[m]
        BY <4>1
      <4>4. Len(tokens[m - 1]) \in Nat
        BY <4>1, TokenType
      <4>5. F[m - 1] \in Nat /\ at[m - 1] \in Int /\ at[m] \in Int
        <5>1. m - 1 \in 0..n /\ m \in 1..n
          BY <1>1, <2>1, <4>1
        <5>2. at[m] \in 1..(Len(name) + 1) /\ at[m - 1] \in 1..(Len(name) + 1)
          BY <4>1, <5>1
        <5> QED BY <1>1, <1>2, <5>1, <5>2
      <4> QED BY <4>2, <4>3, <4>4, <4>5
    <3> QED BY <3>1, <3>2
  <2> QED BY <1>3, <2>1, <2>2
<1> QED BY <1>4 DEF F

(* A pattern that matches is found.                                        *)
LEMMA MatchesAreFound ==
  ASSUME NEW name \in Word, NEW pattern \in Pattern, Matches(name, pattern)
  PROVE  doesSingleFilterApplyToGroup(name, pattern)
<1> DEFINE tokens == pattern.tokens
           n == Len(tokens)
           F == FoundAt(name, tokens)
<1>1. tokens \in Tokens
  BY DEF Pattern, Tokens
<1>2. PICK at \in [1..n -> 1..(Len(name) + 1)] :
        /\ \A k \in 1..n : OccursAt(tokens[k], name, at[k])
        /\ \A k \in 1..(n - 1) : at[k] + Len(tokens[k]) <= at[k + 1]
        /\ ~pattern.openFront => at[1] = 1
        /\ ~pattern.openBack => at[n] + Len(tokens[n]) - 1 = Len(name)
  BY DEF Matches
<1> HIDE DEF tokens
<1>3. n \in Nat /\ n >= 1 /\ Len(name) \in Nat /\ Len(tokens[n]) \in Nat /\ tokens[1] \in Word
      /\ at[n] \in Nat
  BY <1>1, TokenType, LenProperties DEF Word
<1>4. \A k \in 1..n : F[k] # 0 /\ F[k] <= at[k]
  BY <1>1, <1>2, FoundIsFirst
<1>5. F[n] # 0
  BY <1>3, <1>4
<1>6. ASSUME ~pattern.openFront PROVE FirstFrom(tokens[1], name, 1) = 1
  <2>1. F[0] = 1 /\ F[1] = IF F[0] = 0 THEN 0 ELSE FirstFrom(tokens[1], name, F[0])
    <3>1. 1 \in 1..n /\ 1 - 1 = 0
      BY <1>3
    <3> QED BY <1>1, <3>1, FoundSteps
  <2>2. F[1] # 0 /\ F[1] <= 1
    BY <1>2, <1>3, <1>4, <1>6
  <2>3. F[1] = FirstFrom(tokens[1], name, 1)
    BY <2>1
  <2>4. FirstFrom(tokens[1], name, 1) \in Nat
    BY <1>3, FirstIsFound
  <2> QED BY <2>2, <2>3, <2>4
<1>7. ASSUME ~pattern.openBack
      PROVE  OccursAt(tokens[n], name, Len(name) - Len(tokens[n]) + 1)
  <2>1. at[n] = Len(name) - Len(tokens[n]) + 1
    <3>1. at[n] + Len(tokens[n]) - 1 = Len(name)
      BY <1>2, <1>7
    <3>2. \A a, b, c \in Nat : a + b - 1 = c => a = c - b + 1
      OBVIOUS
    <3> QED BY <3>1, <3>2, <1>3, Zenon
  <2>2. n \in 1..n
    BY <1>3
  <2> QED BY <1>2, <2>1, <2>2
<1> QED BY <1>5, <1>6, <1>7 DEF doesSingleFilterApplyToGroup, tokens

(* Once the loop has found a token, it had found the ones before.          *)
LEMMA FoundBefore ==
  ASSUME NEW name \in Word, NEW tokens \in Tokens, FoundAt(name, tokens)[Len(tokens)] # 0
  PROVE  \A k \in 1..Len(tokens) : FoundAt(name, tokens)[k] # 0
<1> DEFINE F == FoundAt(name, tokens)
           n == Len(tokens)
<1>1. n \in Nat /\ n >= 1
  BY TokenType
<1>2. \A k \in 1..n : F[k] = IF F[k - 1] = 0 THEN 0 ELSE FirstFrom(tokens[k], name, F[k - 1])
  BY FoundSteps
<1> HIDE DEF F
<1>3. F[n] # 0
  BY DEF F
<1>4. SUFFICES ASSUME NEW k \in 1..n, F[k] = 0 PROVE FALSE
  BY DEF F
<1> DEFINE Later == {j \in k..n : F[j] # 0}
<1>5. Later \subseteq Nat /\ n \in Later
  BY <1>1, <1>3
<1>6. PICK j \in Later : \A i \in Later : j <= i
  BY <1>5, LeastNumber
<1>7. j \in k..n /\ F[j] # 0 /\ j # k
  BY <1>4, <1>6
<1>8. j - 1 \in k..n /\ j \in 1..n /\ ~(j <= j - 1)
  BY <1>1, <1>7
<1>9. F[j - 1] = 0
  BY <1>6, <1>8
<1> QED BY <1>2, <1>7, <1>8, <1>9

(* An occurrence, character by character.                                  *)
LEMMA OccursCharacters ==
  ASSUME NEW text \in Word, NEW word \in Word, NEW i \in Nat, i >= 1, OccursAt(word, text, i)
  PROVE  \A m \in 1..Len(word) : word[m] = text[i + m - 1]
<1>1. Len(text) \in Nat /\ Len(word) \in Nat /\ i + Len(word) - 1 <= Len(text)
  BY LenProperties DEF Word, OccursAt
<1>2. word = SubSeq(text, i, i + Len(word) - 1)
  BY DEF OccursAt
<1> SUFFICES ASSUME NEW m \in 1..Len(word) PROVE word[m] = text[i + m - 1]
  OBVIOUS
<1>3. SubSeq(text, i, i + Len(word) - 1)[m] = text[i + m - 1]
  <2> DEFINE k == i + Len(word) - 1
  <2>1. k \in Nat /\ k <= Len(text) /\ m \in 1..(k - i + 1) /\ text \in Seq(STRING)
    BY <1>1 DEF Word
  <2> HIDE DEF k
  <2>2. SubSeq(text, i, k)[m] = text[i + m - 1]
    BY <2>1, SubSeqProperties
  <2> QED BY <2>2 DEF k
<1> QED BY <1>2, <1>3

(* Occurrences of words without a common character do not overlap.         *)
LEMMA DistinctWordsFollow ==
  ASSUME NEW text \in Word, NEW u \in Word, NEW v \in Word, NEW i \in Nat, NEW j \in Nat,
         i >= 1, i <= j, OccursAt(u, text, i), OccursAt(v, text, j), Distinct(u, v),
         Len(v) >= 1
  PROVE  i + Len(u) <= j
<1>1. Len(u) \in Nat /\ Len(v) \in Nat
  BY LenProperties DEF Word
<1> SUFFICES ASSUME ~(i + Len(u) <= j) PROVE FALSE
  OBVIOUS
<1> DEFINE m == j - i + 1
<1>2. m \in 1..Len(u) /\ i + m - 1 = j /\ 1 \in 1..Len(v) /\ j + 1 - 1 = j
  BY <1>1
<1> HIDE DEF m
<1>3. u[m] = text[i + m - 1]
  BY <1>2, OccursCharacters
<1>4. v[1] = text[j + 1 - 1]
  BY <1>2, OccursCharacters
<1>5. u[m] = v[1]
  BY <1>2, <1>3, <1>4
<1> QED BY <1>2, <1>5 DEF Distinct

(* What is found matches, when the tokens of the pattern cannot overlap.   *)
SimplePattern(pattern) ==
  LET tokens == pattern.tokens
  IN  /\ \A n \in 1..(Len(tokens) - 1) : Distinct(tokens[n], tokens[n + 1])
      /\ Len(tokens) = 1 => pattern.openFront \/ pattern.openBack

LEMMA FoundMatches ==
  ASSUME NEW name \in Word, NEW pattern \in Pattern, SimplePattern(pattern),
         doesSingleFilterApplyToGroup(name, pattern)
  PROVE  Matches(name, pattern)
<1> DEFINE tokens == pattern.tokens
           n == Len(tokens)
           F == FoundAt(name, tokens)
           end == Len(name) - Len(tokens[n]) + 1
           at == [k \in 1..n |-> IF k = n /\ ~pattern.openBack THEN end ELSE F[k]]
<1>1. tokens \in Tokens
  BY DEF Pattern, Tokens
<1>2. /\ \A k \in 1..(n - 1) : Distinct(tokens[k], tokens[k + 1])
      /\ n = 1 => pattern.openFront \/ pattern.openBack
  BY DEF SimplePattern
<1>3. /\ ~pattern.openFront => FirstFrom(tokens[1], name, 1) = 1
      /\ F[n] # 0
      /\ ~pattern.openBack => OccursAt(tokens[n], name, end)
  BY DEF doesSingleFilterApplyToGroup
<1>4. SUFFICES /\ at \in [1..n -> 1..(Len(name) + 1)]
               /\ \A k \in 1..n : OccursAt(tokens[k], name, at[k])
               /\ \A k \in 1..(n - 1) : at[k] + Len(tokens[k]) <= at[k + 1]
               /\ ~pattern.openFront => at[1] = 1
               /\ ~pattern.openBack => at[n] + Len(tokens[n]) - 1 = Len(name)
  BY DEF Matches
<1> HIDE DEF tokens
<1>5. n \in Nat /\ n >= 1 /\ Len(name) \in Nat
  BY <1>1, TokenType, LenProperties DEF Word
<1>6. \A k \in 1..n : tokens[k] \in Word /\ Len(tokens[k]) \in Nat /\ Len(tokens[k]) >= 1
  BY <1>1, TokenType
<1>7. \A k \in 1..n : F[k] # 0
  BY <1>1, <1>3, FoundBefore
<1>8. ASSUME NEW k \in 1..n
      PROVE  /\ F[k] \in Nat /\ F[k - 1] >= 1 /\ F[k - 1] <= F[k] /\ F[k] <= Len(name)
             /\ OccursAt(tokens[k], name, F[k])
  <2>1. F[k] \in Nat
    BY <1>1, <1>5, FoundSteps
  <2> QED BY <1>1, <1>7, <2>1, FoundOccurs
<1>9. F[0] = 1
  BY <1>1, FoundSteps
<1>10. ~pattern.openFront => F[1] = 1
  <2>1. 1 \in 1..n /\ 1 - 1 = 0
    BY <1>5
  <2>2. F[1] = IF F[0] = 0 THEN 0 ELSE FirstFrom(tokens[1], name, F[0])
    BY <1>1, <2>1, FoundSteps
  <2>3. F[1] = FirstFrom(tokens[1], name, 1)
    BY <1>9, <2>2
  <2> QED BY <1>3, <2>3
<1> HIDE DEF F
<1>11. end \in Nat /\ F[n] <= end /\ end <= Len(name) /\ end + Len(tokens[n]) - 1 = Len(name)
  <2>1. n \in 1..n
    BY <1>5
  <2>2. OccursAt(tokens[n], name, F[n])
    BY <2>1, <1>8
  <2>3. F[n] + Len(tokens[n]) - 1 <= Len(name)
    BY <2>2 DEF OccursAt
  <2>4. F[n] \in Nat /\ Len(tokens[n]) \in Nat /\ Len(tokens[n]) >= 1
    BY <2>1, <1>6, <1>8
  <2>5. \A a, b, c \in Nat :
          a + b - 1 <= c /\ b >= 1
            => c - b + 1 \in Nat /\ a <= c - b + 1 /\ c - b + 1 <= c /\ (c - b + 1) + b - 1 = c
    OBVIOUS
  <2> QED BY <2>3, <2>4, <2>5, <1>5, Zenon
<1> HIDE DEF end
<1>12. \A k \in 1..n : at[k] = F[k] \/ (k = n /\ ~pattern.openBack /\ at[k] = end)
  OBVIOUS
<1>13. \A k \in 1..n : at[k] \in Nat /\ F[k] <= at[k] /\ at[k] <= Len(name)
  <2> SUFFICES ASSUME NEW k \in 1..n PROVE at[k] \in Nat /\ F[k] <= at[k] /\ at[k] <= Len(name)
    OBVIOUS
  <2>1. CASE at[k] = F[k]
    BY <2>1, <1>5, <1>8
  <2>2. CASE k = n /\ at[k] = end
    BY <2>2, <1>11
  <2> QED BY <2>1, <2>2, <1>12
<1>14. at \in [1..n -> 1..(Len(name) + 1)]
  <2>1. \A k \in 1..n : at[k] \in 1..(Len(name) + 1)
    <3> SUFFICES ASSUME NEW k \in 1..n PROVE at[k] \in 1..(Len(name) + 1)
      OBVIOUS
    <3>1. at[k] \in Nat /\ F[k] <= at[k] /\ at[k] <= Len(name)
      BY <1>13
    <3>2. F[k] \in Nat /\ F[k] # 0
      BY <1>7, <1>8
    <3> HIDE DEF at
    <3> QED BY <3>1, <3>2, <1>5
  <2>2. at = [k \in 1..n |-> at[k]]
    OBVIOUS
  <2> HIDE DEF at
  <2> QED BY <2>1, <2>2
<1>15. \A k \in 1..n : OccursAt(tokens[k], name, at[k])
  BY <1>3, <1>8, <1>12
<1>16. ASSUME NEW k \in 1..(n - 1) PROVE at[k] + Len(tokens[k]) <= at[k + 1]
  <2>1. k \in 1..n /\ k + 1 \in 1..n /\ k # n /\ (k + 1) - 1 = k
    BY <1>5
  <2>2. at[k] = F[k]
    BY <1>12, <2>1
  <2>3. F[k] + Len(tokens[k]) <= F[k + 1]
    <3>1. F[k] \in Nat /\ F[k + 1] \in Nat /\ F[k] >= 1 /\ F[k] <= F[k + 1]
          /\ OccursAt(tokens[k], name, F[k]) /\ OccursAt(tokens[k + 1], name, F[k + 1])
      <4>1. F[(k + 1) - 1] >= 1 /\ F[(k + 1) - 1] <= F[k + 1]
        BY <1>8, <2>1
      <4> QED BY <1>8, <2>1, <4>1
    <3>2. /\ tokens[k] \in Word /\ tokens[k + 1] \in Word /\ Len(tokens[k + 1]) >= 1
          /\ Distinct(tokens[k], tokens[k + 1])
      BY <1>2, <1>6, <2>1
    <3> QED BY <3>1, <3>2, DistinctWordsFollow
  <2>4. F[k + 1] <= at[k + 1] /\ F[k + 1] \in Nat /\ at[k + 1] \in Nat /\ F[k] \in Nat
        /\ Len(tokens[k]) \in Nat
    BY <1>6, <1>8, <1>13, <2>1
  <2> HIDE DEF at
  <2> QED BY <2>2, <2>3, <2>4
<1>17. ASSUME ~pattern.openFront PROVE at[1] = 1
  <2>1. 1 \in 1..n /\ ~(1 = n /\ ~pattern.openBack)
    BY <1>2, <1>5, <1>17
  <2>2. at[1] = F[1]
    BY <1>12, <2>1
  <2> QED BY <2>2, <1>10, <1>17
<1>18. ASSUME ~pattern.openBack PROVE at[n] + Len(tokens[n]) - 1 = Len(name)
  <2>1. n \in 1..n
    BY <1>5
  <2>2. at[n] = end
    BY <1>18, <2>1
  <2> QED BY <2>2, <1>11
<1> QED BY <1>14, <1>15, <1>16, <1>17, <1>18
-----------------------------------------------------------------------------
(* What the target may hold, and what it has decided.                      *)
Applies(filter) == doesFilterApplyToGroup(group, filter)
FilterInv ==
  /\ group \in Word /\ optIn \in Seq(Pattern) /\ optOut \in Seq(Pattern)
  /\ behind \in Seq(Pattern)
  /\ executed = "yes" => (optIn = << >> \/ Applies(optIn)) /\ ~(optOut # << >> /\ Applies(optOut))
  /\ executed = "no" => (optIn # << >> /\ ~Applies(optIn)) \/ (optOut # << >> /\ Applies(optOut))

LEMMA FilterInvariant == FilterSpec => []FilterInv
<1>1. FilterInit => FilterInv
  BY FilterAssumption DEF FilterInit, FilterInv
<1>2. FilterInv /\ [FilterNext]_filterVars => FilterInv'
  <2> SUFFICES ASSUME FilterInv, [FilterNext]_filterVars PROVE FilterInv'
    OBVIOUS
  <2>1. /\ group' = group /\ optIn' = optIn /\ optOut' = optOut /\ behind' = behind
    BY DEF FilterNext, shallExecuteTestGroup, filterVars
  <2>2. Applies(optIn)' = Applies(optIn) /\ Applies(optOut)' = Applies(optOut)
    BY <2>1 DEF Applies, doesFilterApplyToGroup
  <2>3. CASE shallExecuteTestGroup
    BY <2>1, <2>2, <2>3 DEF FilterInv, shallExecuteTestGroup, Applies
  <2>4. CASE UNCHANGED filterVars
    BY <2>1, <2>2, <2>4 DEF FilterInv, filterVars
  <2> QED BY <2>3, <2>4 DEF FilterNext
<1> QED BY <1>1, <1>2, PTL DEF FilterSpec

(* A filter that selects the group applies, whatever lies behind it.       *)
LEMMA SelectedApplies ==
  ASSUME FilterInv, NEW filter \in Seq(Pattern), Selected(filter)
  PROVE  filter # << >> /\ Applies(filter)
<1>1. PICK k \in 1..Len(filter) : Matches(group, filter[k])
  BY DEF Selected
<1>2. Len(filter) \in Nat /\ Len(behind) \in Nat /\ behind \in Seq(Pattern) /\ group \in Word
  BY LenProperties DEF FilterInv
<1>3. filter # << >>
  BY <1>1, <1>2, EmptySeq
<1>4. k \in 1..(Len(filter) + Len(behind)) /\ (filter \o behind)[k] = filter[k]
  BY <1>2, ConcatProperties
<1>5. filter[k] \in Pattern
  BY ElementOfSeq
<1>6. doesSingleFilterApplyToGroup(group, filter[k])
  BY <1>1, <1>2, <1>5, MatchesAreFound
<1>7. Applies(filter)
  BY <1>4, <1>6 DEF Applies, doesFilterApplyToGroup
<1> QED BY <1>3, <1>7

(* A filter that applies selects the group, when nothing lies behind it    *)
(* and its tokens cannot overlap.                                          *)
LEMMA AppliesSelected ==
  ASSUME FilterInv, NEW filter \in Seq(Pattern), Simple(filter), behind = << >>,
         Applies(filter)
  PROVE  Selected(filter)
<1>1. Len(filter) \in Nat /\ Len(behind) = 0 /\ filter \o behind = filter /\ group \in Word
  BY LenProperties, ConcatEmptySeq, EmptySeq DEF FilterInv
<1>2. PICK k \in 1..Len(filter) + Len(behind) :
        doesSingleFilterApplyToGroup(group, (filter \o behind)[k])
  BY DEF Applies, doesFilterApplyToGroup
<1>3. k \in 1..Len(filter) /\ (filter \o behind)[k] = filter[k]
  BY <1>1
<1>4. filter[k] \in Pattern
  BY <1>3, ElementOfSeq
<1>5. SimplePattern(filter[k])
  BY <1>3 DEF Simple, SimplePattern
<1>6. Matches(group, filter[k])
  BY <1>1, <1>2, <1>3, <1>4, <1>5, FoundMatches
<1> QED BY <1>3, <1>6 DEF Selected

(* A group that is opted out never runs: for every name and every list of  *)
(* patterns, and whatever strtok finds behind the copy of the filter.      *)
THEOREM OptedOutIsSkipped == FilterSpec => []OptedOutNeverRuns
<1>1. FilterInv => OptedOutNeverRuns
  <2> SUFFICES ASSUME FilterInv, executed = "yes", Selected(optOut) PROVE FALSE
    BY DEF OptedOutNeverRuns
  <2>1. optOut \in Seq(Pattern)
    BY DEF FilterInv
  <2>2. optOut # << >> /\ Applies(optOut)
    BY <2>1, SelectedApplies
  <2> QED BY <2>2 DEF FilterInv
<1> QED BY <1>1, FilterInvariant, PTL

(* A group that is opted in runs, unless something is opted out.           *)
THEOREM OptedInIsRun == FilterSpec => []OptedInRuns
<1>1. FilterInv => OptedInRuns
  <2> SUFFICES ASSUME FilterInv, executed = "no", optOut = << >>, Selected(optIn) PROVE FALSE
    BY DEF OptedInRuns
  <2>1. optIn \in Seq(Pattern)
    BY DEF FilterInv
  <2>2. optIn # << >> /\ Applies(optIn)
    BY <2>1, SelectedApplies
  <2> QED BY <2>2 DEF FilterInv
<1> QED BY <1>1, FilterInvariant, PTL

(* Filters select nothing they do not name, where no two tokens in a row   *)
(* share a character, a single token is open on one side, and nothing lies *)
(* behind the filter.                                                      *)
THEOREM OnlySelectedRun == FilterSpec => []NothingElseSelected
<1>1. FilterInv => NothingElseSelected
  <2> SUFFICES ASSUME FilterInv, behind = << >>
               PROVE  /\ executed = "yes" /\ optIn # << >> /\ Simple(optIn) => Selected(optIn)
                      /\ executed = "no" /\ optIn = << >> /\ Simple(optOut) => Selected(optOut)
    BY DEF NothingElseSelected
  <2>1. optIn \in Seq(Pattern) /\ optOut \in Seq(Pattern)
    BY DEF FilterInv
  <2>2. ASSUME executed = "yes", optIn # << >>, Simple(optIn) PROVE Selected(optIn)
    <3>1. Applies(optIn)
      BY <2>2 DEF FilterInv
    <3> QED BY <2>1, <2>2, <3>1, AppliesSelected
  <2>3. ASSUME executed = "no", optIn = << >>, Simple(optOut) PROVE Selected(optOut)
    <3>1. Applies(optOut)
      BY <2>3 DEF FilterInv
    <3> QED BY <2>1, <2>3, <3>1, AppliesSelected
  <2> QED BY <2>2, <2>3
<1> QED BY <1>1, FilterInvariant, PTL
===============================================================================
