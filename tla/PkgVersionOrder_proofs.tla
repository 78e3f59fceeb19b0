----------------------- MODULE PkgVersionOrder_proofs -----------------------
(***************************************************************************)
(* Ord::cmp is a total order on all version strings, so upgrade only ever  *)
(* rises, and the stages and revisions sort as the comment of Token says.  *)
(*                                                                         *)
(* The loop is compare_at, unfolded (FromUnfolds).  At every position of a *)
(* sequence of tokens stands a zero, which is passed over, or something    *)
(* with a key (Rank, Value), the end of the sequence included; the loop    *)
(* compares keys, so the answers about three sequences agree as the keys   *)
(* do.  Both that and what tokenize makes of a string go by induction on   *)
(* what is left, in the form of the least counterexample (Least).          *)
(***************************************************************************)
EXTENDS PkgVersionOrder, NaturalsInduction, WellFoundedInduction, TLAPS

(***************************************************************************)
(* Induction: a nonempty set of numbers has a least one.                   *)
(***************************************************************************)
Below == {p \in Nat \X Nat : p[1] < p[2]}

LEMMA BelowIsWellFounded == IsWellFoundedOn(Below, Nat)
  BY NatLessThanWellFounded, Zenon DEF OpToRel, Below

LEMMA Least ==
  ASSUME NEW T \in SUBSET Nat, T # {}
  PROVE  \E n \in T : \A m \in T : n <= m
<1>1. PICK n \in T : \A m \in T : ~(<<m, n>> \in Below)
  BY BelowIsWellFounded, WFMin, Zenon
<1>2. \A m \in T : ~(m < n)
  BY <1>1 DEF Below
<1> QED
  BY <1>2

-----------------------------------------------------------------------------
(***************************************************************************)
(* The loop.  From(l, r)[p] is what it answers from position p on.         *)
(***************************************************************************)
Left(l, r, p) == (Len(l) + 1 - p[1]) + (Len(r) + 1 - p[2])

Answers(l, r, g) == g = [p \in Positions(l, r) |-> compare_at(l, r, g, p[1], p[2])]
From(l, r)       == CHOOSE g : Answers(l, r, g)

\* A round looks at later positions only.
LEMMA RoundLooksAhead ==
  ASSUME NEW l, NEW r, Len(l) \in Nat, Len(r) \in Nat, NEW f, NEW g, NEW p \in Positions(l, r),
         \A q \in Positions(l, r) : Left(l, r, q) < Left(l, r, p) => f[q] = g[q]
  PROVE  compare_at(l, r, f, p[1], p[2]) = compare_at(l, r, g, p[1], p[2])
<1> DEFINE i == p[1]  j == p[2]
<1>1. i \in 1 .. Len(l) + 1 /\ j \in 1 .. Len(r) + 1 /\ p = <<i, j>>
  BY DEF Positions
<1>2. ASSUME i <= Len(l) PROVE f[<<i + 1, j>>] = g[<<i + 1, j>>]
  BY <1>1, <1>2 DEF Positions, Left
<1>3. ASSUME j <= Len(r) PROVE f[<<i, j + 1>>] = g[<<i, j + 1>>]
  BY <1>1, <1>3 DEF Positions, Left
<1>4. ASSUME i <= Len(l), j <= Len(r) PROVE f[<<i + 1, j + 1>>] = g[<<i + 1, j + 1>>]
  <2> DEFINE q == <<i + 1, j + 1>>
  <2>1. q \in Positions(l, r) /\ q[1] = i + 1 /\ q[2] = j + 1
    BY <1>1, <1>4 DEF Positions
  <2>2. Left(l, r, q) < Left(l, r, p)
    BY <1>1, <2>1 DEF Left
  <2> HIDE DEF q
  <2>3. f[q] = g[q]
    BY <2>1, <2>2
  <2> QED
    BY <2>3 DEF q
<1>5. CASE i > Len(l) /\ j > Len(r)
  BY <1>1, <1>5 DEF compare_at
<1>6. CASE i <= Len(l) /\ j > Len(r)
  BY <1>1, <1>2, <1>6 DEF compare_at
<1>7. CASE i > Len(l) /\ j <= Len(r)
  BY <1>1, <1>3, <1>7 DEF compare_at
<1>8. CASE i <= Len(l) /\ j <= Len(r)
  BY <1>1, <1>2, <1>3, <1>4, <1>8 DEF compare_at
<1> QED
  BY <1>1, <1>5, <1>6, <1>7, <1>8

\* A function that answers as the loop does from every position with at most n to go.
AnswersUpTo(l, r, g, n) ==
    \A p \in Positions(l, r) : Left(l, r, p) <= n => g[p] = compare_at(l, r, g, p[1], p[2])

LEMMA OneMoreAnswer ==
  ASSUME NEW l, NEW r, Len(l) \in Nat, Len(r) \in Nat, NEW n \in Nat, NEW g, AnswersUpTo(l, r, g, n)
  PROVE  \E f : AnswersUpTo(l, r, f, n + 1)
<1> DEFINE f == [p \in Positions(l, r) |-> compare_at(l, r, g, p[1], p[2])]
<1>0. \A p \in Positions(l, r) : f[p] = compare_at(l, r, g, p[1], p[2])
  OBVIOUS
<1> HIDE DEF f
<1>1. \A p \in Positions(l, r) : Left(l, r, p) <= n => f[p] = g[p]
  BY <1>0 DEF AnswersUpTo
<1>2. ASSUME NEW p \in Positions(l, r), Left(l, r, p) <= n + 1
      PROVE  f[p] = compare_at(l, r, f, p[1], p[2])
  <2>1. \A q \in Positions(l, r) : Left(l, r, q) \in Int
    BY DEF Left, Positions
  <2>2. \A q \in Positions(l, r) : Left(l, r, q) < Left(l, r, p) => f[q] = g[q]
    BY <1>1, <1>2, <2>1
  <2>3. compare_at(l, r, f, p[1], p[2]) = compare_at(l, r, g, p[1], p[2])
    BY <2>2, RoundLooksAhead
  <2> QED
    BY <1>0, <2>3
<1> QED
  BY <1>2 DEF AnswersUpTo

LEMMA SomeAnswers ==
  ASSUME NEW l, NEW r, Len(l) \in Nat, Len(r) \in Nat
  PROVE  \E g : Answers(l, r, g)
<1> DEFINE T == {n \in Nat : ~\E g : AnswersUpTo(l, r, g, n)}
<1>1. T = {}
  <2> SUFFICES ASSUME T # {} PROVE FALSE
    OBVIOUS
  <2>1. PICK n \in T : \A m \in T : n <= m
    BY Least
  <2>2. CASE n = 0
    <3> DEFINE z == [p \in Positions(l, r) |-> 0]
    <3>1. \A p \in Positions(l, r) : z[p] = 0
      OBVIOUS
    <3> HIDE DEF z
    <3>2. ASSUME NEW p \in Positions(l, r), Left(l, r, p) <= 0 PROVE z[p] = compare_at(l, r, z, p[1], p[2])
      <4>1. p[1] > Len(l) /\ p[2] > Len(r)
        BY <3>2 DEF Left, Positions
      <4>2. compare_at(l, r, z, p[1], p[2]) = 0
        BY <4>1 DEF compare_at, Positions
      <4> QED
        BY <3>1, <4>2
    <3>3. AnswersUpTo(l, r, z, 0)
      BY <3>2 DEF AnswersUpTo
    <3> QED
      BY <2>1, <2>2, <3>3
  <2>3. CASE n # 0
    <3>1. n - 1 \in Nat /\ n - 1 \notin T
      BY <2>1, <2>3
    <3>2. PICK g : AnswersUpTo(l, r, g, n - 1)
      BY <3>1
    <3>3. \E f : AnswersUpTo(l, r, f, (n - 1) + 1)
      BY <3>1, <3>2, OneMoreAnswer
    <3>4. (n - 1) + 1 = n
      BY <2>1
    <3> QED
      BY <2>1, <3>3, <3>4
  <2> QED
    BY <2>2, <2>3
<1>2. Len(l) + Len(r) \in Nat
  OBVIOUS
<1>3. PICK g : AnswersUpTo(l, r, g, Len(l) + Len(r))
  BY <1>1, <1>2
<1> DEFINE f == [p \in Positions(l, r) |-> compare_at(l, r, g, p[1], p[2])]
<1>4. \A p \in Positions(l, r) : f[p] = g[p]
  <2>1. \A p \in Positions(l, r) : Left(l, r, p) <= Len(l) + Len(r)
    BY DEF Left, Positions
  <2> QED
    BY <1>3, <2>1 DEF AnswersUpTo
<1>5. \A p \in Positions(l, r) : compare_at(l, r, f, p[1], p[2]) = compare_at(l, r, g, p[1], p[2])
  <2> HIDE DEF f
  <2> QED
    BY <1>4, RoundLooksAhead
<1>6. f = [p \in Positions(l, r) |-> compare_at(l, r, f, p[1], p[2])]
  <2> DEFINE h == [p \in Positions(l, r) |-> compare_at(l, r, f, p[1], p[2])]
  <2>1. f = h
    BY <1>5, Zenon
  <2> QED
    BY <2>1
<1> QED
  BY <1>6, Zenon DEF Answers

LEMMA FromUnfolds ==
  ASSUME NEW l, NEW r, Len(l) \in Nat, Len(r) \in Nat
  PROVE  /\ cmp(l, r) = From(l, r)[<<1, 1>>]
         /\ \A p \in Positions(l, r) : From(l, r)[p] = compare_at(l, r, From(l, r), p[1], p[2])
<1>1. Answers(l, r, From(l, r))
  BY SomeAnswers, Zenon DEF From
<1>2. cmp(l, r) = From(l, r)[<<1, 1>>]
  BY Zenon DEF cmp, From, Answers
<1> DEFINE g == From(l, r)
<1>3. g = [p \in Positions(l, r) |-> compare_at(l, r, g, p[1], p[2])]
  BY <1>1, Zenon DEF Answers
<1> HIDE DEF g
<1>4. \A p \in Positions(l, r) : g[p] = compare_at(l, r, g, p[1], p[2])
  BY <1>3, Zenon
<1> QED
  BY <1>2, <1>4 DEF g

-----------------------------------------------------------------------------
(***************************************************************************)
(* Tokens: the order of cmp_tokens is that of the rank of the stage, then  *)
(* that of the number or word.                                             *)
(***************************************************************************)
Stages == {"alpha", "beta", "pre", "rc", "numeric", "patch", "post", "text"}
Tokens == {t \in [stage : Stages, rev : Nat, word : {"none"} \union DOMAIN WordRank] :
              t.stage = "text" => t.word \in DOMAIN WordRank}

RankOf(t)  == stage_rank[t.stage]
ValueOf(t) == IF t.stage = "text" THEN WordRank[t.word] ELSE t.rev

LEMMA Ranks ==
  /\ stage_rank["alpha"] = 0 /\ stage_rank["beta"] = 1 /\ stage_rank["pre"] = 2 /\ stage_rank["rc"] = 3
  /\ stage_rank["numeric"] = 4 /\ stage_rank["patch"] = 5 /\ stage_rank["post"] = 6 /\ stage_rank["text"] = 7
  BY DEF stage_rank

LEMMA TokenFacts ==
  ASSUME NEW t \in Tokens
  PROVE  /\ RankOf(t) \in 0 .. 7 /\ ValueOf(t) \in Int
         /\ RankOf(t) = 4 <=> Numeric(t)
         /\ Numeric(t) => ValueOf(t) = t.rev /\ t.rev \in Nat
<1>1. t.stage \in Stages /\ t.rev \in Nat /\ (t.stage = "text" => t.word \in DOMAIN WordRank)
  BY DEF Tokens
<1>2. RankOf(t) \in 0 .. 7 /\ (RankOf(t) = 4 <=> t.stage = "numeric")
  BY <1>1, Ranks DEF Stages, RankOf
<1>3. ValueOf(t) \in Int
  BY <1>1, WordAssumption DEF ValueOf
<1> QED
  BY <1>1, <1>2, <1>3 DEF Numeric, ValueOf

LEMMA SameStage ==
  ASSUME NEW t \in Tokens, NEW u \in Tokens
  PROVE  t.stage = u.stage <=> RankOf(t) = RankOf(u)
<1>1. t.stage \in Stages /\ u.stage \in Stages
  BY DEF Tokens
<1> QED
  BY <1>1, Ranks DEF Stages, RankOf

LEMMA CmpTokens ==
  ASSUME NEW t \in Tokens, NEW u \in Tokens
  PROVE  cmp_tokens(t, u) = IF RankOf(t) # RankOf(u) THEN Sign(RankOf(t) - RankOf(u))
                            ELSE Sign(ValueOf(t) - ValueOf(u))
<1>1. CASE t.stage # u.stage
  BY <1>1, SameStage DEF cmp_tokens, RankOf
<1>2. CASE t.stage = u.stage
  BY <1>2, SameStage DEF cmp_tokens, ValueOf
<1> QED
  BY <1>1, <1>2

LEMMA CmpNull ==
  ASSUME NEW t \in Tokens
  PROVE  cmp_token_vs_null(t) = IF Numeric(t) THEN Sign(t.rev) ELSE Sign(RankOf(t) - 4)
  BY DEF cmp_token_vs_null, Numeric, RankOf, NULL_RANK

-----------------------------------------------------------------------------
(***************************************************************************)
(* What stands at a position: a zero, or something with a key.             *)
(***************************************************************************)
Places(s)      == 1 .. Len(s) + 1
Over(s, i)     == i > Len(s)
Zero(s, i)     == i <= Len(s) /\ Numeric(s[i]) /\ s[i].rev = 0
Positive(s, i) == i <= Len(s) /\ Numeric(s[i]) /\ s[i].rev # 0
After(s, i)    == IF Zero(s, i) THEN i + 1 ELSE i

\* The end sorts as nothing, and a number before every word.
Rank(s, i)  == IF Over(s, i) THEN 4 ELSE IF Numeric(s[i]) THEN 8 ELSE RankOf(s[i])
Value(s, i) == IF Over(s, i) THEN 0 ELSE ValueOf(s[i])
KeyOrder(l, i, r, j) ==
    IF Rank(l, i) # Rank(r, j) THEN Sign(Rank(l, i) - Rank(r, j)) ELSE Sign(Value(l, i) - Value(r, j))

LEMMA PlaceFacts ==
  ASSUME NEW s \in Seq(Tokens), NEW i \in Places(s)
  PROVE  /\ i \in Nat /\ Len(s) \in Nat
         /\ Rank(s, i) \in 0 .. 8 /\ Value(s, i) \in Int
         /\ Over(s, i) <=> Rank(s, i) = 4
         /\ Zero(s, i) \/ Positive(s, i) <=> Rank(s, i) = 8
         /\ Zero(s, i) => ~Positive(s, i)
         /\ Positive(s, i) => Value(s, i) > 0
         /\ Zero(s, i) => i + 1 \in Places(s)
         /\ ~Over(s, i) => i + 1 \in Places(s) /\ s[i] \in Tokens /\ i <= Len(s)
<1>1. Len(s) \in Nat /\ i \in 1 .. Len(s) + 1 /\ i \in Nat
  BY DEF Places
<1>2. CASE Over(s, i)
  BY <1>1, <1>2 DEF Over, Zero, Positive, Rank, Value, Places
<1>3. CASE ~Over(s, i)
  <2>1. i \in 1 .. Len(s) /\ s[i] \in Tokens
    BY <1>1, <1>3 DEF Over
  <2>2. /\ RankOf(s[i]) \in 0 .. 7 /\ ValueOf(s[i]) \in Int
        /\ RankOf(s[i]) = 4 <=> Numeric(s[i])
        /\ Numeric(s[i]) => ValueOf(s[i]) = s[i].rev /\ s[i].rev \in Nat
    BY <2>1, TokenFacts
  <2>3. Rank(s, i) = (IF Numeric(s[i]) THEN 8 ELSE RankOf(s[i])) /\ Value(s, i) = ValueOf(s[i])
    BY <1>3 DEF Rank, Value
  <2> QED
    BY <1>1, <1>3, <2>1, <2>2, <2>3 DEF Zero, Positive, Over, Places
<1> QED
  BY <1>2, <1>3

\* A round at i and j, in the terms of the tokens.
LEMMA Round ==
  ASSUME NEW l \in Seq(Tokens), NEW r \in Seq(Tokens), NEW i \in Places(l), NEW j \in Places(r)
  PROVE  /\ <<i, j>> \in Positions(l, r)
         /\ From(l, r)[<<i, j>>] = compare_at(l, r, From(l, r), i, j)
<1>1. Len(l) \in Nat /\ Len(r) \in Nat
  OBVIOUS
<1>2. <<i, j>> \in Positions(l, r)
  BY DEF Places, Positions
<1>3. From(l, r)[<<i, j>>] = compare_at(l, r, From(l, r), <<i, j>>[1], <<i, j>>[2])
  BY <1>1, <1>2, FromUnfolds
<1> QED
  BY <1>2, <1>3

\* The four kinds of round.
OnlyLeft(l, f, i, j)  == IF cmp_token_vs_null(l[i]) # 0 THEN cmp_token_vs_null(l[i]) ELSE f[<<i + 1, j>>]
OnlyRight(r, f, i, j) == IF cmp_token_vs_null(r[j]) # 0 THEN -cmp_token_vs_null(r[j]) ELSE f[<<i, j + 1>>]
TwoTokens(l, r, f, i, j) ==
    IF Numeric(l[i]) = Numeric(r[j])
    THEN IF cmp_tokens(l[i], r[j]) # 0 THEN cmp_tokens(l[i], r[j]) ELSE f[<<i + 1, j + 1>>]
    ELSE IF Numeric(l[i])
    THEN IF cmp_token_vs_null(l[i]) = 1 THEN 1 ELSE f[<<i + 1, j>>]
    ELSE IF cmp_token_vs_null(r[j]) = 1 THEN -1 ELSE f[<<i, j + 1>>]

LEMMA RoundKinds ==
  ASSUME NEW l, NEW r, NEW f, NEW i \in Nat, NEW j \in Nat, Len(l) \in Nat, Len(r) \in Nat
  PROVE  /\ Over(l, i) /\ Over(r, j)   => compare_at(l, r, f, i, j) = 0
         /\ ~Over(l, i) /\ Over(r, j)  => compare_at(l, r, f, i, j) = OnlyLeft(l, f, i, j)
         /\ Over(l, i) /\ ~Over(r, j)  => compare_at(l, r, f, i, j) = OnlyRight(r, f, i, j)
         /\ ~Over(l, i) /\ ~Over(r, j) => compare_at(l, r, f, i, j) = TwoTokens(l, r, f, i, j)
<1>1. CASE Over(l, i) /\ Over(r, j)
  BY <1>1 DEF compare_at, Over
<1>2. CASE ~Over(l, i) /\ Over(r, j)
  BY <1>2 DEF compare_at, Over, OnlyLeft
<1>3. CASE Over(l, i) /\ ~Over(r, j)
  BY <1>3 DEF compare_at, Over, OnlyRight
<1>4. CASE ~Over(l, i) /\ ~Over(r, j)
  <2>1. i <= Len(l) /\ j <= Len(r) /\ ~(i > Len(l)) /\ ~(j > Len(r))
    BY <1>4 DEF Over
  <2>2. CASE Numeric(l[i]) /\ Numeric(r[j])
    BY <1>4, <2>1, <2>2 DEF compare_at, Numeric, TwoTokens
  <2>3. CASE Numeric(l[i]) /\ ~Numeric(r[j])
    BY <1>4, <2>1, <2>3 DEF compare_at, Numeric, TwoTokens
  <2>4. CASE ~Numeric(l[i]) /\ Numeric(r[j])
    BY <1>4, <2>1, <2>4 DEF compare_at, Numeric, TwoTokens
  <2>5. CASE ~Numeric(l[i]) /\ ~Numeric(r[j])
    BY <1>4, <2>1, <2>5 DEF compare_at, Numeric, TwoTokens
  <2> QED
    BY <2>2, <2>3, <2>4, <2>5
<1> QED
  BY <1>1, <1>2, <1>3, <1>4

\* What the loop says at a place.
LEMMA Rounds ==
  ASSUME NEW l \in Seq(Tokens), NEW r \in Seq(Tokens), NEW i \in Places(l), NEW j \in Places(r)
  PROVE  LET F == From(l, r) IN
         /\ Over(l, i) /\ Over(r, j)   => F[<<i, j>>] = 0
         /\ ~Over(l, i) /\ Over(r, j)  => F[<<i, j>>] = OnlyLeft(l, F, i, j)
         /\ Over(l, i) /\ ~Over(r, j)  => F[<<i, j>>] = OnlyRight(r, F, i, j)
         /\ ~Over(l, i) /\ ~Over(r, j) => F[<<i, j>>] = TwoTokens(l, r, F, i, j)
<1> DEFINE F == From(l, r)
<1>1. F[<<i, j>>] = compare_at(l, r, F, i, j)
  BY Round
<1>2. i \in Nat /\ j \in Nat /\ Len(l) \in Nat /\ Len(r) \in Nat
  BY PlaceFacts
<1>3. /\ Over(l, i) /\ Over(r, j)   => compare_at(l, r, F, i, j) = 0
      /\ ~Over(l, i) /\ Over(r, j)  => compare_at(l, r, F, i, j) = OnlyLeft(l, F, i, j)
      /\ Over(l, i) /\ ~Over(r, j)  => compare_at(l, r, F, i, j) = OnlyRight(r, F, i, j)
      /\ ~Over(l, i) /\ ~Over(r, j) => compare_at(l, r, F, i, j) = TwoTokens(l, r, F, i, j)
  <2> HIDE DEF F
  <2> QED
    BY <1>2, RoundKinds
<1> QED
  BY <1>1, <1>3

\* A token against nothing: its key against that of the end.
TokenRank(t) == IF Numeric(t) THEN 8 ELSE RankOf(t)

LEMMA NullKey ==
  ASSUME NEW t \in Tokens, ~(Numeric(t) /\ t.rev = 0)
  PROVE  /\ TokenRank(t) \in 0 .. 8 /\ TokenRank(t) # 4
         /\ Sign(TokenRank(t) - 4) # 0 /\ Sign(TokenRank(t) - 4) \in Int
         /\ cmp_token_vs_null(t) = Sign(TokenRank(t) - 4)
         /\ -cmp_token_vs_null(t) = Sign(4 - TokenRank(t))
         /\ Numeric(t) => cmp_token_vs_null(t) = 1
<1>1. /\ RankOf(t) \in 0 .. 7 /\ (RankOf(t) = 4 <=> Numeric(t))
      /\ (Numeric(t) => t.rev \in Nat)
  BY TokenFacts
<1>2. cmp_token_vs_null(t) = IF Numeric(t) THEN Sign(t.rev) ELSE Sign(RankOf(t) - 4)
  BY CmpNull
<1>3. CASE Numeric(t)
  <2>1. TokenRank(t) = 8 /\ t.rev > 0
    BY <1>1, <1>3 DEF TokenRank
  <2>2. Sign(t.rev) = 1 /\ Sign(8 - 4) = 1 /\ Sign(4 - 8) = -1
    BY <2>1, <1>1, <1>3 DEF Sign
  <2> QED
    BY <1>2, <1>3, <2>1, <2>2
<1>4. CASE ~Numeric(t)
  <2>1. TokenRank(t) = RankOf(t)
    BY <1>4 DEF TokenRank
  <2>2. TokenRank(t) \in 0 .. 7 /\ TokenRank(t) # 4 /\ cmp_token_vs_null(t) = Sign(TokenRank(t) - 4)
    BY <1>1, <1>2, <1>4, <2>1
  <2>3. \A k \in 0 .. 7 : k # 4 => Sign(k - 4) # 0 /\ Sign(k - 4) \in Int /\ -Sign(k - 4) = Sign(4 - k)
    BY DEF Sign
  <2> QED
    BY <1>4, <2>2, <2>3
<1> QED
  BY <1>3, <1>4

\* Neither side is at a zero: the keys decide, and if they do not both go on or are over.
LEMMA KeysDecide ==
  ASSUME NEW l \in Seq(Tokens), NEW r \in Seq(Tokens), NEW i \in Places(l), NEW j \in Places(r),
         ~Zero(l, i), ~Zero(r, j)
  PROVE  From(l, r)[<<i, j>>] = IF KeyOrder(l, i, r, j) # 0 THEN KeyOrder(l, i, r, j)
                                ELSE IF Over(l, i) THEN 0 ELSE From(l, r)[<<i + 1, j + 1>>]
<1> DEFINE F == From(l, r)
<1>1. /\ Over(l, i) /\ Over(r, j)   => F[<<i, j>>] = 0
      /\ ~Over(l, i) /\ Over(r, j)  => F[<<i, j>>] = OnlyLeft(l, F, i, j)
      /\ Over(l, i) /\ ~Over(r, j)  => F[<<i, j>>] = OnlyRight(r, F, i, j)
      /\ ~Over(l, i) /\ ~Over(r, j) => F[<<i, j>>] = TwoTokens(l, r, F, i, j)
  BY Rounds
<1> SUFFICES F[<<i, j>>] = IF KeyOrder(l, i, r, j) # 0 THEN KeyOrder(l, i, r, j)
                           ELSE IF Over(l, i) THEN 0 ELSE F[<<i + 1, j + 1>>]
  OBVIOUS
<1> HIDE DEF F
<1>2. CASE Over(l, i) /\ Over(r, j)
  <2>1. KeyOrder(l, i, r, j) = 0
    BY <1>2 DEF KeyOrder, Rank, Value, Sign
  <2> QED
    BY <1>1, <1>2, <2>1
<1>3. CASE ~Over(l, i) /\ Over(r, j)
  <2>1. l[i] \in Tokens /\ i <= Len(l)
    BY <1>3, PlaceFacts
  <2>2. ~(Numeric(l[i]) /\ l[i].rev = 0)
    BY <2>1 DEF Zero
  <2>3. Rank(l, i) = TokenRank(l[i]) /\ Rank(r, j) = 4
    BY <1>3 DEF Rank, TokenRank
  <2>4. /\ TokenRank(l[i]) # 4
        /\ cmp_token_vs_null(l[i]) = Sign(TokenRank(l[i]) - 4) /\ Sign(TokenRank(l[i]) - 4) # 0
    BY <2>1, <2>2, NullKey
  <2>5. KeyOrder(l, i, r, j) = cmp_token_vs_null(l[i]) /\ cmp_token_vs_null(l[i]) # 0
    BY <2>3, <2>4 DEF KeyOrder
  <2>6. F[<<i, j>>] = cmp_token_vs_null(l[i])
    BY <1>1, <1>3, <2>5 DEF OnlyLeft
  <2> QED
    BY <2>5, <2>6
<1>4. CASE Over(l, i) /\ ~Over(r, j)
  <2>1. r[j] \in Tokens /\ j <= Len(r)
    BY <1>4, PlaceFacts
  <2>2. ~(Numeric(r[j]) /\ r[j].rev = 0)
    BY <2>1 DEF Zero
  <2>3. Rank(r, j) = TokenRank(r[j]) /\ Rank(l, i) = 4
    BY <1>4 DEF Rank, TokenRank
  <2>4. /\ TokenRank(r[j]) # 4
        /\ -cmp_token_vs_null(r[j]) = Sign(4 - TokenRank(r[j]))
        /\ cmp_token_vs_null(r[j]) \in Int /\ cmp_token_vs_null(r[j]) # 0
    BY <2>1, <2>2, NullKey
  <2>5. KeyOrder(l, i, r, j) = -cmp_token_vs_null(r[j]) /\ -cmp_token_vs_null(r[j]) # 0
    BY <2>3, <2>4 DEF KeyOrder
  <2>6. F[<<i, j>>] = -cmp_token_vs_null(r[j])
    BY <1>1, <1>4, <2>4 DEF OnlyRight
  <2> QED
    BY <2>5, <2>6
<1>5. CASE ~Over(l, i) /\ ~Over(r, j)
  <2>1. l[i] \in Tokens /\ i <= Len(l) /\ r[j] \in Tokens /\ j <= Len(r)
    BY <1>5, PlaceFacts
  <2>2. /\ RankOf(l[i]) \in 0 .. 7 /\ (RankOf(l[i]) = 4 <=> Numeric(l[i])) /\ ValueOf(l[i]) \in Int
        /\ (Numeric(l[i]) => l[i].rev \in Nat /\ l[i].rev # 0)
    BY <2>1, TokenFacts DEF Zero
  <2>3. /\ RankOf(r[j]) \in 0 .. 7 /\ (RankOf(r[j]) = 4 <=> Numeric(r[j])) /\ ValueOf(r[j]) \in Int
        /\ (Numeric(r[j]) => r[j].rev \in Nat /\ r[j].rev # 0)
    BY <2>1, TokenFacts DEF Zero
  <2>4. /\ Rank(l, i) = IF Numeric(l[i]) THEN 8 ELSE RankOf(l[i])
        /\ Rank(r, j) = IF Numeric(r[j]) THEN 8 ELSE RankOf(r[j])
        /\ Value(l, i) = ValueOf(l[i]) /\ Value(r, j) = ValueOf(r[j])
    BY <1>5 DEF Rank, Value
  <2>5. F[<<i, j>>] = TwoTokens(l, r, F, i, j)
    BY <1>1, <1>5
  <2>6. CASE (Numeric(l[i]) /\ Numeric(r[j])) \/ (~Numeric(l[i]) /\ ~Numeric(r[j]))
    <3>1. cmp_tokens(l[i], r[j]) = IF RankOf(l[i]) # RankOf(r[j]) THEN Sign(RankOf(l[i]) - RankOf(r[j]))
                                   ELSE Sign(ValueOf(l[i]) - ValueOf(r[j]))
      BY <2>1, CmpTokens
    <3>2. cmp_tokens(l[i], r[j]) = KeyOrder(l, i, r, j)
      BY <2>2, <2>3, <2>4, <2>6, <3>1 DEF KeyOrder
    <3>3. Numeric(l[i]) = Numeric(r[j])
      BY <2>6 DEF Numeric
    <3>4. F[<<i, j>>] = IF cmp_tokens(l[i], r[j]) # 0 THEN cmp_tokens(l[i], r[j]) ELSE F[<<i + 1, j + 1>>]
      BY <2>5, <3>3, Zenon DEF TwoTokens
    <3> QED
      BY <1>5, <3>2, <3>4
  <2>7. CASE Numeric(l[i]) /\ ~Numeric(r[j])
    <3>1. cmp_token_vs_null(l[i]) = 1
      BY <2>1, <2>2, <2>7, CmpNull DEF Sign
    <3>2. Rank(l, i) = 8 /\ Rank(r, j) \in 0 .. 7
      BY <2>3, <2>4, <2>7
    <3>3. KeyOrder(l, i, r, j) = 1
      BY <3>2 DEF KeyOrder, Sign
    <3>4. F[<<i, j>>] = 1
      BY <2>5, <2>7, <3>1 DEF TwoTokens, Numeric
    <3> QED
      BY <3>3, <3>4
  <2>8. CASE ~Numeric(l[i]) /\ Numeric(r[j])
    <3>1. cmp_token_vs_null(r[j]) = 1
      BY <2>1, <2>3, <2>8, CmpNull DEF Sign
    <3>2. Rank(l, i) \in 0 .. 7 /\ Rank(r, j) = 8
      BY <2>2, <2>4, <2>8
    <3>3. KeyOrder(l, i, r, j) = -1
      BY <3>2 DEF KeyOrder, Sign
    <3>4. F[<<i, j>>] = -1
      BY <2>5, <2>8, <3>1 DEF TwoTokens, Numeric
    <3> QED
      BY <3>3, <3>4
  <2> QED
    BY <2>6, <2>7, <2>8
<1> QED
  BY <1>2, <1>3, <1>4, <1>5

\* A number that is not 0 on one side only decides.
LEMMA PositiveDecides ==
  ASSUME NEW l \in Seq(Tokens), NEW r \in Seq(Tokens), NEW i \in Places(l), NEW j \in Places(r)
  PROVE  /\ Positive(l, i) /\ ~Positive(r, j) => From(l, r)[<<i, j>>] = 1
         /\ ~Positive(l, i) /\ Positive(r, j) => From(l, r)[<<i, j>>] = -1
<1> DEFINE F == From(l, r)
<1>1. /\ Over(l, i) /\ Over(r, j)   => F[<<i, j>>] = 0
      /\ ~Over(l, i) /\ Over(r, j)  => F[<<i, j>>] = OnlyLeft(l, F, i, j)
      /\ Over(l, i) /\ ~Over(r, j)  => F[<<i, j>>] = OnlyRight(r, F, i, j)
      /\ ~Over(l, i) /\ ~Over(r, j) => F[<<i, j>>] = TwoTokens(l, r, F, i, j)
  BY Rounds
<1> SUFFICES /\ Positive(l, i) /\ ~Positive(r, j) => F[<<i, j>>] = 1
             /\ ~Positive(l, i) /\ Positive(r, j) => F[<<i, j>>] = -1
  OBVIOUS
<1> HIDE DEF F
<1>2. ASSUME NEW s \in Seq(Tokens), NEW k \in Places(s), Positive(s, k)
      PROVE  /\ ~Over(s, k) /\ s[k] \in Tokens /\ Numeric(s[k]) /\ cmp_token_vs_null(s[k]) = 1
             /\ ValueOf(s[k]) > 0 /\ ValueOf(s[k]) \in Int
  <2>1. k <= Len(s) /\ Numeric(s[k]) /\ s[k].rev # 0
    BY <1>2 DEF Positive
  <2>2. ~Over(s, k) /\ s[k] \in Tokens
    BY <2>1, PlaceFacts DEF Over
  <2> QED
    BY <2>1, <2>2, NullKey, TokenFacts
<1>3. ASSUME NEW s \in Seq(Tokens), NEW k \in Places(s), ~Positive(s, k), ~Over(s, k), Numeric(s[k])
      PROVE  s[k] \in Tokens /\ ValueOf(s[k]) = 0
  <2>1. s[k] \in Tokens /\ k <= Len(s)
    BY <1>3, PlaceFacts
  <2> QED
    BY <1>3, <2>1, TokenFacts DEF Positive
<1>4. ASSUME NEW t \in Tokens, NEW u \in Tokens, Numeric(t), Numeric(u)
      PROVE  cmp_tokens(t, u) = Sign(ValueOf(t) - ValueOf(u)) /\ Numeric(t) = Numeric(u)
  <2>1. RankOf(t) = 4 /\ RankOf(u) = 4
    BY <1>4, TokenFacts
  <2> QED
    BY <1>4, <2>1, CmpTokens DEF Numeric
<1>5. CASE Positive(l, i) /\ ~Positive(r, j)
  <2>1. /\ ~Over(l, i) /\ l[i] \in Tokens /\ Numeric(l[i]) /\ cmp_token_vs_null(l[i]) = 1
        /\ ValueOf(l[i]) > 0 /\ ValueOf(l[i]) \in Int
    BY <1>2, <1>5
  <2>2. CASE Over(r, j)
    <3>1. F[<<i, j>>] = OnlyLeft(l, F, i, j)
      BY <1>1, <2>1, <2>2
    <3> QED
      BY <1>5, <2>1, <3>1 DEF OnlyLeft
  <2>3. CASE ~Over(r, j)
    <3>1. F[<<i, j>>] = TwoTokens(l, r, F, i, j)
      BY <1>1, <2>1, <2>3
    <3>2. CASE Numeric(r[j])
      <4>1. r[j] \in Tokens /\ ValueOf(r[j]) = 0
        BY <1>3, <1>5, <2>3, <3>2
      <4>2. cmp_tokens(l[i], r[j]) = Sign(ValueOf(l[i]) - ValueOf(r[j])) /\ Numeric(l[i]) = Numeric(r[j])
        BY <1>4, <2>1, <3>2, <4>1
      <4>3. cmp_tokens(l[i], r[j]) = 1
        BY <2>1, <4>1, <4>2 DEF Sign
      <4>4. F[<<i, j>>] = IF cmp_tokens(l[i], r[j]) # 0 THEN cmp_tokens(l[i], r[j])
                          ELSE F[<<i + 1, j + 1>>]
        BY <3>1, <4>2, Zenon DEF TwoTokens
      <4> QED
        BY <1>5, <4>3, <4>4
    <3>3. CASE ~Numeric(r[j])
      <4>1. F[<<i, j>>] = 1
        BY <2>1, <3>1, <3>3 DEF TwoTokens, Numeric
      <4> QED
        BY <1>5, <4>1
    <3> QED
      BY <3>2, <3>3
  <2> QED
    BY <2>2, <2>3
<1>6. CASE ~Positive(l, i) /\ Positive(r, j)
  <2>1. /\ ~Over(r, j) /\ r[j] \in Tokens /\ Numeric(r[j]) /\ cmp_token_vs_null(r[j]) = 1
        /\ ValueOf(r[j]) > 0 /\ ValueOf(r[j]) \in Int
    BY <1>2, <1>6
  <2>2. CASE Over(l, i)
    <3>1. F[<<i, j>>] = OnlyRight(r, F, i, j)
      BY <1>1, <2>1, <2>2
    <3> QED
      BY <1>6, <2>1, <3>1 DEF OnlyRight
  <2>3. CASE ~Over(l, i)
    <3>1. F[<<i, j>>] = TwoTokens(l, r, F, i, j)
      BY <1>1, <2>1, <2>3
    <3>2. CASE Numeric(l[i])
      <4>1. l[i] \in Tokens /\ ValueOf(l[i]) = 0
        BY <1>3, <1>6, <2>3, <3>2
      <4>2. cmp_tokens(l[i], r[j]) = Sign(ValueOf(l[i]) - ValueOf(r[j])) /\ Numeric(l[i]) = Numeric(r[j])
        BY <1>4, <2>1, <3>2, <4>1
      <4>3. cmp_tokens(l[i], r[j]) = -1
        BY <2>1, <4>1, <4>2 DEF Sign
      <4>4. F[<<i, j>>] = IF cmp_tokens(l[i], r[j]) # 0 THEN cmp_tokens(l[i], r[j])
                          ELSE F[<<i + 1, j + 1>>]
        BY <3>1, <4>2, Zenon DEF TwoTokens
      <4> QED
        BY <1>6, <4>3, <4>4
    <3>3. CASE ~Numeric(l[i])
      <4>1. F[<<i, j>>] = -1
        BY <2>1, <3>1, <3>3 DEF TwoTokens, Numeric
      <4> QED
        BY <1>6, <4>1
    <3> QED
      BY <3>2, <3>3
  <2> QED
    BY <2>2, <2>3
<1> QED
  BY <1>5, <1>6

\* Without a number that is not 0 on either side, the zeros are passed over.
LEMMA ZerosPass ==
  ASSUME NEW l \in Seq(Tokens), NEW r \in Seq(Tokens), NEW i \in Places(l), NEW j \in Places(r),
         ~Positive(l, i), ~Positive(r, j)
  PROVE  /\ From(l, r)[<<i, j>>] = From(l, r)[<<After(l, i), After(r, j)>>]
         /\ After(l, i) \in Places(l) /\ After(r, j) \in Places(r)
<1> DEFINE F == From(l, r)
<1>1. /\ Over(l, i) /\ Over(r, j)   => F[<<i, j>>] = 0
      /\ ~Over(l, i) /\ Over(r, j)  => F[<<i, j>>] = OnlyLeft(l, F, i, j)
      /\ Over(l, i) /\ ~Over(r, j)  => F[<<i, j>>] = OnlyRight(r, F, i, j)
      /\ ~Over(l, i) /\ ~Over(r, j) => F[<<i, j>>] = TwoTokens(l, r, F, i, j)
  BY Rounds
<1> SUFFICES F[<<i, j>>] = F[<<After(l, i), After(r, j)>>]
  BY PlaceFacts DEF After
<1> HIDE DEF F
<1>2. ASSUME NEW s \in Seq(Tokens), NEW k \in Places(s), Zero(s, k)
      PROVE  /\ ~Over(s, k) /\ s[k] \in Tokens /\ Numeric(s[k]) /\ After(s, k) = k + 1
             /\ cmp_token_vs_null(s[k]) = 0 /\ RankOf(s[k]) = 4 /\ ValueOf(s[k]) = 0
  <2>1. k <= Len(s) /\ Numeric(s[k]) /\ s[k].rev = 0
    BY <1>2 DEF Zero
  <2>2. ~Over(s, k) /\ s[k] \in Tokens
    BY <2>1, PlaceFacts DEF Over
  <2>3. cmp_token_vs_null(s[k]) = 0
    BY <2>1, <2>2, CmpNull DEF Sign
  <2> QED
    BY <1>2, <2>1, <2>2, <2>3, TokenFacts DEF After
<1>3. ASSUME NEW s, NEW k \in Places(s), Len(s) \in Nat, ~Zero(s, k), ~Positive(s, k), ~Over(s, k)
      PROVE  ~Numeric(s[k]) /\ After(s, k) = k
  BY <1>3 DEF Zero, Positive, After, Over, Places
<1>4. CASE Zero(l, i) /\ Zero(r, j)
  <2>1. cmp_tokens(l[i], r[j]) = 0
    BY <1>2, <1>4, CmpTokens DEF Sign
  <2>2. Numeric(l[i]) = Numeric(r[j])
    BY <1>2, <1>4 DEF Numeric
  <2>3. F[<<i, j>>] = F[<<i + 1, j + 1>>]
    BY <1>1, <1>2, <1>4, <2>1, <2>2 DEF TwoTokens
  <2> QED
    BY <1>2, <1>4, <2>3
<1>5. CASE Zero(l, i) /\ ~Zero(r, j)
  <2>0. ~Over(l, i) /\ Numeric(l[i]) /\ After(l, i) = i + 1 /\ cmp_token_vs_null(l[i]) = 0
    BY <1>2, <1>5
  <2>1. CASE Over(r, j)
    <3>1. F[<<i, j>>] = F[<<i + 1, j>>]
      BY <1>1, <2>0, <2>1 DEF OnlyLeft
    <3> QED
      BY <1>5, <2>0, <3>1 DEF After
  <2>2. CASE ~Over(r, j)
    <3>1. ~Numeric(r[j]) /\ After(r, j) = j
      BY <1>3, <1>5, <2>2, PlaceFacts
    <3>2. F[<<i, j>>] = TwoTokens(l, r, F, i, j)
      BY <1>1, <2>0, <2>2
    <3>3. F[<<i, j>>] = F[<<i + 1, j>>]
      BY <2>0, <3>1, <3>2 DEF TwoTokens, Numeric
    <3> QED
      BY <2>0, <3>1, <3>3
  <2> QED
    BY <2>1, <2>2
<1>6. CASE ~Zero(l, i) /\ Zero(r, j)
  <2>0. ~Over(r, j) /\ Numeric(r[j]) /\ After(r, j) = j + 1 /\ cmp_token_vs_null(r[j]) = 0
    BY <1>2, <1>6
  <2>1. CASE Over(l, i)
    <3>1. F[<<i, j>>] = F[<<i, j + 1>>]
      BY <1>1, <2>0, <2>1 DEF OnlyRight
    <3> QED
      BY <1>6, <2>0, <3>1 DEF After
  <2>2. CASE ~Over(l, i)
    <3>1. ~Numeric(l[i]) /\ After(l, i) = i
      BY <1>3, <1>6, <2>2, PlaceFacts
    <3>2. F[<<i, j>>] = TwoTokens(l, r, F, i, j)
      BY <1>1, <2>0, <2>2
    <3>3. F[<<i, j>>] = F[<<i, j + 1>>]
      BY <2>0, <3>1, <3>2 DEF TwoTokens, Numeric
    <3> QED
      BY <2>0, <3>1, <3>3
  <2> QED
    BY <2>1, <2>2
<1>7. CASE ~Zero(l, i) /\ ~Zero(r, j)
  BY <1>7 DEF After
<1> QED
  BY <1>4, <1>5, <1>6, <1>7

LEMMA KeyTypes ==
  ASSUME NEW s \in Seq(Tokens), NEW i \in Places(s)
  PROVE  Rank(s, i) \in Int /\ Value(s, i) \in Int
<1>1. Rank(s, i) \in 0 .. 8 /\ Value(s, i) \in Int
  BY PlaceFacts
<1> QED
  BY <1>1

LEMMA Signs ==
  ASSUME NEW m \in Int, NEW n \in Int
  PROVE  \/ m < n /\ Sign(m - n) = -1 /\ Sign(n - m) = 1
         \/ m = n /\ Sign(m - n) = 0 /\ Sign(n - m) = 0
         \/ m > n /\ Sign(m - n) = 1 /\ Sign(n - m) = -1
<1>1. CASE m < n
  BY <1>1 DEF Sign
<1>2. CASE m = n
  BY <1>2 DEF Sign
<1>3. CASE m > n
  BY <1>3 DEF Sign
<1> QED
  BY <1>1, <1>2, <1>3

\* Keys are ordered.
LEMMA KeysAreOrdered ==
  ASSUME NEW l \in Seq(Tokens), NEW r \in Seq(Tokens), NEW i \in Places(l), NEW j \in Places(r)
  PROVE  /\ KeyOrder(l, i, r, j) \in {-1, 0, 1}
         /\ KeyOrder(r, j, l, i) = -KeyOrder(l, i, r, j)
         /\ KeyOrder(l, i, r, j) = 0 => Rank(l, i) = Rank(r, j) /\ Value(l, i) = Value(r, j)
         /\ KeyOrder(l, i, r, j) <= 0 =>
              Rank(l, i) < Rank(r, j) \/ (Rank(l, i) = Rank(r, j) /\ Value(l, i) <= Value(r, j))
         /\ Rank(l, i) < Rank(r, j) => KeyOrder(l, i, r, j) = -1
         /\ Rank(l, i) = Rank(r, j) /\ Value(l, i) < Value(r, j) => KeyOrder(l, i, r, j) = -1
         /\ Rank(l, i) = Rank(r, j) /\ Value(l, i) = Value(r, j) => KeyOrder(l, i, r, j) = 0
<1>1. Rank(l, i) \in Int /\ Rank(r, j) \in Int /\ Value(l, i) \in Int /\ Value(r, j) \in Int
  BY KeyTypes
<1>2. CASE Rank(l, i) = Rank(r, j)
  <2>1. /\ KeyOrder(l, i, r, j) = Sign(Value(l, i) - Value(r, j))
        /\ KeyOrder(r, j, l, i) = Sign(Value(r, j) - Value(l, i))
    BY <1>2 DEF KeyOrder
  <2>2. \/ Value(l, i) < Value(r, j) /\ KeyOrder(l, i, r, j) = -1 /\ KeyOrder(r, j, l, i) = 1
        \/ Value(l, i) = Value(r, j) /\ KeyOrder(l, i, r, j) = 0 /\ KeyOrder(r, j, l, i) = 0
        \/ Value(l, i) > Value(r, j) /\ KeyOrder(l, i, r, j) = 1 /\ KeyOrder(r, j, l, i) = -1
    BY <1>1, <2>1, Signs
  <2> QED
    BY <1>1, <1>2, <2>2
<1>3. CASE Rank(l, i) # Rank(r, j)
  <2>1. /\ KeyOrder(l, i, r, j) = Sign(Rank(l, i) - Rank(r, j))
        /\ KeyOrder(r, j, l, i) = Sign(Rank(r, j) - Rank(l, i))
    BY <1>3 DEF KeyOrder
  <2>2. \/ Rank(l, i) < Rank(r, j) /\ KeyOrder(l, i, r, j) = -1 /\ KeyOrder(r, j, l, i) = 1
        \/ Rank(l, i) > Rank(r, j) /\ KeyOrder(l, i, r, j) = 1 /\ KeyOrder(r, j, l, i) = -1
    BY <1>1, <1>3, <2>1, Signs
  <2> QED
    BY <1>1, <1>3, <2>2
<1> QED
  BY <1>2, <1>3

-----------------------------------------------------------------------------
(***************************************************************************)
(* Two sequences: swapping the sides swaps the answer.                     *)
(***************************************************************************)
Mirrored(l, r, i, j) ==
    From(l, r)[<<i, j>>] \in {-1, 0, 1} /\ From(r, l)[<<j, i>>] = -From(l, r)[<<i, j>>]

LEMMA MinusNothing == -0 = 0
<1>1. \A n \in Int : -n = 0 - n
  OBVIOUS
<1>2. -0 = 0 - 0
  BY <1>1, 0 \in Int, Zenon
<1> QED
  BY <1>2

\* It holds at i and j if it does at all later places.
LEMMA MirrorStep ==
  ASSUME NEW l \in Seq(Tokens), NEW r \in Seq(Tokens), NEW i \in Places(l), NEW j \in Places(r),
         \A m \in Places(l), n \in Places(r) : m >= i /\ n >= j /\ m + n > i + j => Mirrored(l, r, m, n)
  PROVE  Mirrored(l, r, i, j)
<1>1. CASE Positive(l, i) /\ ~Positive(r, j)
  BY <1>1, PositiveDecides DEF Mirrored
<1>2. CASE ~Positive(l, i) /\ Positive(r, j)
  BY <1>2, PositiveDecides DEF Mirrored
<1>3. CASE ~Positive(l, i) /\ ~Positive(r, j) /\ (Zero(l, i) \/ Zero(r, j))
  <2>1. /\ From(l, r)[<<i, j>>] = From(l, r)[<<After(l, i), After(r, j)>>]
        /\ From(r, l)[<<j, i>>] = From(r, l)[<<After(r, j), After(l, i)>>]
        /\ After(l, i) \in Places(l) /\ After(r, j) \in Places(r)
    BY <1>3, ZerosPass
  <2>2. After(l, i) >= i /\ After(r, j) >= j /\ After(l, i) + After(r, j) > i + j
    BY <1>3 DEF After, Places
  <2>3. Mirrored(l, r, After(l, i), After(r, j))
    BY <2>1, <2>2
  <2> QED
    BY <2>1, <2>3 DEF Mirrored
<1>4. CASE ~Zero(l, i) /\ ~Zero(r, j)
  <2>1. /\ From(l, r)[<<i, j>>] = IF KeyOrder(l, i, r, j) # 0 THEN KeyOrder(l, i, r, j)
                                  ELSE IF Over(l, i) THEN 0 ELSE From(l, r)[<<i + 1, j + 1>>]
        /\ From(r, l)[<<j, i>>] = IF KeyOrder(r, j, l, i) # 0 THEN KeyOrder(r, j, l, i)
                                  ELSE IF Over(r, j) THEN 0 ELSE From(r, l)[<<j + 1, i + 1>>]
    BY <1>4, KeysDecide
  <2>2. KeyOrder(l, i, r, j) \in {-1, 0, 1} /\ KeyOrder(r, j, l, i) = -KeyOrder(l, i, r, j)
    BY KeysAreOrdered
  <2>3. CASE KeyOrder(l, i, r, j) # 0
    BY <2>1, <2>2, <2>3 DEF Mirrored
  <2>4. CASE KeyOrder(l, i, r, j) = 0
    <3>1. Over(l, i) <=> Over(r, j)
      <4>1. Rank(l, i) = Rank(r, j)
        BY <2>4, KeysAreOrdered
      <4> QED
        BY <4>1, PlaceFacts
    <3>2. KeyOrder(r, j, l, i) = 0
      <4>1. Rank(l, i) = Rank(r, j) /\ Value(l, i) = Value(r, j)
        BY <2>4, KeysAreOrdered
      <4> QED
        BY <4>1, KeysAreOrdered
    <3>3. CASE Over(l, i)
      <4>1. From(l, r)[<<i, j>>] = 0 /\ From(r, l)[<<j, i>>] = 0
        BY <2>1, <2>4, <3>1, <3>2, <3>3
      <4>2. From(r, l)[<<j, i>>] = -From(l, r)[<<i, j>>]
        BY <4>1, MinusNothing, Zenon
      <4> QED
        BY <4>1, <4>2 DEF Mirrored
    <3>4. CASE ~Over(l, i)
      <4>1. i + 1 \in Places(l) /\ j + 1 \in Places(r)
        BY <3>1, <3>4, PlaceFacts
      <4>2. i + 1 >= i /\ j + 1 >= j /\ (i + 1) + (j + 1) > i + j
        BY DEF Places
      <4>3. Mirrored(l, r, i + 1, j + 1)
        BY <4>1, <4>2
      <4>4. From(l, r)[<<i, j>>] = From(l, r)[<<i + 1, j + 1>>] /\ From(r, l)[<<j, i>>] = From(r, l)[<<j + 1, i + 1>>]
        BY <2>1, <2>4, <3>1, <3>2, <3>4
      <4> QED
        BY <4>3, <4>4 DEF Mirrored
    <3> QED
      BY <3>3, <3>4
  <2> QED
    BY <2>3, <2>4
<1>5. Positive(l, i) /\ Positive(r, j) => ~Zero(l, i) /\ ~Zero(r, j)
  BY PlaceFacts
<1> QED
  BY <1>1, <1>2, <1>3, <1>4, <1>5 DEF Positive, Zero

LEMMA Mirror ==
  ASSUME NEW l \in Seq(Tokens), NEW r \in Seq(Tokens), NEW i \in Places(l), NEW j \in Places(r)
  PROVE  Mirrored(l, r, i, j)
<1> DEFINE Togo(m, n) == (Len(l) + 1 - m) + (Len(r) + 1 - n)
           T == {t \in Nat : \E m \in Places(l), n \in Places(r) : Togo(m, n) = t /\ ~Mirrored(l, r, m, n)}
<1>1. \A m \in Places(l), n \in Places(r) : Togo(m, n) \in Nat /\ m \in Nat /\ n \in Nat
  BY DEF Places
<1>2. Len(l) \in Nat /\ Len(r) \in Nat
  OBVIOUS
<1>3. T = {}
  <2> SUFFICES ASSUME T # {} PROVE FALSE
    OBVIOUS
  <2>1. PICK t \in T : \A u \in T : t <= u
    BY Least
  <2>2. PICK m \in Places(l), n \in Places(r) : Togo(m, n) = t /\ ~Mirrored(l, r, m, n)
    BY <2>1
  <2>3. ASSUME NEW p \in Places(l), NEW q \in Places(r), p >= m, q >= n, p + q > m + n
        PROVE  Mirrored(l, r, p, q)
    <3>1. Togo(p, q) \in Nat /\ Togo(p, q) < t
      <4>1. Togo(p, q) \in Nat /\ p \in Nat /\ q \in Nat /\ m \in Nat /\ n \in Nat
        BY <1>1
      <4>2. Togo(p, q) < Togo(m, n)
        BY <1>2, <2>3, <4>1
      <4> QED
        BY <2>2, <4>1, <4>2
    <3>2. Togo(p, q) \notin T
      BY <2>1, <3>1
    <3> QED
      BY <3>1, <3>2
  <2>4. Mirrored(l, r, m, n)
    BY <2>3, MirrorStep
  <2> QED
    BY <2>2, <2>4
<1> QED
  BY <1>1, <1>3

-----------------------------------------------------------------------------
(***************************************************************************)
(* Three sequences: the third falls where the first two tell it to.        *)
(***************************************************************************)
Follows(l, r, s, i, j, k) ==
    From(l, r)[<<i, j>>] <= 0 /\ From(r, s)[<<j, k>>] <= 0 =>
      /\ From(l, s)[<<i, k>>] <= 0
      /\ From(l, s)[<<i, k>>] = 0 => From(l, r)[<<i, j>>] = 0 /\ From(r, s)[<<j, k>>] = 0

LEMMA KeysFollow ==
  ASSUME NEW l \in Seq(Tokens), NEW r \in Seq(Tokens), NEW s \in Seq(Tokens),
         NEW i \in Places(l), NEW j \in Places(r), NEW k \in Places(s)
  PROVE  /\ KeyOrder(l, i, r, j) <= 0 /\ KeyOrder(r, j, s, k) <= 0 => KeyOrder(l, i, s, k) <= 0
         /\ KeyOrder(l, i, r, j) <= 0 /\ KeyOrder(r, j, s, k) <= 0 /\ KeyOrder(l, i, s, k) = 0
              => KeyOrder(l, i, r, j) = 0 /\ KeyOrder(r, j, s, k) = 0
         /\ KeyOrder(l, i, r, j) = 0 /\ KeyOrder(r, j, s, k) = 0 => KeyOrder(l, i, s, k) = 0
<1>1. /\ Rank(l, i) \in Int /\ Rank(r, j) \in Int /\ Rank(s, k) \in Int
      /\ Value(l, i) \in Int /\ Value(r, j) \in Int /\ Value(s, k) \in Int
  BY KeyTypes
<1> DEFINE a == KeyOrder(l, i, r, j)  b == KeyOrder(r, j, s, k)  c == KeyOrder(l, i, s, k)
<1>2. /\ a \in {-1, 0, 1}
      /\ a = 0 => Rank(l, i) = Rank(r, j) /\ Value(l, i) = Value(r, j)
      /\ a <= 0 => Rank(l, i) < Rank(r, j) \/ (Rank(l, i) = Rank(r, j) /\ Value(l, i) <= Value(r, j))
      /\ Rank(l, i) = Rank(r, j) /\ Value(l, i) = Value(r, j) => a = 0
  BY KeysAreOrdered
<1>3. /\ b \in {-1, 0, 1}
      /\ b = 0 => Rank(r, j) = Rank(s, k) /\ Value(r, j) = Value(s, k)
      /\ b <= 0 => Rank(r, j) < Rank(s, k) \/ (Rank(r, j) = Rank(s, k) /\ Value(r, j) <= Value(s, k))
      /\ Rank(r, j) = Rank(s, k) /\ Value(r, j) = Value(s, k) => b = 0
  BY KeysAreOrdered
<1>4. /\ c \in {-1, 0, 1}
      /\ c = 0 => Rank(l, i) = Rank(s, k) /\ Value(l, i) = Value(s, k)
      /\ Rank(l, i) < Rank(s, k) => c = -1
      /\ Rank(l, i) = Rank(s, k) /\ Value(l, i) < Value(s, k) => c = -1
      /\ Rank(l, i) = Rank(s, k) /\ Value(l, i) = Value(s, k) => c = 0
  BY KeysAreOrdered
<1> HIDE DEF a, b, c
<1>5. /\ a <= 0 /\ b <= 0 => c <= 0
      /\ a <= 0 /\ b <= 0 /\ c = 0 => a = 0 /\ b = 0
      /\ a = 0 /\ b = 0 => c = 0
  BY <1>1, <1>2, <1>3, <1>4
<1> QED
  BY <1>5 DEF a, b, c

LEMMA FollowStep ==
  ASSUME NEW l \in Seq(Tokens), NEW r \in Seq(Tokens), NEW s \in Seq(Tokens),
         NEW i \in Places(l), NEW j \in Places(r), NEW k \in Places(s),
         \A m \in Places(l), n \in Places(r), o \in Places(s) :
            m >= i /\ n >= j /\ o >= k /\ m + n + o > i + j + k => Follows(l, r, s, m, n, o)
  PROVE  Follows(l, r, s, i, j, k)
<1>1. CASE Positive(l, i) /\ ~Positive(r, j)
  <2>1. From(l, r)[<<i, j>>] = 1
    BY <1>1, PositiveDecides
  <2> QED
    BY <2>1 DEF Follows
<1>2. CASE Positive(r, j) /\ ~Positive(s, k)
  <2>1. From(r, s)[<<j, k>>] = 1
    BY <1>2, PositiveDecides
  <2> QED
    BY <2>1 DEF Follows
<1>3. CASE ~Positive(l, i) /\ Positive(s, k)
  <2>1. From(l, s)[<<i, k>>] = -1
    BY <1>3, PositiveDecides
  <2> QED
    BY <2>1 DEF Follows
<1>4. CASE /\ ~Positive(l, i) /\ ~Positive(r, j) /\ ~Positive(s, k)
           /\ Zero(l, i) \/ Zero(r, j) \/ Zero(s, k)
  <2>1. /\ From(l, r)[<<i, j>>] = From(l, r)[<<After(l, i), After(r, j)>>]
        /\ From(r, s)[<<j, k>>] = From(r, s)[<<After(r, j), After(s, k)>>]
        /\ From(l, s)[<<i, k>>] = From(l, s)[<<After(l, i), After(s, k)>>]
        /\ After(l, i) \in Places(l) /\ After(r, j) \in Places(r) /\ After(s, k) \in Places(s)
    BY <1>4, ZerosPass
  <2>2. /\ After(l, i) >= i /\ After(r, j) >= j /\ After(s, k) >= k
        /\ After(l, i) + After(r, j) + After(s, k) > i + j + k
    BY <1>4 DEF After, Places
  <2>3. Follows(l, r, s, After(l, i), After(r, j), After(s, k))
    BY <2>1, <2>2
  <2> QED
    BY <2>1, <2>3 DEF Follows
<1>5. CASE ~Zero(l, i) /\ ~Zero(r, j) /\ ~Zero(s, k)
  <2> DEFINE a == KeyOrder(l, i, r, j)  b == KeyOrder(r, j, s, k)  c == KeyOrder(l, i, s, k)
  <2>1. /\ From(l, r)[<<i, j>>] = IF a # 0 THEN a ELSE IF Over(l, i) THEN 0 ELSE From(l, r)[<<i + 1, j + 1>>]
        /\ From(r, s)[<<j, k>>] = IF b # 0 THEN b ELSE IF Over(r, j) THEN 0 ELSE From(r, s)[<<j + 1, k + 1>>]
        /\ From(l, s)[<<i, k>>] = IF c # 0 THEN c ELSE IF Over(l, i) THEN 0 ELSE From(l, s)[<<i + 1, k + 1>>]
    BY <1>5, KeysDecide
  <2>2. /\ a \in {-1, 0, 1} /\ b \in {-1, 0, 1} /\ c \in {-1, 0, 1}
        /\ a <= 0 /\ b <= 0 => c <= 0
        /\ a <= 0 /\ b <= 0 /\ c = 0 => a = 0 /\ b = 0
        /\ a = 0 /\ b = 0 => c = 0
    BY KeysFollow, KeysAreOrdered
  <2>3. a = 0 => (Over(l, i) <=> Over(r, j))
    <3>1. a = 0 => Rank(l, i) = Rank(r, j)
      BY KeysAreOrdered
    <3> QED
      BY <3>1, PlaceFacts
  <2>4. b = 0 => (Over(r, j) <=> Over(s, k))
    <3>1. b = 0 => Rank(r, j) = Rank(s, k)
      BY KeysAreOrdered
    <3> QED
      BY <3>1, PlaceFacts
  <2> HIDE DEF a, b, c
  <2>5. CASE a = 0 /\ b = 0
    <3>1. CASE Over(l, i)
      BY <2>1, <2>2, <2>3, <2>4, <2>5, <3>1 DEF Follows
    <3>2. CASE ~Over(l, i)
      <4>1. i + 1 \in Places(l) /\ j + 1 \in Places(r) /\ k + 1 \in Places(s)
        BY <2>3, <2>4, <2>5, <3>2, PlaceFacts
      <4>2. i + 1 >= i /\ j + 1 >= j /\ k + 1 >= k /\ (i + 1) + (j + 1) + (k + 1) > i + j + k
        BY DEF Places
      <4>3. Follows(l, r, s, i + 1, j + 1, k + 1)
        BY <4>1, <4>2
      <4>4. /\ From(l, r)[<<i, j>>] = From(l, r)[<<i + 1, j + 1>>]
            /\ From(r, s)[<<j, k>>] = From(r, s)[<<j + 1, k + 1>>]
            /\ From(l, s)[<<i, k>>] = From(l, s)[<<i + 1, k + 1>>]
        BY <2>1, <2>2, <2>3, <2>4, <2>5, <3>2
      <4> QED
        BY <4>3, <4>4 DEF Follows
    <3> QED
      BY <3>1, <3>2
  <2>6. CASE ~(a = 0 /\ b = 0)
    <3>1. a # 0 => From(l, r)[<<i, j>>] = a
      BY <2>1
    <3>2. b # 0 => From(r, s)[<<j, k>>] = b
      BY <2>1
    <3>3. c # 0 => From(l, s)[<<i, k>>] = c
      BY <2>1
    <3>4. CASE a <= 0 /\ b <= 0
      <4>1. c = -1
        BY <2>2, <2>6, <3>4
      <4>2. From(l, s)[<<i, k>>] = -1
        BY <3>3, <4>1
      <4> QED
        BY <4>2 DEF Follows
    <3>5. CASE a = 1
      <4>1. From(l, r)[<<i, j>>] = 1
        BY <3>1, <3>5
      <4> QED
        BY <4>1 DEF Follows
    <3>6. CASE b = 1
      <4>1. From(r, s)[<<j, k>>] = 1
        BY <3>2, <3>6
      <4> QED
        BY <4>1 DEF Follows
    <3> QED
      BY <2>2, <3>4, <3>5, <3>6
  <2> QED
    BY <2>5, <2>6
<1>6. /\ Positive(l, i) => ~Zero(l, i)
      /\ Positive(r, j) => ~Zero(r, j)
      /\ Positive(s, k) => ~Zero(s, k)
  BY PlaceFacts
<1> QED
  BY <1>1, <1>2, <1>3, <1>4, <1>5, <1>6 DEF Positive, Zero

LEMMA Follow ==
  ASSUME NEW l \in Seq(Tokens), NEW r \in Seq(Tokens), NEW s \in Seq(Tokens),
         NEW i \in Places(l), NEW j \in Places(r), NEW k \in Places(s)
  PROVE  Follows(l, r, s, i, j, k)
<1> DEFINE Togo(m, n, o) == (Len(l) + 1 - m) + (Len(r) + 1 - n) + (Len(s) + 1 - o)
           T == {t \in Nat : \E m \in Places(l), n \in Places(r), o \in Places(s) :
                               Togo(m, n, o) = t /\ ~Follows(l, r, s, m, n, o)}
<1>1. \A m \in Places(l), n \in Places(r), o \in Places(s) :
        Togo(m, n, o) \in Nat /\ m \in Nat /\ n \in Nat /\ o \in Nat
  BY DEF Places
<1>2. Len(l) \in Nat /\ Len(r) \in Nat /\ Len(s) \in Nat
  OBVIOUS
<1>3. T = {}
  <2> SUFFICES ASSUME T # {} PROVE FALSE
    OBVIOUS
  <2>1. PICK t \in T : \A u \in T : t <= u
    BY Least
  <2>2. PICK m \in Places(l), n \in Places(r), o \in Places(s) :
           Togo(m, n, o) = t /\ ~Follows(l, r, s, m, n, o)
    BY <2>1
  <2>3. ASSUME NEW p \in Places(l), NEW q \in Places(r), NEW v \in Places(s),
               p >= m, q >= n, v >= o, p + q + v > m + n + o
        PROVE  Follows(l, r, s, p, q, v)
    <3>1. Togo(p, q, v) \in Nat /\ Togo(p, q, v) < t
      <4>1. /\ Togo(p, q, v) \in Nat /\ p \in Nat /\ q \in Nat /\ v \in Nat
            /\ m \in Nat /\ n \in Nat /\ o \in Nat
        BY <1>1
      <4>2. Togo(p, q, v) < Togo(m, n, o)
        BY <1>2, <2>3, <4>1
      <4> QED
        BY <2>2, <4>1, <4>2
    <3>2. Togo(p, q, v) \notin T
      BY <2>1, <3>1
    <3> QED
      BY <3>1, <3>2
  <2>4. Follows(l, r, s, m, n, o)
    BY <2>3, FollowStep
  <2> QED
    BY <2>2, <2>4
<1> QED
  BY <1>1, <1>3

\* Ord::cmp on tokens is a total order up to equality.
LEMMA CmpIsOrder ==
  ASSUME NEW l \in Seq(Tokens), NEW r \in Seq(Tokens), NEW s \in Seq(Tokens)
  PROVE  /\ cmp(l, r) \in {-1, 0, 1} /\ cmp(r, l) = -cmp(l, r)
         /\ cmp(l, r) <= 0 /\ cmp(r, s) <= 0 =>
              cmp(l, s) <= 0 /\ (cmp(l, s) = 0 => cmp(l, r) = 0 /\ cmp(r, s) = 0)
<1>1. 1 \in Places(l) /\ 1 \in Places(r) /\ 1 \in Places(s)
  BY DEF Places
<1>2. Len(l) \in Nat /\ Len(r) \in Nat /\ Len(s) \in Nat
  OBVIOUS
<1>3. /\ cmp(l, r) = From(l, r)[<<1, 1>>] /\ cmp(r, l) = From(r, l)[<<1, 1>>]
      /\ cmp(r, s) = From(r, s)[<<1, 1>>] /\ cmp(l, s) = From(l, s)[<<1, 1>>]
  BY <1>2, FromUnfolds
<1>4. Mirrored(l, r, 1, 1) /\ Follows(l, r, s, 1, 1, 1)
  BY <1>1, Mirror, Follow
<1> QED
  BY <1>3, <1>4 DEF Mirrored, Follows

-----------------------------------------------------------------------------
(***************************************************************************)
(* The tokens of a version string, by the same argument: a round of        *)
(* tokenize looks at later runs only, so there are answers, and they are   *)
(* sequences of tokens.                                                    *)
(***************************************************************************)
Ends(s)      == 1 .. Len(s) + 2
Words(s)     == \A i \in DOMAIN s : s[i].kind = "word" => s[i].text \in DOMAIN WordRank
Reads(s, g)  == g = [i \in Ends(s) |-> tokens_at(s, g, i)]
ReadsFrom(s, g, n) == \A i \in Ends(s) : i >= n => g[i] = tokens_at(s, g, i)

\* What comes after the run at i.
Following(s, i) ==
    IF s[i].kind = "word" /\ try_keyword(s, i).stage # "text" /\ DigitsAt(s, i + 1) THEN i + 2 ELSE i + 1

LEMMA FollowingIsLater ==
  ASSUME NEW s, Len(s) \in Nat, NEW i \in Ends(s), i <= Len(s)
  PROVE  /\ i + 1 \in Ends(s) /\ Following(s, i) \in Ends(s) /\ Following(s, i) > i
         /\ DigitsAt(s, i + 1) => i + 2 \in Ends(s)
<1>1. i \in Nat /\ i + 1 \in Ends(s) /\ i + 1 > i /\ i + 2 > i
  BY DEF Ends
<1>2. DigitsAt(s, i + 1) => i + 2 \in Ends(s)
  BY <1>1 DEF DigitsAt, Ends
<1> QED
  BY <1>1, <1>2 DEF Following

LEMMA TokensLookAhead ==
  ASSUME NEW s, Len(s) \in Nat, NEW i \in Ends(s), NEW f, NEW g,
         \A j \in Ends(s) : j > i => f[j] = g[j]
  PROVE  tokens_at(s, f, i) = tokens_at(s, g, i)
<1>1. CASE i > Len(s)
  BY <1>1 DEF tokens_at
<1>2. CASE ~(i > Len(s))
  <2>1. i <= Len(s) /\ i \in Nat
    BY <1>2 DEF Ends
  <2>2. i + 1 \in Ends(s) /\ i + 1 > i /\ i + 2 > i /\ (DigitsAt(s, i + 1) => i + 2 \in Ends(s))
    BY <2>1, FollowingIsLater
  <2>3. f[i + 1] = g[i + 1] /\ (DigitsAt(s, i + 1) => f[i + 2] = g[i + 2])
    BY <2>2
  <2> DEFINE t == try_keyword(s, i)
  <2> HIDE DEF t
  <2>4. f[IF t.stage # "text" /\ DigitsAt(s, i + 1) THEN i + 2 ELSE i + 1]
          = g[IF t.stage # "text" /\ DigitsAt(s, i + 1) THEN i + 2 ELSE i + 1]
    <3>1. CASE t.stage # "text" /\ DigitsAt(s, i + 1)
      BY <2>3, <3>1
    <3>2. CASE ~(t.stage # "text" /\ DigitsAt(s, i + 1))
      BY <2>3, <3>2
    <3> QED
      BY <3>1, <3>2
  <2> QED
    BY <1>2, <2>3, <2>4, Zenon DEF tokens_at, t
<1> QED
  BY <1>1, <1>2

LEMMA OneMoreRead ==
  ASSUME NEW s, Len(s) \in Nat, NEW n \in Int, NEW g, ReadsFrom(s, g, n)
  PROVE  \E f : ReadsFrom(s, f, n - 1)
<1> DEFINE f == [i \in Ends(s) |-> tokens_at(s, g, i)]
<1>1. \A i \in Ends(s) : f[i] = tokens_at(s, g, i)
  OBVIOUS
<1> HIDE DEF f
<1>2. \A i \in Ends(s) : i >= n => f[i] = g[i]
  BY <1>1 DEF ReadsFrom
<1>3. ASSUME NEW i \in Ends(s), i >= n - 1 PROVE f[i] = tokens_at(s, f, i)
  <2>1. \A j \in Ends(s) : j > i => f[j] = g[j]
    BY <1>2, <1>3 DEF Ends
  <2>2. tokens_at(s, f, i) = tokens_at(s, g, i)
    BY <2>1, TokensLookAhead
  <2> QED
    BY <1>1, <2>2
<1> QED
  BY <1>3 DEF ReadsFrom

LEMMA SomeReads ==
  ASSUME NEW s, Len(s) \in Nat
  PROVE  \E g : Reads(s, g)
<1> DEFINE From0(n) == Len(s) + 3 - n
           T == {n \in Nat : ~\E g : ReadsFrom(s, g, From0(n))}
<1>1. T = {}
  <2> SUFFICES ASSUME T # {} PROVE FALSE
    OBVIOUS
  <2>1. PICK n \in T : \A m \in T : n <= m
    BY Least
  <2>2. CASE n = 0
    <3>1. ReadsFrom(s, <<>>, From0(0))
      BY DEF ReadsFrom, Ends
    <3> QED
      BY <2>1, <2>2, <3>1
  <2>3. CASE n # 0
    <3>1. n - 1 \in Nat /\ n - 1 \notin T
      <4>1. n \in Nat
        BY <2>1
      <4> HIDE DEF T
      <4> QED
        BY <2>1, <2>3, <4>1
    <3>2. PICK g : ReadsFrom(s, g, From0(n - 1))
      BY <3>1
    <3>3. From0(n - 1) \in Int /\ From0(n - 1) - 1 = From0(n)
      BY <2>1
    <3>4. \E f : ReadsFrom(s, f, From0(n - 1) - 1)
      BY <3>2, <3>3, OneMoreRead
    <3> QED
      BY <2>1, <3>3, <3>4
  <2> QED
    BY <2>2, <2>3
<1>2. Len(s) + 3 \in Nat /\ From0(Len(s) + 3) = 0
  OBVIOUS
<1>3. PICK g : ReadsFrom(s, g, 0)
  BY <1>1, <1>2
<1> DEFINE f == [i \in Ends(s) |-> tokens_at(s, g, i)]
<1>4. \A i \in Ends(s) : f[i] = g[i]
  BY <1>3 DEF ReadsFrom, Ends
<1>5. \A i \in Ends(s) : tokens_at(s, f, i) = tokens_at(s, g, i)
  <2> HIDE DEF f
  <2> QED
    BY <1>4, TokensLookAhead
<1>6. f = [i \in Ends(s) |-> tokens_at(s, f, i)]
  <2> DEFINE h == [i \in Ends(s) |-> tokens_at(s, f, i)]
  <2>1. f = h
    BY <1>5, Zenon
  <2> QED
    BY <2>1
<1> QED
  BY <1>6, Zenon DEF Reads

LEMMA NumbersFit ==
  ASSUME NEW s \in Seq(Runs), NEW i \in Nat \ {0}
  PROVE  /\ parse_suffix(s, i) \in Nat
         /\ i <= Len(s) => digits_to_u64(s[i].num) \in Nat
<1>1. i <= Len(s) => s[i] \in Runs
  OBVIOUS
<1>2. \A n \in Nat : digits_to_u64(n) \in Nat
  BY VersionAssumption DEF digits_to_u64
<1>3. i <= Len(s) => s[i].num \in Nat
  BY <1>1 DEF Runs
<1> QED
  BY <1>2, <1>3 DEF parse_suffix, DigitsAt

LEMMA PlainTokens ==
  ASSUME NEW st \in Stages \ {"text"}, NEW n \in Nat
  PROVE  Token(st, n) \in Tokens
  BY DEF Token, Tokens

LEMMA KeywordsAreTokens ==
  ASSUME NEW s \in Seq(Runs), Words(s), NEW i \in 1 .. Len(s), s[i].kind = "word"
  PROVE  try_keyword(s, i) \in Tokens
<1> DEFINE w == s[i].text  n == parse_suffix(s, i + 1)
<1>1. w \in DOMAIN WordRank /\ n \in Nat
  <2>1. i \in Nat \ {0} /\ i + 1 \in Nat \ {0} /\ i <= Len(s) /\ i \in DOMAIN s
    OBVIOUS
  <2> QED
    BY <2>1, NumbersFit DEF Words
<1>2. ASSUME NEW st \in Stages \ {"text"} PROVE Token(st, n) \in Tokens
  BY <1>1, PlainTokens
<1>3. Text(w) \in Tokens
  BY <1>1 DEF Text, Tokens, Stages
<1>4. w \in LongKeyword => w \in Stages \ {"text"}
  BY DEF LongKeyword, Stages
<1>5. w \in DOMAIN ShortKeyword => ShortKeyword[w] \in Stages \ {"text"}
  BY DEF ShortKeyword, Stages
<1>6. "patch" \in Stages \ {"text"} /\ "post" \in Stages \ {"text"}
  BY DEF Stages
<1> DEFINE a == w \in LongKeyword
           b == w \in DOMAIN ShortKeyword /\ DigitsAt(s, i + 1)
           c == w = "p" /\ (DigitsAt(s, i + 1) \/ SegmentEnd(s, i + 1))
           d == w = "post" /\ AfterDot(s, i)
<1>7. try_keyword(s, i) =
        CASE a -> Token(w, n) [] b -> Token(ShortKeyword[w], n) [] c -> Token("patch", n)
          [] d -> Token("post", n) [] OTHER -> Text(w)
  BY DEF try_keyword
<1>8. /\ a => Token(w, n) \in Tokens
      /\ b => Token(ShortKeyword[w], n) \in Tokens
      /\ Token("patch", n) \in Tokens /\ Token("post", n) \in Tokens
  BY <1>2, <1>4, <1>5, <1>6
<1> HIDE DEF a, b, c, d, w, n
<1> QED
  BY <1>3, <1>7, <1>8

\* The tokens from a run on, if those from the later ones are known.
LEMMA TokensAtTyped ==
  ASSUME NEW s \in Seq(Runs), Words(s), NEW i \in Ends(s), NEW g,
         \A j \in Ends(s) : j > i => g[j] \in Seq(Tokens)
  PROVE  tokens_at(s, g, i) \in Seq(Tokens)
<1>1. CASE i > Len(s)
  BY <1>1 DEF tokens_at
<1>2. CASE ~(i > Len(s))
  <2>1. i \in 1 .. Len(s) /\ i <= Len(s) /\ i \in Nat \ {0} /\ s[i] \in Runs
    BY <1>2 DEF Ends
  <2>2. i + 1 \in Ends(s) /\ i + 1 > i /\ i + 2 > i /\ (DigitsAt(s, i + 1) => i + 2 \in Ends(s))
    BY <2>1, FollowingIsLater
  <2>3. g[i + 1] \in Seq(Tokens) /\ (DigitsAt(s, i + 1) => g[i + 2] \in Seq(Tokens))
    BY <2>2
  <2>4. ASSUME NEW t \in Tokens, NEW ts \in Seq(Tokens) PROVE <<t>> \o ts \in Seq(Tokens)
    OBVIOUS
  <2>5. CASE s[i].kind = "digits"
    <3>1. Token("numeric", digits_to_u64(s[i].num)) \in Tokens
      <4>1. digits_to_u64(s[i].num) \in Nat /\ "numeric" \in Stages \ {"text"}
        BY <2>1, NumbersFit DEF Stages
      <4> QED
        BY <4>1, PlainTokens
    <3>2. tokens_at(s, g, i) = <<Token("numeric", digits_to_u64(s[i].num))>> \o g[i + 1]
      BY <1>2, <2>5 DEF tokens_at
    <3> QED
      BY <2>3, <2>4, <3>1, <3>2
  <2>6. CASE s[i].kind = "sep"
    <3>1. tokens_at(s, g, i) = g[i + 1]
      BY <1>2, <2>6 DEF tokens_at
    <3> QED
      BY <2>3, <3>1
  <2>7. CASE s[i].kind = "word"
    <3> DEFINE t == try_keyword(s, i)
    <3>1. t \in Tokens
      BY <2>1, <2>7, KeywordsAreTokens
    <3>2. tokens_at(s, g, i) = <<t>> \o g[IF t.stage # "text" /\ DigitsAt(s, i + 1) THEN i + 2 ELSE i + 1]
      BY <1>2, <2>7 DEF tokens_at
    <3> HIDE DEF t
    <3>3. CASE t.stage # "text" /\ DigitsAt(s, i + 1)
      BY <2>3, <2>4, <3>1, <3>2, <3>3
    <3>4. CASE ~(t.stage # "text" /\ DigitsAt(s, i + 1))
      BY <2>3, <2>4, <3>1, <3>2, <3>4
    <3> QED
      BY <3>3, <3>4
  <2> QED
    BY <2>1, <2>5, <2>6, <2>7 DEF Runs
<1> QED
  BY <1>1, <1>2

LEMMA TokenizeTyped ==
  ASSUME NEW s \in Seq(Runs), Words(s)
  PROVE  tokenize(s) \in Seq(Tokens)
<1>0. Len(s) \in Nat
  OBVIOUS
<1> DEFINE g == CHOOSE f : Reads(s, f)
<1>1. Reads(s, g)
  BY <1>0, SomeReads, Zenon
<1>2. tokenize(s) = g[1]
  BY Zenon DEF tokenize, Reads, Ends
<1> HIDE DEF g
<1>3. \A i \in Ends(s) : g[i] = tokens_at(s, g, i)
  BY <1>1, Zenon DEF Reads
<1> DEFINE T == {n \in Nat : \E i \in Ends(s) : Len(s) + 2 - i = n /\ g[i] \notin Seq(Tokens)}
<1>4. T = {}
  <2> SUFFICES ASSUME T # {} PROVE FALSE
    OBVIOUS
  <2>1. PICK n \in T : \A m \in T : n <= m
    BY Least
  <2>2. PICK i \in Ends(s) : Len(s) + 2 - i = n /\ g[i] \notin Seq(Tokens)
    BY <2>1
  <2>3. ASSUME NEW j \in Ends(s), j > i PROVE g[j] \in Seq(Tokens)
    <3>1. Len(s) + 2 - j \in Nat /\ Len(s) + 2 - j < n
      BY <1>0, <2>2, <2>3 DEF Ends
    <3>2. Len(s) + 2 - j \notin T
      BY <2>1, <3>1
    <3> QED
      BY <3>1, <3>2
  <2>4. tokens_at(s, g, i) \in Seq(Tokens)
    BY <2>3, TokensAtTyped
  <2> QED
    BY <1>3, <2>2, <2>4
<1>5. 1 \in Ends(s) /\ Len(s) + 2 - 1 \in Nat
  BY <1>0 DEF Ends
<1> QED
  BY <1>2, <1>4, <1>5

-----------------------------------------------------------------------------
(***************************************************************************)
(* The versions of the formula.                                            *)
(***************************************************************************)
LEMMA VersionTokens ==
  ASSUME NEW v \in Version
  PROVE  Spelling[v] \in Seq(Runs) /\ tokenize(Spelling[v]) \in Seq(Tokens)
<1>1. Spelling[v] \in Seq(Runs) /\ Words(Spelling[v])
  BY SpellingAssumption DEF Version, Words
<1> QED
  BY <1>1, TokenizeTyped

LEMMA OrderIs ==
  ASSUME NEW a \in Version, NEW b \in Version
  PROVE  compared(a, b) = cmp(tokenize(Spelling[a]), tokenize(Spelling[b]))
<1>1. <<a, b>> \in Version \X Version
  OBVIOUS
<1> QED
  BY <1>1 DEF Order, compared

LEMMA OrderIsTotal ==
  ASSUME NEW a \in Version, NEW b \in Version, NEW c \in Version
  PROVE  /\ compared(a, b) \in {-1, 0, 1} /\ compared(b, a) = -compared(a, b)
         /\ compared(a, b) <= 0 /\ compared(b, c) <= 0 =>
              compared(a, c) <= 0 /\ (compared(a, c) = 0 => compared(a, b) = 0 /\ compared(b, c) = 0)
<1> DEFINE l == tokenize(Spelling[a])  r == tokenize(Spelling[b])  s == tokenize(Spelling[c])
<1>1. /\ compared(a, b) = cmp(l, r) /\ compared(b, a) = cmp(r, l)
      /\ compared(b, c) = cmp(r, s) /\ compared(a, c) = cmp(l, s)
  BY OrderIs
<1>2. l \in Seq(Tokens) /\ r \in Seq(Tokens) /\ s \in Seq(Tokens)
  BY VersionTokens
<1> HIDE DEF l, r, s
<1>3. /\ cmp(l, r) \in {-1, 0, 1} /\ cmp(r, l) = -cmp(l, r)
      /\ cmp(l, r) <= 0 /\ cmp(r, s) <= 0 =>
           cmp(l, s) <= 0 /\ (cmp(l, s) = 0 => cmp(l, r) = 0 /\ cmp(r, s) = 0)
  BY <1>2, CmpIsOrder
<1> QED
  BY <1>1, <1>3

\* The versions that Upgrade and bd update move between stay versions of the formula.
LEMMA Typed == Spec => []TypeOK
<1>1. Init => TypeOK
  BY DEF Init, TypeOK
<1>2. TypeOK /\ [Next]_vars => TypeOK'
  <2> SUFFICES ASSUME TypeOK, [Next]_vars PROVE TypeOK'
    OBVIOUS
  <2>1. CASE Upgrade
    BY <2>1 DEF TypeOK, Upgrade
  <2>2. ASSUME NEW v \in Version, Update(v) PROVE TypeOK'
    BY <2>2 DEF TypeOK, Update
  <2>3. CASE UNCHANGED vars
    BY <2>3 DEF TypeOK, vars
  <2> QED
    BY <2>1, <2>2, <2>3 DEF Next
<1> QED
  BY <1>1, <1>2, PTL DEF Spec

\* Ord::cmp is a total order up to equality on whatever strings maintainers write, of any
\* length: swapping the sides swaps the answer, and a third version falls where the first
\* two tell it to.
THEOREM VersionsOrdered == Spec => []TotalOrder
<1>1. TypeOK => TotalOrder
  <2> SUFFICES ASSUME TypeOK PROVE TotalOrder
    OBVIOUS
  <2>1. installed \in Version /\ latest \in Version
    BY DEF TypeOK
  <2>2. compared(installed, latest) = -compared(latest, installed)
    BY <2>1, OrderIsTotal
  <2>3. \A c \in Version : compared(installed, latest) <= 0 /\ compared(latest, c) <= 0 =>
           compared(installed, c) <= 0
             /\ (compared(installed, c) = 0 => compared(installed, latest) = 0 /\ compared(latest, c) = 0)
    BY <2>1, OrderIsTotal
  <2> QED
    BY <2>2, <2>3, Zenon DEF TotalOrder
<1> QED
  BY <1>1, Typed, PTL

\* The versions that are compared as versions, not as strings.
AllParse == \A v \in Version : from_str_ok(Spelling[v])

\* If every version has a token, upgrade never comes back to a version it left nor to one
\* that compares equal: past is below installed, and installed below what replaces it.
THEOREM UpgradesRise == AllParse => (Spec => []NeverDowngrades)
<1> SUFFICES ASSUME AllParse PROVE Spec => []NeverDowngrades
  OBVIOUS
<1>1. Init => NeverDowngrades
  BY DEF Init, NeverDowngrades
<1>2. TypeOK /\ NeverDowngrades /\ [Next]_vars => NeverDowngrades'
  <2> SUFFICES ASSUME TypeOK, NeverDowngrades, [Next]_vars PROVE NeverDowngrades'
    OBVIOUS
  <2>1. installed \in Version /\ latest \in Version /\ past \in Version \union {0}
    BY DEF TypeOK
  <2>2. CASE Upgrade
    <3>1. compared(installed, latest) = -1 /\ installed' = latest
      BY <2>1, <2>2 DEF Upgrade, is_outdated, AllParse
    <3>2. past' = past \/ past' = installed
      BY <2>2 DEF Upgrade
    <3>3. CASE past' = installed
      BY <3>1, <3>3 DEF NeverDowngrades, compared
    <3>4. CASE past' = past /\ past # 0
      <4>1. past \in Version /\ compared(past, installed) = -1
        BY <2>1, <3>4 DEF NeverDowngrades
      <4>2. compared(past, latest) \in {-1, 0, 1} /\ compared(past, latest) <= 0 /\ compared(past, latest) # 0
        BY <2>1, <3>1, <4>1, OrderIsTotal
      <4> QED
        BY <3>1, <3>4, <4>2 DEF NeverDowngrades, compared
    <3> QED
      BY <3>2, <3>3, <3>4 DEF NeverDowngrades
  <2>3. ASSUME NEW v \in Version, Update(v) PROVE NeverDowngrades'
    BY <2>3 DEF NeverDowngrades, Update
  <2>4. CASE UNCHANGED vars
    BY <2>4 DEF NeverDowngrades, vars
  <2> QED
    BY <2>2, <2>3, <2>4 DEF Next
<1> QED
  BY <1>1, <1>2, Typed, PTL DEF Spec

-----------------------------------------------------------------------------
(***************************************************************************)
(* Versions that begin alike: the first difference decides.                *)
(***************************************************************************)
Alike(l, r, n) == n <= Len(l) /\ n <= Len(r) /\ \A i \in 1 .. n : l[i] = r[i]

LEMMA PrefixPasses ==
  ASSUME NEW l \in Seq(Tokens), NEW r \in Seq(Tokens), NEW n \in Nat, Alike(l, r, n), NEW i \in 1 .. n
  PROVE  From(l, r)[<<i, i>>] = From(l, r)[<<i + 1, i + 1>>]
<1>1. i \in Places(l) /\ i \in Places(r) /\ i <= Len(l) /\ i <= Len(r) /\ l[i] = r[i]
  BY DEF Alike, Places
<1>2. ~Over(l, i) /\ ~Over(r, i)
  BY <1>1 DEF Over
<1>3. Rank(l, i) = Rank(r, i) /\ Value(l, i) = Value(r, i) /\ (Zero(l, i) <=> Zero(r, i))
  BY <1>1, <1>2 DEF Rank, Value, Zero
<1>4. CASE Zero(l, i)
  <2>1. ~Positive(l, i) /\ ~Positive(r, i)
    BY <1>1, <1>3, <1>4, PlaceFacts
  <2>2. After(l, i) = i + 1 /\ After(r, i) = i + 1
    BY <1>3, <1>4 DEF After
  <2> QED
    BY <1>1, <2>1, <2>2, ZerosPass
<1>5. CASE ~Zero(l, i)
  <2>1. KeyOrder(l, i, r, i) = 0
    BY <1>1, <1>3, KeysAreOrdered
  <2>2. From(l, r)[<<i, i>>] = IF KeyOrder(l, i, r, i) # 0 THEN KeyOrder(l, i, r, i)
                               ELSE IF Over(l, i) THEN 0 ELSE From(l, r)[<<i + 1, i + 1>>]
    BY <1>1, <1>3, <1>5, KeysDecide
  <2> QED
    BY <1>2, <2>1, <2>2
<1> QED
  BY <1>4, <1>5

LEMMA FirstDifference ==
  ASSUME NEW l \in Seq(Tokens), NEW r \in Seq(Tokens), NEW n \in Nat, Alike(l, r, n)
  PROVE  /\ cmp(l, r) = From(l, r)[<<n + 1, n + 1>>]
         /\ n + 1 \in Places(l) /\ n + 1 \in Places(r)
<1> DEFINE T == {m \in Nat : m <= n /\ From(l, r)[<<m + 1, m + 1>>] = From(l, r)[<<1, 1>>]}
           Out == {m \in Nat : m <= n /\ m \notin T}
<1>1. Len(l) \in Nat /\ Len(r) \in Nat
  OBVIOUS
<1>2. Out = {}
  <2> SUFFICES ASSUME Out # {} PROVE FALSE
    OBVIOUS
  <2>1. PICK m \in Out : \A k \in Out : m <= k
    BY Least
  <2>2. m \in Nat /\ m <= n /\ m # 0
    BY <2>1
  <2>3. m - 1 \in Nat /\ m - 1 <= n /\ m \in 1 .. n
    BY <2>2
  <2>4. m - 1 \in T
    <3> HIDE DEF T
    <3> QED
      BY <2>1, <2>2, <2>3
  <2>5. From(l, r)[<<m, m>>] = From(l, r)[<<m + 1, m + 1>>]
    BY <2>3, PrefixPasses
  <2>6. (m - 1) + 1 = m
    BY <2>2
  <2>7. From(l, r)[<<m, m>>] = From(l, r)[<<1, 1>>]
    BY <2>4, <2>6
  <2> QED
    BY <2>1, <2>2, <2>5, <2>7
<1>3. From(l, r)[<<n + 1, n + 1>>] = From(l, r)[<<1, 1>>]
  <2>1. n \in T
    <3> HIDE DEF T
    <3> QED
      BY <1>2
  <2> QED
    BY <2>1
<1>4. cmp(l, r) = From(l, r)[<<1, 1>>]
  BY <1>1, FromUnfolds
<1> QED
  BY <1>1, <1>3, <1>4 DEF Alike, Places

\* Two versions that differ in the last token only, or by one more token.
LEMMA LastToken ==
  ASSUME NEW t \in Seq(Tokens), NEW x \in Tokens, ~(Numeric(x) /\ x.rev = 0)
  PROVE  /\ t \o <<x>> \in Seq(Tokens)
         /\ \A y \in Tokens : ~(Numeric(y) /\ y.rev = 0) /\ TokenRank(x) < TokenRank(y)
              => cmp(t \o <<x>>, t \o <<y>>) = -1
         /\ \A y \in Tokens : ~(Numeric(y) /\ y.rev = 0) /\ TokenRank(x) = TokenRank(y) /\ ValueOf(x) < ValueOf(y)
              => cmp(t \o <<x>>, t \o <<y>>) = -1
         /\ TokenRank(x) < 4 => cmp(t \o <<x>>, t) = -1
         /\ TokenRank(x) > 4 => cmp(t, t \o <<x>>) = -1
<1> DEFINE n == Len(t)
<1>1. n \in Nat
  OBVIOUS
<1>2. ASSUME NEW y \in Tokens, ~(Numeric(y) /\ y.rev = 0)
      PROVE  /\ t \o <<y>> \in Seq(Tokens) /\ Len(t \o <<y>>) = n + 1
             /\ \A i \in 1 .. n : (t \o <<y>>)[i] = t[i]
             /\ (t \o <<y>>)[n + 1] = y
             /\ ~Zero(t \o <<y>>, n + 1) /\ ~Over(t \o <<y>>, n + 1)
             /\ Rank(t \o <<y>>, n + 1) = TokenRank(y) /\ Value(t \o <<y>>, n + 1) = ValueOf(y)
  <2>1. t \o <<y>> \in Seq(Tokens) /\ Len(t \o <<y>>) = n + 1 /\ (t \o <<y>>)[n + 1] = y
    OBVIOUS
  <2>2. \A i \in 1 .. n : (t \o <<y>>)[i] = t[i]
    OBVIOUS
  <2> DEFINE u == t \o <<y>>
  <2>3. u[n + 1] = y /\ Len(u) = n + 1
    BY <2>1
  <2> HIDE DEF u
  <2>4. ~Over(u, n + 1)
    BY <1>1, <2>3 DEF Over
  <2>5. ~Zero(u, n + 1)
    BY <1>2, <2>3 DEF Zero
  <2>6. Rank(u, n + 1) = TokenRank(y) /\ Value(u, n + 1) = ValueOf(y)
    BY <2>3, <2>4 DEF Rank, Value, TokenRank
  <2> QED
    BY <2>1, <2>2, <2>4, <2>5, <2>6 DEF u
<1>3. ~Zero(t, n + 1) /\ Over(t, n + 1) /\ Rank(t, n + 1) = 4
  BY <1>1 DEF Zero, Over, Rank
<1>4. ASSUME NEW l \in Seq(Tokens), NEW r \in Seq(Tokens), Alike(l, r, n), ~Zero(l, n + 1), ~Zero(r, n + 1),
             \/ Rank(l, n + 1) < Rank(r, n + 1)
             \/ Rank(l, n + 1) = Rank(r, n + 1) /\ Value(l, n + 1) < Value(r, n + 1)
      PROVE  cmp(l, r) = -1
  <2>1. n + 1 \in Places(l) /\ n + 1 \in Places(r) /\ cmp(l, r) = From(l, r)[<<n + 1, n + 1>>]
    BY <1>1, <1>4, FirstDifference
  <2>2. KeyOrder(l, n + 1, r, n + 1) = -1
    BY <1>4, <2>1, KeysAreOrdered
  <2>3. From(l, r)[<<n + 1, n + 1>>] = IF KeyOrder(l, n + 1, r, n + 1) # 0 THEN KeyOrder(l, n + 1, r, n + 1)
                                       ELSE IF Over(l, n + 1) THEN 0 ELSE From(l, r)[<<(n + 1) + 1, (n + 1) + 1>>]
    BY <1>4, <2>1, KeysDecide
  <2> QED
    BY <2>1, <2>2, <2>3
<1> DEFINE l == t \o <<x>>
<1>5. /\ l \in Seq(Tokens) /\ Len(l) = n + 1 /\ (\A i \in 1 .. n : l[i] = t[i])
      /\ ~Zero(l, n + 1) /\ ~Over(l, n + 1) /\ Rank(l, n + 1) = TokenRank(x) /\ Value(l, n + 1) = ValueOf(x)
  BY <1>2
<1>6. ASSUME NEW y \in Tokens, ~(Numeric(y) /\ y.rev = 0),
             TokenRank(x) < TokenRank(y) \/ (TokenRank(x) = TokenRank(y) /\ ValueOf(x) < ValueOf(y))
      PROVE  cmp(l, t \o <<y>>) = -1
  <2> DEFINE r == t \o <<y>>
  <2>1. /\ r \in Seq(Tokens) /\ Len(r) = n + 1 /\ (\A i \in 1 .. n : r[i] = t[i])
        /\ ~Zero(r, n + 1) /\ Rank(r, n + 1) = TokenRank(y) /\ Value(r, n + 1) = ValueOf(y)
    BY <1>2, <1>6
  <2> HIDE DEF l, r
  <2>2. Alike(l, r, n)
    BY <1>1, <1>5, <2>1 DEF Alike
  <2>3. cmp(l, r) = -1
    BY <1>4, <1>5, <1>6, <2>1, <2>2
  <2> QED
    BY <2>3 DEF r
<1>7. Alike(l, t, n) /\ Alike(t, l, n)
  <2> HIDE DEF l
  <2> QED
    BY <1>1, <1>5 DEF Alike
<1> HIDE DEF l
<1>8. TokenRank(x) < 4 => cmp(l, t) = -1
  BY <1>3, <1>4, <1>5, <1>7
<1>9. TokenRank(x) > 4 => cmp(t, l) = -1
  <2>1. TokenRank(x) \in 0 .. 8
    BY NullKey
  <2> QED
    BY <1>3, <1>4, <1>5, <1>7, <2>1
<1> QED
  BY <1>5, <1>6, <1>8, <1>9 DEF l

\* A last number 0 changes nothing.
LEMMA LastZero ==
  ASSUME NEW t \in Seq(Tokens)
  PROVE  cmp(t, t \o <<Token("numeric", 0)>>) = 0
<1> DEFINE x == Token("numeric", 0)  r == t \o <<x>>  n == Len(t)
<1>1. n \in Nat /\ x \in Tokens /\ Numeric(x) /\ x.rev = 0
  BY PlainTokens DEF Stages, Token, Numeric
<1>2. r \in Seq(Tokens) /\ Len(r) = n + 1 /\ r[n + 1] = x /\ \A i \in 1 .. n : r[i] = t[i]
  BY <1>1
<1> HIDE DEF x, r
<1>3. Alike(t, r, n)
  BY <1>1, <1>2 DEF Alike
<1>4. n + 1 \in Places(t) /\ n + 1 \in Places(r) /\ cmp(t, r) = From(t, r)[<<n + 1, n + 1>>]
  BY <1>1, <1>2, <1>3, FirstDifference
<1>5. Zero(r, n + 1) /\ ~Zero(t, n + 1) /\ ~Positive(t, n + 1)
  BY <1>1, <1>2 DEF Zero, Positive
<1>6. ~Positive(r, n + 1) /\ After(r, n + 1) = n + 2 /\ After(t, n + 1) = n + 1 /\ n + 2 \in Places(r)
  BY <1>1, <1>2, <1>5 DEF Positive, Zero, After, Places
<1>7. From(t, r)[<<n + 1, n + 1>>] = From(t, r)[<<n + 1, n + 2>>]
  BY <1>2, <1>4, <1>5, <1>6, ZerosPass
<1>8. Over(t, n + 1) /\ Over(r, n + 2)
  BY <1>1, <1>2 DEF Over
<1>9. From(t, r)[<<n + 1, n + 2>>] = 0
  BY <1>2, <1>4, <1>6, <1>8, Rounds
<1> QED
  BY <1>4, <1>7, <1>9 DEF r, x

-----------------------------------------------------------------------------
(***************************************************************************)
(* The revision is one more number at the end.                             *)
(***************************************************************************)
Revised(s, e, n) == s \o <<e, D(n)>>

\* The runs of s read the same with a revision behind them.
LEMMA RunsReadAlike ==
  ASSUME NEW s \in Seq(Runs), NEW e, e.kind = "sep", e.text \in Delimiters, NEW n \in Nat, NEW i \in 1 .. Len(s)
  PROVE  LET u == Revised(s, e, n) IN
         /\ Len(u) = Len(s) + 2 /\ u[i] = s[i]
         /\ DigitsAt(u, i + 1) <=> DigitsAt(s, i + 1)
         /\ try_keyword(u, i) = try_keyword(s, i)
<1> DEFINE u == Revised(s, e, n)
<1>1. /\ Len(s) \in Nat /\ Len(u) = Len(s) + 2 /\ \A j \in 1 .. Len(s) : u[j] = s[j]
      /\ u[Len(s) + 1] = e
  BY DEF Revised, D
<1>2. e.kind # "digits" /\ e.text \in Delimiters
  OBVIOUS
<1> HIDE DEF u
<1>3. i \in Nat /\ i + 1 <= Len(s) + 1 /\ i + 1 \in Nat
  OBVIOUS
<1>4. /\ i + 1 <= Len(s) => i + 1 \in 1 .. Len(s) /\ u[i + 1] = s[i + 1]
      /\ ~(i + 1 <= Len(s)) => i + 1 = Len(s) + 1 /\ u[i + 1] = e
  BY <1>1, <1>3
<1>5. DigitsAt(u, i + 1) <=> DigitsAt(s, i + 1)
  <2>1. CASE i + 1 <= Len(s)
    BY <1>1, <1>3, <1>4, <2>1 DEF DigitsAt
  <2>2. CASE ~(i + 1 <= Len(s))
    BY <1>1, <1>2, <1>3, <1>4, <2>2 DEF DigitsAt
  <2> QED
    BY <2>1, <2>2
<1>6. SegmentEnd(u, i + 1) <=> SegmentEnd(s, i + 1)
  <2>1. CASE i + 1 <= Len(s)
    BY <1>1, <1>3, <1>4, <2>1 DEF SegmentEnd
  <2>2. CASE ~(i + 1 <= Len(s))
    BY <1>1, <1>2, <1>3, <1>4, <2>2 DEF SegmentEnd
  <2> QED
    BY <2>1, <2>2
<1>7. AfterDot(u, i) <=> AfterDot(s, i)
  <2>1. i > 1 => i - 1 \in 1 .. Len(s)
    OBVIOUS
  <2> QED
    BY <1>1, <2>1 DEF AfterDot
<1>8. parse_suffix(u, i + 1) = parse_suffix(s, i + 1)
  <2>1. CASE DigitsAt(s, i + 1)
    <3>1. u[i + 1] = s[i + 1]
      BY <1>4, <2>1 DEF DigitsAt
    <3> QED
      BY <1>5, <2>1, <3>1 DEF parse_suffix
  <2>2. CASE ~DigitsAt(s, i + 1)
    BY <1>5, <2>2 DEF parse_suffix
  <2> QED
    BY <2>1, <2>2
<1>9. u[i].text = s[i].text
  BY <1>1
<1> DEFINE w == s[i].text  k == parse_suffix(s, i + 1)
           a == w \in LongKeyword
           b == w \in DOMAIN ShortKeyword /\ DigitsAt(s, i + 1)
           c == w = "p" /\ (DigitsAt(s, i + 1) \/ SegmentEnd(s, i + 1))
           d == w = "post" /\ AfterDot(s, i)
           bu == w \in DOMAIN ShortKeyword /\ DigitsAt(u, i + 1)
           cu == w = "p" /\ (DigitsAt(u, i + 1) \/ SegmentEnd(u, i + 1))
           du == w = "post" /\ AfterDot(u, i)
<1>10. try_keyword(s, i) =
        CASE a -> Token(w, k) [] b -> Token(ShortKeyword[w], k) [] c -> Token("patch", k)
          [] d -> Token("post", k) [] OTHER -> Text(w)
  BY Zenon DEF try_keyword
<1>11. try_keyword(u, i) =
        CASE a -> Token(w, k) [] bu -> Token(ShortKeyword[w], k) [] cu -> Token("patch", k)
          [] du -> Token("post", k) [] OTHER -> Text(w)
  BY <1>8, <1>9, Zenon DEF try_keyword
<1>12. (b <=> bu) /\ (c <=> cu) /\ (d <=> du)
  BY <1>5, <1>6, <1>7
<1> HIDE DEF w, k, a, b, c, d, bu, cu, du
<1>13. try_keyword(u, i) = try_keyword(s, i)
  BY <1>10, <1>11, <1>12
<1>14. u[i] = s[i]
  BY <1>1
<1> QED
  BY <1>1, <1>5, <1>13, <1>14 DEF u

LEMMA RevisionIsLast ==
  ASSUME NEW s \in Seq(Runs), Words(s), NEW e, e.kind = "sep", e.text \in Delimiters, NEW n \in Nat
  PROVE  tokenize(Revised(s, e, n)) = tokenize(s) \o <<Token("numeric", digits_to_u64(n))>>
<1> DEFINE u == Revised(s, e, n)  x == Token("numeric", digits_to_u64(n))
           h == CHOOSE f : Reads(s, f)  g == CHOOSE f : Reads(u, f)
<1>1. /\ Len(s) \in Nat /\ Len(u) = Len(s) + 2
      /\ u[Len(s) + 1] = e /\ u[Len(s) + 2] = D(n)
  BY DEF Revised, D
<1>2. e.kind = "sep" /\ D(n).kind = "digits" /\ D(n).num = n
  BY DEF D
<1>3. x \in Tokens
  <2>1. digits_to_u64(n) \in Nat /\ "numeric" \in Stages \ {"text"}
    BY VersionAssumption DEF digits_to_u64, Stages
  <2> QED
    BY <2>1, PlainTokens
<1>4. Reads(s, h) /\ Reads(u, g)
  <2>1. Len(s) \in Nat /\ Len(u) \in Nat
    BY <1>1
  <2> HIDE DEF u
  <2> QED
    BY <2>1, SomeReads, Zenon
<1>5. tokenize(s) = h[1] /\ tokenize(u) = g[1]
  BY Zenon DEF tokenize, Reads, Ends
<1> HIDE DEF u, h, g, x
<1>6. /\ \A i \in Ends(s) : h[i] = tokens_at(s, h, i)
      /\ \A i \in Ends(u) : g[i] = tokens_at(u, g, i)
  BY <1>4, Zenon DEF Reads
<1>7. \A i \in Ends(s) : i \in Ends(u) /\ i + 1 \in Ends(u) /\ i \in Nat
  BY <1>1 DEF Ends
<1> DEFINE Ok(i) == h[i] \in Seq(Tokens) /\ g[i] = h[i] \o <<x>>
<1>8. Ok(Len(s) + 1) /\ Ok(Len(s) + 2)
  <2> DEFINE m == Len(s)
  <2>1. m \in Nat /\ m + 1 \in Ends(s) /\ m + 2 \in Ends(s) /\ m + 1 \in Ends(u) /\ m + 2 \in Ends(u)
        /\ m + 3 \in Ends(u)
    BY <1>1 DEF Ends
  <2>2. h[m + 1] = <<>> /\ h[m + 2] = <<>>
    <3>1. h[m + 1] = tokens_at(s, h, m + 1) /\ h[m + 2] = tokens_at(s, h, m + 2)
      BY <1>6, <2>1
    <3> QED
      BY <1>1, <3>1 DEF tokens_at
  <2>3. g[m + 3] = <<>>
    <3>1. g[m + 3] = tokens_at(u, g, m + 3)
      BY <1>6, <2>1
    <3> QED
      BY <1>1, <3>1 DEF tokens_at
  <2>4. g[m + 2] = <<x>> \o g[m + 3]
    <3>1. g[m + 2] = tokens_at(u, g, m + 2)
      BY <1>6, <2>1
    <3>2. (m + 2) + 1 = m + 3 /\ ~(m + 2 > Len(u)) /\ u[m + 2].kind = "digits" /\ u[m + 2].num = n
      BY <1>1, <1>2
    <3> QED
      BY <3>1, <3>2 DEF tokens_at, x
  <2>5. g[m + 1] = g[m + 2]
    <3>1. g[m + 1] = tokens_at(u, g, m + 1)
      BY <1>6, <2>1
    <3>2. (m + 1) + 1 = m + 2 /\ ~(m + 1 > Len(u)) /\ u[m + 1].kind = "sep"
      BY <1>1, <1>2
    <3> QED
      BY <3>1, <3>2 DEF tokens_at
  <2>6. <<x>> \o <<>> = <<x>> /\ <<>> \o <<x>> = <<x>> /\ <<>> \in Seq(Tokens)
    BY <1>3
  <2> QED
    BY <2>2, <2>3, <2>4, <2>5, <2>6
<1>9. ASSUME NEW i \in 1 .. Len(s), \A j \in Ends(s) : j > i => Ok(j)
      PROVE  Ok(i)
  <2>1. /\ i \in Ends(s) /\ i \in Ends(u) /\ i <= Len(s) /\ i \in Nat /\ ~(i > Len(s)) /\ ~(i > Len(u))
        /\ i + 1 \in Ends(s) /\ i + 1 > i /\ i + 2 > i /\ (DigitsAt(s, i + 1) => i + 2 \in Ends(s))
    BY <1>1, FollowingIsLater DEF Ends
  <2>2. Ok(i + 1) /\ (DigitsAt(s, i + 1) => Ok(i + 2))
    BY <1>9, <2>1
  <2>3. h[i] = tokens_at(s, h, i) /\ g[i] = tokens_at(u, g, i)
    BY <1>6, <2>1
  <2>4. u[i] = s[i] /\ (DigitsAt(u, i + 1) <=> DigitsAt(s, i + 1)) /\ try_keyword(u, i) = try_keyword(s, i)
    BY RunsReadAlike DEF u
  <2>5. ASSUME NEW t \in Tokens, NEW ts \in Seq(Tokens)
        PROVE  <<t>> \o ts \in Seq(Tokens) /\ <<t>> \o (ts \o <<x>>) = (<<t>> \o ts) \o <<x>>
    BY <1>3
  <2>6. s[i] \in Runs
    OBVIOUS
  <2>7. CASE s[i].kind = "sep"
    <3>1. h[i] = h[i + 1] /\ g[i] = g[i + 1]
      BY <2>1, <2>3, <2>4, <2>7 DEF tokens_at
    <3> QED
      BY <2>2, <3>1
  <2>8. CASE s[i].kind = "digits"
    <3> DEFINE t == Token("numeric", digits_to_u64(s[i].num))
    <3>1. t \in Tokens
      <4>1. digits_to_u64(s[i].num) \in Nat /\ "numeric" \in Stages \ {"text"}
        BY <2>1, NumbersFit DEF Stages
      <4> QED
        BY <4>1, PlainTokens
    <3>2. h[i] = <<t>> \o h[i + 1] /\ g[i] = <<t>> \o g[i + 1]
      BY <2>1, <2>3, <2>4, <2>8 DEF tokens_at
    <3> HIDE DEF t
    <3> QED
      BY <2>2, <2>5, <3>1, <3>2
  <2>9. CASE s[i].kind = "word"
    <3> DEFINE t == try_keyword(s, i)
    <3>1. t \in Tokens
      BY <2>9, KeywordsAreTokens
    <3>2. CASE t.stage # "text" /\ DigitsAt(s, i + 1)
      <4>1. h[i] = <<t>> \o h[i + 2] /\ g[i] = <<t>> \o g[i + 2]
        BY <2>1, <2>3, <2>4, <2>9, <3>2 DEF tokens_at
      <4> HIDE DEF t
      <4> QED
        BY <2>2, <2>5, <3>1, <3>2, <4>1
    <3>3. CASE ~(t.stage # "text" /\ DigitsAt(s, i + 1))
      <4>1. h[i] = <<t>> \o h[i + 1] /\ g[i] = <<t>> \o g[i + 1]
        BY <2>1, <2>3, <2>4, <2>9, <3>3 DEF tokens_at
      <4> HIDE DEF t
      <4> QED
        BY <2>2, <2>5, <3>1, <4>1
    <3> QED
      BY <3>2, <3>3
  <2> QED
    BY <2>6, <2>7, <2>8, <2>9 DEF Runs
<1> DEFINE T == {k \in Nat : \E i \in Ends(s) : Len(s) + 2 - i = k /\ ~Ok(i)}
<1>10. T = {}
  <2> SUFFICES ASSUME T # {} PROVE FALSE
    OBVIOUS
  <2>1. PICK k \in T : \A m \in T : k <= m
    BY Least
  <2>2. PICK i \in Ends(s) : Len(s) + 2 - i = k /\ ~Ok(i)
    BY <2>1
  <2> HIDE DEF Ok
  <2>3. ASSUME NEW j \in Ends(s), j > i PROVE Ok(j)
    <3>1. Len(s) + 2 - j \in Nat /\ Len(s) + 2 - j < k
      BY <1>1, <2>2, <2>3 DEF Ends
    <3>2. Len(s) + 2 - j \notin T
      BY <2>1, <3>1
    <3> QED
      BY <3>1, <3>2
  <2>4. i \in 1 .. Len(s) \/ i = Len(s) + 1 \/ i = Len(s) + 2
    BY <1>1 DEF Ends
  <2> QED
    BY <1>8, <1>9, <2>2, <2>3, <2>4
<1>11. 1 \in Ends(s) /\ Len(s) + 2 - 1 \in Nat
  BY <1>1 DEF Ends
<1>12. Ok(1)
  <2> HIDE DEF Ok
  <2> QED
    BY <1>10, <1>11
<1> QED
  BY <1>5, <1>12 DEF u, x

LEMMA RevisionTokens ==
  ASSUME NEW v \in Version, NEW n \in Nat
  PROVE  tokenize(pkg_version(Spelling[v], n)) =
           IF n > 0 THEN tokenize(Spelling[v]) \o <<Token("numeric", digits_to_u64(n))>>
           ELSE tokenize(Spelling[v])
<1>1. Spelling[v] \in Seq(Runs) /\ Words(Spelling[v])
  BY SpellingAssumption DEF Version, Words
<1>2. \A e : S(e).kind = "sep" /\ S(e).text = e
  BY DEF S
<1>3. S("_").kind = "sep" /\ S("_").text \in Delimiters
  BY <1>2, Zenon DEF Delimiters
<1>4. tokenize(Revised(Spelling[v], S("_"), n)) = tokenize(Spelling[v]) \o <<Token("numeric", digits_to_u64(n))>>
  BY <1>1, <1>3, RevisionIsLast, Zenon
<1>5. Revised(Spelling[v], S("_"), n) = Spelling[v] \o <<S("_"), D(n)>>
  BY Zenon DEF Revised
<1> QED
  BY <1>4, <1>5, Zenon DEF pkg_version

LEMMA NumbersAreTokens ==
  ASSUME NEW n \in Nat
  PROVE  Token("numeric", n) \in Tokens
<1>1. "numeric" \in Stages \ {"text"}
  BY DEF Stages
<1> QED
  BY <1>1, PlainTokens

\* The tokens the property puts behind a version, in their order.
LEMMA StageRanks ==
  ASSUME NEW n \in Nat
  PROVE  /\ \A st \in Stages \ {"text"} : Token(st, n) \in Tokens
         /\ TokenRank(Token("alpha", n)) = 0 /\ TokenRank(Token("beta", n)) = 1
         /\ TokenRank(Token("pre", n)) = 2 /\ TokenRank(Token("rc", n)) = 3
         /\ TokenRank(Token("patch", n)) = 5 /\ TokenRank(Token("post", n)) = 6
         /\ TokenRank(Token("numeric", n)) = 8 /\ ValueOf(Token("numeric", n)) = n
         /\ Token("numeric", n).rev = n
         /\ \A st \in Stages : Numeric(Token(st, n)) <=> st = "numeric"
<1>1. \A st \in Stages : Token(st, n).stage = st /\ Token(st, n).rev = n
  BY DEF Token
<1>2. \A st \in Stages : Numeric(Token(st, n)) <=> st = "numeric"
  BY <1>1 DEF Numeric
<1>3. \A st \in Stages \ {"numeric"} : TokenRank(Token(st, n)) = stage_rank[st]
  BY <1>1, <1>2 DEF TokenRank, RankOf
<1>4. {"alpha", "beta", "pre", "rc", "patch", "post", "numeric"} \subseteq Stages
  BY DEF Stages
<1>5. TokenRank(Token("numeric", n)) = 8 /\ ValueOf(Token("numeric", n)) = n
  BY <1>1, <1>2, <1>4 DEF TokenRank, ValueOf
<1> QED
  BY <1>1, <1>2, <1>3, <1>4, <1>5, Ranks, PlainTokens

\* Behind any version alpha, beta, pre and rc sort before it in this order, a number 0 as
\* the version itself, patch and post after it; and each revision is greater than the last.
\* (The code saturates numbers at 2^64 - 1, above all the revisions compared here.)
THEOREM StagesAreSorted == MaxU64 >= 2 => (Spec => []StagesSort)
<1> SUFFICES ASSUME MaxU64 >= 2 PROVE Spec => []StagesSort
  OBVIOUS
<1>1. TypeOK => StagesSort
  <2> SUFFICES ASSUME TypeOK PROVE StagesSort
    OBVIOUS
  <2> DEFINE v == Spelling[installed]  t == tokenize(v)
  <2>1. installed \in Version /\ t \in Seq(Tokens)
    BY VersionTokens DEF TypeOK
  <2>2. \A n \in Nat : tokenize(pkg_version(v, n)) =
           IF n > 0 THEN t \o <<Token("numeric", digits_to_u64(n))>> ELSE t
    BY <2>1, RevisionTokens
  <2>3. digits_to_u64(1) = 1 /\ digits_to_u64(2) = 2
    BY VersionAssumption DEF digits_to_u64
  <2> DEFINE N(n) == Token("numeric", n)
  <2>4. /\ tokenize(pkg_version(v, 0)) = t /\ tokenize(pkg_version(v, 1)) = t \o <<N(1)>>
        /\ tokenize(pkg_version(v, 2)) = t \o <<N(2)>>
    <3> HIDE DEF t, v
    <3>1. tokenize(pkg_version(v, 0)) = t
      <4>1. 0 \in Nat /\ ~(0 > 0)
        OBVIOUS
      <4> QED
        BY <2>2, <4>1, Zenon
    <3>2. tokenize(pkg_version(v, 1)) = t \o <<Token("numeric", digits_to_u64(1))>>
      BY <2>2
    <3>3. tokenize(pkg_version(v, 2)) = t \o <<Token("numeric", digits_to_u64(2))>>
      BY <2>2
    <3> QED
      BY <2>3, <3>1, <3>2, <3>3, Zenon
  <2> HIDE DEF t
  <2>5. cmp(t, t \o <<N(1)>>) = -1 /\ cmp(t, t \o <<N(2)>>) = -1 /\ cmp(t \o <<N(1)>>, t \o <<N(2)>>) = -1
    <3>1. \A n \in {1, 2} : /\ N(n) \in Tokens /\ TokenRank(N(n)) = 8 /\ ValueOf(N(n)) = n
                            /\ N(n).rev = n /\ ~(Numeric(N(n)) /\ N(n).rev = 0)
      <4>1. \A n \in {1, 2} : n \in Nat /\ n # 0
        OBVIOUS
      <4>2. \A n \in {1, 2} : /\ N(n) \in Tokens /\ TokenRank(N(n)) = 8 /\ ValueOf(N(n)) = n /\ N(n).rev = n
        <5>1. \A n \in Nat : N(n) \in Tokens
          BY NumbersAreTokens
        <5> QED
          BY <4>1, <5>1, StageRanks
      <4> QED
        BY <4>1, <4>2
    <3> HIDE DEF N
    <3>2. \A n \in {1, 2} : cmp(t, t \o <<N(n)>>) = -1
      BY <2>1, <3>1, LastToken
    <3>3. cmp(t \o <<N(1)>>, t \o <<N(2)>>) = -1
      <4>1. /\ N(1) \in Tokens /\ N(2) \in Tokens /\ TokenRank(N(1)) = TokenRank(N(2))
            /\ ValueOf(N(1)) < ValueOf(N(2))
            /\ ~(Numeric(N(1)) /\ N(1).rev = 0) /\ ~(Numeric(N(2)) /\ N(2).rev = 0)
        BY <3>1
      <4> QED
        BY <2>1, <4>1, LastToken
    <3> QED
      BY <3>2, <3>3
  <2>6. \A r, s \in 0 .. 2 : r < s => cmp(tokenize(pkg_version(v, r)), tokenize(pkg_version(v, s))) = -1
    <3>1. \A r, s \in 0 .. 2 : r < s => (r = 0 /\ s = 1) \/ (r = 0 /\ s = 2) \/ (r = 1 /\ s = 2)
      OBVIOUS
    <3> HIDE DEF v, N
    <3> QED
      BY <2>4, <2>5, <3>1
  <2> DEFINE st(x) == t \o <<x>>
  <2>7. /\ cmp(st(Token("alpha", 1)), st(Token("beta", 0))) = -1
        /\ cmp(st(Token("beta", 1)), st(Token("pre", 0))) = -1
        /\ cmp(st(Token("pre", 1)), st(Token("rc", 0))) = -1
        /\ cmp(st(Token("rc", 1)), t) = -1
        /\ cmp(t, st(Token("patch", 0))) = -1
        /\ cmp(st(Token("patch", 1)), st(Token("post", 0))) = -1
    <3>1. \A n \in {0, 1}, name \in {"alpha", "beta", "pre", "rc", "patch", "post"} :
             Token(name, n) \in Tokens /\ ~Numeric(Token(name, n))
      BY StageRanks DEF Stages
    <3>2. \A n \in {0, 1} :
            /\ TokenRank(Token("alpha", n)) = 0 /\ TokenRank(Token("beta", n)) = 1
            /\ TokenRank(Token("pre", n)) = 2 /\ TokenRank(Token("rc", n)) = 3
            /\ TokenRank(Token("patch", n)) = 5 /\ TokenRank(Token("post", n)) = 6
      BY StageRanks
    <3>3. ASSUME NEW x \in Tokens, NEW y \in Tokens, ~Numeric(x), ~Numeric(y), TokenRank(x) < TokenRank(y)
          PROVE  cmp(st(x), st(y)) = -1
      BY <2>1, <3>3, LastToken
    <3>4. ASSUME NEW x \in Tokens, ~Numeric(x)
          PROVE  /\ TokenRank(x) < 4 => cmp(st(x), t) = -1
                 /\ TokenRank(x) > 4 => cmp(t, st(x)) = -1
      BY <2>1, <3>4, LastToken
    <3> HIDE DEF st
    <3>5. cmp(st(Token("alpha", 1)), st(Token("beta", 0))) = -1
      BY <3>1, <3>2, <3>3
    <3>6. cmp(st(Token("beta", 1)), st(Token("pre", 0))) = -1
      BY <3>1, <3>2, <3>3
    <3>7. cmp(st(Token("pre", 1)), st(Token("rc", 0))) = -1
      BY <3>1, <3>2, <3>3
    <3>8. cmp(st(Token("rc", 1)), t) = -1 /\ cmp(t, st(Token("patch", 0))) = -1
      BY <3>1, <3>2, <3>4
    <3>9. cmp(st(Token("patch", 1)), st(Token("post", 0))) = -1
      BY <3>1, <3>2, <3>3
    <3> QED
      BY <3>5, <3>6, <3>7, <3>8, <3>9
  <2>8. cmp(t, st(Token("numeric", 0))) = 0
    BY <2>1, LastZero
  <2>9. StagesSort =
          /\ \A r, s \in 0 .. 2 : r < s => cmp(tokenize(pkg_version(v, r)), tokenize(pkg_version(v, s))) = -1
          /\ DigitsAt(v, Len(v)) =>
              /\ cmp(st(Token("alpha", 1)), st(Token("beta", 0))) = -1
              /\ cmp(st(Token("beta", 1)), st(Token("pre", 0))) = -1
              /\ cmp(st(Token("pre", 1)), st(Token("rc", 0))) = -1
              /\ cmp(st(Token("rc", 1)), t) = -1
              /\ cmp(t, st(Token("numeric", 0))) = 0
              /\ cmp(t, st(Token("patch", 0))) = -1
              /\ cmp(st(Token("patch", 1)), st(Token("post", 0))) = -1
    BY Zenon DEF StagesSort, t
  <2> HIDE DEF v, st
  <2> QED
    BY <2>6, <2>7, <2>8, <2>9, Zenon
<1> QED
  BY <1>1, Typed, PTL

=============================================================================
