-------------------------- MODULE PkgVersionOrder --------------------------
(***************************************************************************)
(* The comparison of package versions that decides what is outdated        *)
(* (formula/src/version.rs) and the loop it drives: the index names a      *)
(* latest version, upgrade installs it if the installed one is less.       *)
(*                                                                         *)
(* A version string is a sequence of runs: digits, letters, separators.    *)
(* Tokenization never splits a run of letters, so runs are all it sees.    *)
(***************************************************************************)
EXTENDS Integers, Sequences

CONSTANTS
    Spelling,   \* the version strings of one formula, revision included, as a sequence
    Remember,   \* bound: the versions among which past is chosen
    WordRank,   \* WordRank[w]: where word w comes alphabetically
    MaxU64      \* where digits_to_u64 saturates

Version == DOMAIN Spelling

D(n) == [kind |-> "digits", num |-> n, text |-> "none"]
W(w) == [kind |-> "word",   num |-> 0, text |-> w]
S(c) == [kind |-> "sep",    num |-> 0, text |-> c]      \* ".", "-", "_" or another character

Runs == [kind : {"digits", "word", "sep"}, num : Nat, text : STRING]

ASSUME VersionAssumption == Remember \subseteq Version /\ MaxU64 \in Nat
ASSUME WordAssumption == \A w \in DOMAIN WordRank : WordRank[w] \in Int
ASSUME SpellingAssumption == Spelling \in Seq(Seq(Runs))
                             /\ \A v \in Version : \A i \in DOMAIN Spelling[v] :
                                   Spelling[v][i].kind = "word" => Spelling[v][i].text \in DOMAIN WordRank

----------------------------------------------------------------------------
(***************************************************************************)
(* Tokens.  The order of the stages is                                     *)
(* alpha < beta < pre < rc < nothing = 0 < number < patch < post < text.   *)
(***************************************************************************)
stage_rank == [alpha |-> 0, beta |-> 1, pre |-> 2, rc |-> 3, numeric |-> 4, patch |-> 5,
               post |-> 6, text |-> 7]
NULL_RANK == 4

Token(stage, rev) == [stage |-> stage, rev |-> rev, word |-> "none"]
Text(w)           == [stage |-> "text", rev |-> 0, word |-> w]

digits_to_u64(n) == IF n > MaxU64 THEN MaxU64 ELSE n

DigitsAt(s, i)  == i <= Len(s) /\ s[i].kind = "digits"
parse_suffix(s, i) == IF DigitsAt(s, i) THEN digits_to_u64(s[i].num) ELSE 0
Delimiters       == {".", "-", "_"}
SegmentEnd(s, i) == i > Len(s) \/ s[i].text \in Delimiters
AfterDot(s, i)   == i > 1 /\ s[i - 1].text = "."

LongKeyword  == {"alpha", "beta", "pre", "rc"}
ShortKeyword == [a |-> "alpha", b |-> "beta"]

\* What the run of letters at i and the digits after it mean.
try_keyword(s, i) ==
    LET w == s[i].text IN
    CASE w \in LongKeyword                             -> Token(w, parse_suffix(s, i + 1))
      [] w \in DOMAIN ShortKeyword /\ DigitsAt(s, i + 1) ->
             Token(ShortKeyword[w], parse_suffix(s, i + 1))
      [] w = "p" /\ (DigitsAt(s, i + 1) \/ SegmentEnd(s, i + 1)) ->
             Token("patch", parse_suffix(s, i + 1))
      [] w = "post" /\ AfterDot(s, i)                    -> Token("post", parse_suffix(s, i + 1))
      [] OTHER                                           -> Text(w)

\* The tokens from i on; rest[j] are those from j on.  Separators and other characters
\* are passed over.
tokens_at(s, rest, i) ==
    IF i > Len(s) THEN <<>>
    ELSE IF s[i].kind = "digits" THEN <<Token("numeric", digits_to_u64(s[i].num))>> \o rest[i + 1]
    ELSE IF s[i].kind = "sep" THEN rest[i + 1]
    ELSE LET t == try_keyword(s, i) IN
         <<t>> \o rest[IF t.stage # "text" /\ DigitsAt(s, i + 1) THEN i + 2 ELSE i + 1]

tokenize(s) ==
    LET rest[i \in 1 .. Len(s) + 2] == tokens_at(s, rest, i) IN rest[1]

from_str_ok(s) == tokenize(s) # <<>>

----------------------------------------------------------------------------
(***************************************************************************)
(* Comparison: -1, 0 or 1.                                                 *)
(***************************************************************************)
Sign(n) == IF n < 0 THEN -1 ELSE IF n > 0 THEN 1 ELSE 0

cmp_tokens(l, r) ==
    IF l.stage # r.stage THEN Sign(stage_rank[l.stage] - stage_rank[r.stage])
    ELSE IF l.stage = "text" THEN Sign(WordRank[l.word] - WordRank[r.word])
    ELSE Sign(l.rev - r.rev)

\* Mutant of cmp_token_vs_null: only numbers are compared with nothing.
cmp_token_vs_nullNumeric(t) == IF t.stage = "numeric" THEN Sign(t.rev) ELSE 0

cmp_token_vs_null(t) ==
    IF t.stage = "numeric" THEN Sign(t.rev) ELSE Sign(stage_rank[t.stage] - NULL_RANK)

Numeric(t) == t.stage = "numeric"

\* Mutant: a number on the right never decides against a word on the left.
compare_atLeftFirst(l, r, from, li, ri) ==
    CASE li > Len(l) /\ ri > Len(r)   -> 0
      [] li <= Len(l) /\ ri > Len(r)  ->
           LET o == cmp_token_vs_null(l[li]) IN IF o # 0 THEN o ELSE from[<<li + 1, ri>>]
      [] li > Len(l) /\ ri <= Len(r)  ->
           LET o == cmp_token_vs_null(r[ri]) IN IF o # 0 THEN -o ELSE from[<<li, ri + 1>>]
      [] li <= Len(l) /\ ri <= Len(r) ->
           IF Numeric(l[li]) = Numeric(r[ri])
           THEN LET o == cmp_tokens(l[li], r[ri]) IN IF o # 0 THEN o ELSE from[<<li + 1, ri + 1>>]
           ELSE IF Numeric(l[li])
           THEN IF cmp_token_vs_null(l[li]) = 1 THEN 1 ELSE from[<<li + 1, ri>>]
           ELSE from[<<li, ri + 1>>]

\* A round of the loop of Ord::cmp at li and ri, where from[p] is what the loop says from p
\* on.  The side that has run out compares as nothing; a number against a word decides if
\* it is not 0 and is skipped if it is.
compare_at(l, r, from, li, ri) ==
    CASE li > Len(l) /\ ri > Len(r)   -> 0
      [] li <= Len(l) /\ ri > Len(r)  ->
           LET o == cmp_token_vs_null(l[li]) IN IF o # 0 THEN o ELSE from[<<li + 1, ri>>]
      [] li > Len(l) /\ ri <= Len(r)  ->
           LET o == cmp_token_vs_null(r[ri]) IN IF o # 0 THEN -o ELSE from[<<li, ri + 1>>]
      [] li <= Len(l) /\ ri <= Len(r) ->
           IF Numeric(l[li]) = Numeric(r[ri])
           THEN LET o == cmp_tokens(l[li], r[ri]) IN IF o # 0 THEN o ELSE from[<<li + 1, ri + 1>>]
           ELSE IF Numeric(l[li])
           THEN IF cmp_token_vs_null(l[li]) = 1 THEN 1 ELSE from[<<li + 1, ri>>]
           ELSE IF cmp_token_vs_null(r[ri]) = 1 THEN -1 ELSE from[<<li, ri + 1>>]

Positions(l, r) == (1 .. Len(l) + 1) \X (1 .. Len(r) + 1)

cmp(l, r) ==
    LET from[p \in Positions(l, r)] == compare_at(l, r, from, p[1], p[2]) IN from[<<1, 1>>]

Order == [p \in Version \X Version |-> cmp(tokenize(Spelling[p[1]]), tokenize(Spelling[p[2]]))]
compared(a, b) == Order[<<a, b>>]

\* pkg_version: the revision is one more segment of the string.
pkg_version(s, revision) == IF revision > 0 THEN s \o <<S("_"), D(revision)>> ELSE s

\* Mutant of is_outdated: whatever is not the latest version.
is_outdatedOther(inst, lat) == inst # lat

\* A version that has no token at all is compared as a string.
is_outdated(inst, lat) ==
    IF from_str_ok(Spelling[inst]) /\ from_str_ok(Spelling[lat]) THEN compared(inst, lat) = -1
    ELSE inst # lat

----------------------------------------------------------------------------
VARIABLES
    installed,  \* the version of the visible keg
    latest,     \* the version the index names
    past        \* a version upgrade once replaced, any one; 0 at first

vars == <<installed, latest, past>>

TypeOK == installed \in Version /\ latest \in Version /\ past \in Version \union {0}

Init == installed \in Version /\ latest = installed /\ past = 0

\* bd update: maintainers publish any version next, a withdrawn one included.
Update(v) == latest' = v /\ UNCHANGED <<installed, past>>

\* build_upgrade_candidate lets upgrade install the latest version.
Upgrade ==
    /\ is_outdated(installed, latest)
    /\ installed' = latest
    /\ past' \in {past} \union ({installed} \intersect Remember)
    /\ UNCHANGED latest

Next == Upgrade \/ \E v \in Version : Update(v)

Spec == Init /\ [][Next]_vars

----------------------------------------------------------------------------
(***************************************************************************)
(* Properties.                                                             *)
(***************************************************************************)
\* Ord::cmp is a total order on versions up to equality: swapping the sides swaps
\* the answer, and any third version falls where the first two tell it to.
TotalOrder ==
    LET a == installed  b == latest IN
    /\ compared(a, b) = -compared(b, a)
    /\ \A c \in Version : compared(a, b) <= 0 /\ compared(b, c) <= 0 =>
         /\ compared(a, c) <= 0
         /\ compared(a, c) = 0 => compared(a, b) = 0 /\ compared(b, c) = 0

\* However the index moves, upgrade never comes back to a version it left, nor to
\* one that compares equal to it: what is installed only ever rises.
NeverDowngrades == past # 0 => compared(past, installed) = -1

\* version.rs, the hierarchy in the comment of Token: behind any version that ends
\* in a number the stages sort around the plain version.  A formula that is only rebuilt
\* gets a greater revision, and a greater revision is a greater version, whatever it looks like.
StagesSort ==
    LET v == Spelling[installed]
        stage(s) == tokenize(v) \o <<s>>
        less(x, y) == cmp(x, y) = -1
        revised(r) == tokenize(pkg_version(v, r))
    IN  /\ \A r, s \in 0 .. 2 : r < s => less(revised(r), revised(s))
        /\ DigitsAt(v, Len(v)) =>
          /\ less(stage(Token("alpha", 1)), stage(Token("beta", 0)))
          /\ less(stage(Token("beta", 1)), stage(Token("pre", 0)))
          /\ less(stage(Token("pre", 1)), stage(Token("rc", 0)))
          /\ less(stage(Token("rc", 1)), tokenize(v))
          /\ cmp(tokenize(v), stage(Token("numeric", 0))) = 0
          /\ less(tokenize(v), stage(Token("patch", 0)))
          /\ less(stage(Token("patch", 1)), stage(Token("post", 0)))
=============================================================================
