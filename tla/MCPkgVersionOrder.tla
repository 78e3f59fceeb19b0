------------------------ MODULE MCPkgVersionOrder ------------------------
(***************************************************************************)
(* Version strings for TLC.  Dotted: segments joined by dots, every kind   *)
(* of token, zero and not zero, up to two, and three of 0, 1 and rc.       *)
(* Suffixed: a number with the suffixes that occur in formulae.            *)
(***************************************************************************)
EXTENDS PkgVersionOrder

Words == <<"a", "alpha", "b", "beta", "foo", "p", "post", "pre", "rc", ".", "-", "_">>
MCWordRank == [w \in {Words[i] : i \in DOMAIN Words} |-> CHOOSE i \in DOMAIN Words : Words[i] = w]

Segment == <<D(0), D(1), W("rc"), W("p"), W("foo")>>

Dotted ==
    LET dot == S(".")
        at(i, n, place) == Segment[(((i - 1) \div place) % n) + 1]
    IN  [i \in 1 .. 5  |-> <<at(i, 5, 1)>>]
          \o [i \in 1 .. 25 |-> <<at(i, 5, 5), dot, at(i, 5, 1)>>]
          \o [i \in 1 .. 27 |-> <<at(i, 3, 9), dot, at(i, 3, 3), dot, at(i, 3, 1)>>]

Suffix == << <<>>,
    <<W("alpha")>>, <<W("beta")>>, <<W("pre")>>, <<W("rc")>>, <<W("p")>>, <<W("a")>>,
    <<W("post")>>, <<W("alpha"), D(1)>>, <<W("a"), D(2)>>, <<W("b"), D(1)>>, <<W("rc"), D(1)>>,
    <<W("rc"), D(2)>>, <<W("p"), D(1)>>, <<W("p"), D(2)>>, <<W("post"), D(1)>>,
    <<S("."), W("post"), D(1)>>, <<S("-"), W("p"), D(1)>>, <<S("-"), W("beta"), D(1)>>,
    <<S("."), D(1)>>, <<S("_"), D(1)>>, <<S("."), D(5)>>, <<S("."), D(6)>> >>

Suffixed == [i \in DOMAIN Suffix |-> <<D(1)>> \o Suffix[i]]
              \o [i \in DOMAIN Suffix |-> <<D(0), S(".")>> \o Suffix[i]]

MCOrder == Dotted \o Suffixed
\* The forms of 1 that a formula goes through.
MCPast  == Len(Dotted) + 1 .. Len(Dotted) + Len(Suffix)
=============================================================================
