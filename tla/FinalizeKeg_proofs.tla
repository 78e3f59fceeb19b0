------------------------- MODULE FinalizeKeg_proofs -------------------------
(***************************************************************************)
(* FinalizeKeg proved: PreHookState, UserFilesKept and FailureLeavesPrefix *)
(* for every prefix, keg and .bottle, and every hook that changes the keg  *)
(* and what is below its roots only, and adds directories where no root    *)
(* covers them.  First what paths and trees are and what the file          *)
(* operations do to them; then three invariants, each on top of the one    *)
(* before: what the hook does not reach is as it found it, but for such    *)
(* directories (HookInv), what was there before is not touched (UserInv),  *)
(* and everything new is in the undo log, a link of the keg, a directory   *)
(* above one or one that no root covers (AccountInv).                      *)
(***************************************************************************)
EXTENDS FinalizeKeg, TLAPS
LOCAL INSTANCE SequencesExt
LOCAL INSTANCE Functions
LOCAL INSTANCE FiniteSetTheorems

----------------------------------------------------------------------------
(***************************************************************************)
(* Paths.                                                                  *)
(***************************************************************************)
\* A path is the sequence of its names.
LEMMA PathIsSeq ==
    ASSUME NEW p, IsPath(p)
    PROVE  /\ Len(p) \in Nat /\ DOMAIN p = 1 .. Len(p)
           /\ p = [i \in 1 .. Len(p) |-> p[i]]
BY DEF IsPath

\* A path is below another one if it begins with all its names.
LEMMA UnderNames ==
    ASSUME NEW d, IsPath(d), NEW p, IsPath(p)
    PROVE  Under(d, p) <=> Len(d) <= Len(p) /\ \A i \in 1 .. Len(d) : d[i] = p[i]
<1>1. Len(d) \in Nat /\ Len(p) \in Nat /\ DOMAIN d = 1 .. Len(d)
  BY PathIsSeq
<1>2. CASE Len(d) <= Len(p)
  <2>1. SubSeq(d, 1, Len(d)) = [i \in 1 .. Len(d) |-> d[i]] /\ SubSeq(p, 1, Len(d)) = [i \in 1 .. Len(d) |-> p[i]]
    BY <1>1, <1>2 DEF IsPath
  <2> QED BY <1>1, <1>2, <2>1 DEF Under, IsPrefix
<1>3. CASE ~(Len(d) <= Len(p))
  BY <1>1, <1>3 DEF Under, IsPrefix
<1> QED BY <1>1, <1>2, <1>3

\* A function on 1 .. n is a path.
LEMMA MakePath ==
    ASSUME NEW s, NEW n \in Nat, s = [i \in 1 .. n |-> s[i]]
    PROVE  IsPath(s) /\ Len(s) = n
<1> DEFINE S == {s[i] : i \in DOMAIN s}
<1>1. DOMAIN s = 1 .. n
  OBVIOUS
<1>2. \A i \in 1 .. n : s[i] \in S
  BY <1>1
<1> HIDE DEF S
<1>3. s \in [1 .. n -> S]
  BY <1>2
<1>4. s \in Seq(S)
  BY <1>3
<1> QED BY <1>1, <1>4 DEF IsPath, S

\* The first n names of a path are a path.
LEMMA FirstNames ==
    ASSUME NEW p, IsPath(p), NEW n \in 0 .. Len(p)
    PROVE  /\ IsPath(SubSeq(p, 1, n)) /\ Len(SubSeq(p, 1, n)) = n
           /\ \A i \in 1 .. n : SubSeq(p, 1, n)[i] = p[i]
<1> DEFINE s == SubSeq(p, 1, n)
<1>1. Len(p) \in Nat /\ DOMAIN p = 1 .. Len(p) /\ n \in Nat
  BY PathIsSeq
<1>2. s = [i \in 1 .. n |-> p[i]]
  BY <1>1 DEF IsPath
<1>3. s = [i \in 1 .. n |-> s[i]] /\ \A i \in 1 .. n : s[i] = p[i]
  BY <1>2
<1>4. IsPath(s) /\ Len(s) = n
  <2> HIDE DEF s
  <2> QED BY <1>1, <1>3, MakePath
<1> QED BY <1>3, <1>4

\* Two paths with the same names are one.
LEMMA SameNames ==
    ASSUME NEW p, IsPath(p), NEW q, IsPath(q), Len(p) = Len(q), \A i \in 1 .. Len(p) : p[i] = q[i]
    PROVE  p = q
<1>1. p = [i \in 1 .. Len(p) |-> p[i]] /\ q = [i \in 1 .. Len(p) |-> q[i]]
  BY PathIsSeq
<1> QED BY <1>1

\* The directories above a path are the shorter paths it is below, without the prefix.
LEMMA AncestorsBelow ==
    ASSUME NEW p, IsPath(p)
    PROVE  \A q : q \in Ancestors(p) <=> IsPath(q) /\ Len(q) >= 1 /\ Len(q) < Len(p) /\ Under(q, p)
<1> TAKE q
<1>1. Len(p) \in Nat
  BY PathIsSeq
<1>2. ASSUME q \in Ancestors(p)
      PROVE  IsPath(q) /\ Len(q) >= 1 /\ Len(q) < Len(p) /\ Under(q, p)
  <2>1. PICK n \in 1 .. Len(p) - 1 : q = SubSeq(p, 1, n)
    BY <1>2 DEF Ancestors
  <2>2. n \in 0 .. Len(p) /\ n \in Nat /\ n >= 1 /\ n < Len(p)
    BY <1>1
  <2>3. IsPath(q) /\ Len(q) = n /\ \A i \in 1 .. n : q[i] = p[i]
    BY <2>1, <2>2, FirstNames
  <2> QED BY <1>1, <2>2, <2>3, UnderNames
<1>3. ASSUME IsPath(q), Len(q) >= 1, Len(q) < Len(p), Under(q, p)
      PROVE  q \in Ancestors(p)
  <2>1. Len(q) \in Nat /\ Len(q) \in 0 .. Len(p)
    BY <1>1, <1>3, PathIsSeq
  <2>2. q = SubSeq(p, 1, Len(q))
    <3> DEFINE s == SubSeq(p, 1, Len(q))
    <3>1. IsPath(s) /\ Len(s) = Len(q) /\ \A i \in 1 .. Len(q) : s[i] = p[i]
      BY <2>1, FirstNames
    <3>2. \A i \in 1 .. Len(q) : q[i] = p[i]
      BY <1>3, UnderNames
    <3> HIDE DEF s
    <3>3. q = s
      BY <1>3, <3>1, <3>2, SameNames
    <3> QED BY <3>3 DEF s
  <2>3. Len(q) \in 1 .. Len(p) - 1
    BY <1>1, <1>3, <2>1
  <2>4. \E n \in 1 .. Len(p) - 1 : q = SubSeq(p, 1, n)
    BY ONLY <2>2, <2>3, Zenon
  <2> QED BY <2>4 DEF Ancestors
<1> QED BY <1>2, <1>3

\* Being below is a partial order on paths, and the paths above one path are in line.
LEMMA UnderOrder ==
    ASSUME NEW p, IsPath(p), NEW q, IsPath(q), NEW r, IsPath(r)
    PROVE  /\ Under(p, p)
           /\ Under(p, q) /\ Under(q, r) => Under(p, r)
           /\ Under(p, q) /\ Under(q, p) => p = q
           /\ Under(p, r) /\ Under(q, r) => Under(p, q) \/ Under(q, p)
           /\ Under(p, q) /\ Len(p) = Len(q) => p = q
<1>1. Len(p) \in Nat /\ Len(q) \in Nat /\ Len(r) \in Nat
  BY PathIsSeq
<1>2. /\ Under(p, p)
      /\ Under(p, q) /\ Under(q, r) => Under(p, r)
      /\ Under(p, r) /\ Under(q, r) => Under(p, q) \/ Under(q, p)
  BY <1>1, UnderNames
<1>3. Under(p, q) /\ Len(p) = Len(q) => p = q
  BY <1>1, UnderNames, SameNames
<1>4. Under(p, q) /\ Under(q, p) => Len(p) = Len(q)
  BY <1>1, UnderNames
<1> QED BY <1>2, <1>3, <1>4

\* What is below a path that is not the prefix begins with the same name.
LEMMA SameTop ==
    ASSUME NEW p, IsPath(p), NEW q, IsPath(q), Under(p, q), p # <<>>
    PROVE  q # <<>> /\ Len(p) >= 1 /\ Len(q) >= 1 /\ q[1] = p[1]
<1>1. Len(p) \in Nat /\ Len(q) \in Nat /\ Len(p) # 0
  <2>1. Len(p) = 0 => p = <<>>
    BY DEF IsPath
  <2> QED BY <2>1, PathIsSeq
<1>2. Len(p) <= Len(q) /\ p[1] = q[1]
  BY <1>1, UnderNames
<1>3. Len(<<>>) = 0
  OBVIOUS
<1> QED BY <1>1, <1>2, <1>3

\* The directory a path is in.
LEMMA ParentOf ==
    ASSUME NEW p, IsPath(p), Len(p) >= 1
    PROVE  /\ IsPath(Parent(p)) /\ Len(Parent(p)) = Len(p) - 1 /\ Under(Parent(p), p)
           /\ Len(p) >= 2 => Ancestors(p) = Ancestors(Parent(p)) \union {Parent(p)}
<1> DEFINE d == Parent(p)
<1>1. Len(p) \in Nat /\ Len(p) - 1 \in 0 .. Len(p) /\ Len(p) - 1 \in Nat
  BY PathIsSeq
<1>2. /\ IsPath(d) /\ Len(d) = Len(p) - 1
      /\ \A i \in 1 .. Len(p) - 1 : d[i] = p[i]
  BY <1>1, FirstNames DEF Parent, Front
<1> HIDE DEF d
<1>3. Under(d, p)
  BY <1>1, <1>2, UnderNames
<1>4. ASSUME Len(p) >= 2, NEW q
      PROVE  q \in Ancestors(p) <=> q \in Ancestors(d) \union {d}
  <2>1. q \in Ancestors(p) <=> IsPath(q) /\ Len(q) >= 1 /\ Len(q) < Len(p) /\ Under(q, p)
    BY AncestorsBelow
  <2>2. q \in Ancestors(d) <=> IsPath(q) /\ Len(q) >= 1 /\ Len(q) < Len(d) /\ Under(q, d)
    BY <1>2, AncestorsBelow
  <2>3. d \in Ancestors(p)
    BY <1>1, <1>2, <1>3, <1>4, AncestorsBelow
  <2>4. ASSUME IsPath(q)
        PROVE  /\ Len(q) \in Nat
               /\ Len(q) < Len(p) /\ Under(q, p) => Under(q, d)
               /\ Under(q, d) => Under(q, p)
               /\ Under(q, d) /\ Len(q) = Len(d) => q = d
    BY <1>1, <1>2, <1>3, <2>4, PathIsSeq, UnderNames, UnderOrder
  <2> QED BY <1>1, <1>2, <2>1, <2>2, <2>3, <2>4
<1> QED BY <1>2, <1>3, <1>4 DEF d

\* The directories above a directory above a path are above the path; those above one
\* path are above each other.
LEMMA AncestorsChain ==
    ASSUME NEW p, IsPath(p), NEW a \in Ancestors(p)
    PROVE  /\ Ancestors(a) \subseteq Ancestors(p)
           /\ \A b : IsPath(b) /\ b # <<>> /\ Under(b, a) => b \in Ancestors(a) \union {a}
           /\ \A b : IsPath(b) /\ Under(b, p) => Under(b, a) \/ a \in Ancestors(b)
           /\ a # p /\ a # <<>> /\ a[1] = p[1]
<1>1. Len(p) \in Nat /\ IsPath(a) /\ Len(a) \in Nat /\ Len(a) >= 1 /\ Len(a) < Len(p) /\ Under(a, p)
  BY AncestorsBelow, PathIsSeq
<1>2. Ancestors(a) \subseteq Ancestors(p)
  <2> SUFFICES ASSUME NEW b \in Ancestors(a) PROVE b \in Ancestors(p)
    OBVIOUS
  <2>1. IsPath(b) /\ Len(b) \in Nat /\ Len(b) >= 1 /\ Len(b) < Len(a) /\ Under(b, a)
    BY <1>1, AncestorsBelow, PathIsSeq
  <2>2. Under(b, p)
    BY <1>1, <2>1, UnderOrder
  <2> QED BY <1>1, <2>1, <2>2, AncestorsBelow
<1>3. ASSUME NEW b, IsPath(b), b # <<>>, Under(b, a) PROVE b \in Ancestors(a) \union {a}
  <2>1. Len(b) \in Nat /\ Len(b) >= 1 /\ Len(b) <= Len(a)
    BY <1>1, <1>3, PathIsSeq, SameTop, UnderNames
  <2>2. Len(b) = Len(a) => b = a
    BY <1>1, <1>3, UnderOrder
  <2> QED BY <1>1, <1>3, <2>1, <2>2, AncestorsBelow
<1>4. ASSUME NEW b, IsPath(b), Under(b, p) PROVE Under(b, a) \/ a \in Ancestors(b)
  <2>1. Len(b) \in Nat /\ (Under(b, a) \/ Under(a, b))
    BY <1>1, <1>4, PathIsSeq, UnderOrder
  <2>2. Under(a, b) => Len(a) < Len(b) \/ (a = b /\ Under(b, a))
    BY <1>1, <1>4, <2>1, UnderNames, UnderOrder
  <2> QED BY <1>1, <1>4, <2>1, <2>2, AncestorsBelow
<1>5. a # p /\ a # <<>> /\ a[1] = p[1]
  <2>1. a # <<>>
    BY <1>1
  <2> QED BY <1>1, <2>1, SameTop
<1> QED BY <1>2, <1>3, <1>4, <1>5

\* A name after a path.
LEMMA AppendPath ==
    ASSUME NEW e, IsPath(e), NEW x
    PROVE  /\ Len(e) \in Nat /\ IsPath(Append(e, x)) /\ Len(Append(e, x)) = Len(e) + 1
           /\ \A i \in 1 .. Len(e) : Append(e, x)[i] = e[i]
           /\ Append(e, x) = [i \in 1 .. Len(e) + 1 |-> IF i = Len(e) + 1 THEN x ELSE e[i]]
<1> DEFINE T == {e[i] : i \in DOMAIN e} \union {x}  A == Append(e, x)
<1>1. DOMAIN e = 1 .. Len(e) /\ Len(e) \in Nat /\ e = [i \in 1 .. Len(e) |-> e[i]]
  BY PathIsSeq
<1>2. \A i \in 1 .. Len(e) : e[i] \in T
  BY <1>1
<1>3. x \in T
  OBVIOUS
<1> HIDE DEF T
<1>4. e \in [1 .. Len(e) -> T]
  BY <1>1, <1>2
<1>5. e \in Seq(T)
  BY <1>1, <1>4
<1>6. A \in Seq(T) /\ Len(A) = Len(e) + 1
  BY <1>3, <1>5
<1>7. \A i \in 1 .. Len(e) + 1 : A[i] = IF i = Len(e) + 1 THEN x ELSE e[i]
  BY <1>3, <1>5
<1> HIDE DEF A
<1>8. A = [i \in 1 .. Len(e) + 1 |-> A[i]] /\ Len(e) + 1 \in Nat
  BY <1>1, <1>6
<1>9. A = [i \in 1 .. Len(e) + 1 |-> IF i = Len(e) + 1 THEN x ELSE e[i]]
  BY <1>7, <1>8
<1>10. IsPath(A) /\ \A i \in 1 .. Len(e) : A[i] = e[i]
  BY <1>1, <1>7, <1>8, MakePath
<1> QED BY <1>1, <1>6, <1>9, <1>10 DEF A

\* A path and its .default are in the same directory.
LEMMA DefaultOf ==
    ASSUME NEW p, IsPath(p), Len(p) >= 2
    PROVE  LET d == default_install_path(p) IN
           /\ IsPath(d) /\ Len(d) = Len(p) /\ d[1] = p[1] /\ d # <<>>
           /\ Parent(d) = Parent(p) /\ Ancestors(d) = Ancestors(p)
<1> DEFINE d == default_install_path(p)  e == Parent(p)  n == Len(p)
<1>1. n \in Nat /\ IsPath(e) /\ Len(e) = n - 1 /\ Under(e, p)
  BY PathIsSeq, ParentOf
<1>2. e = [i \in 1 .. n - 1 |-> e[i]] /\ e[1] = p[1]
  <2>1. n - 1 \in 0 .. n /\ e = SubSeq(p, 1, n - 1)
    BY <1>1 DEF Parent, Front
  <2>2. e[1] = p[1]
    BY <1>1, <2>1, FirstNames
  <2> QED BY <1>1, <2>2, PathIsSeq
<1>3. d = [i \in 1 .. n |-> IF i = n THEN Name(p) \o ".default" ELSE e[i]]
  <2> DEFINE x == Name(p) \o ".default"
  <2>1. d = Append(e, x)
    BY DEF default_install_path
  <2>2. Append(e, x) = [i \in 1 .. Len(e) + 1 |-> IF i = Len(e) + 1 THEN x ELSE e[i]]
    <3> HIDE DEF x, e
    <3> QED BY <1>1, AppendPath
  <2>3. Len(e) + 1 = n
    BY <1>1
  <2> HIDE DEF d, x, e, n
  <2>4. d = [i \in 1 .. n |-> IF i = n THEN x ELSE e[i]]
    BY <2>1, <2>2, <2>3
  <2> QED BY <2>4 DEF x
<1> HIDE DEF d, e, n
<1>4. d = [i \in 1 .. n |-> d[i]] /\ \A i \in 1 .. n - 1 : d[i] = e[i]
  BY <1>1, <1>3
<1>5. IsPath(d) /\ Len(d) = n
  BY <1>1, <1>4, MakePath
<1>6. d[1] = p[1] /\ d # <<>> /\ n >= 2
  <2>1. n >= 2 /\ 1 \in 1 .. n - 1
    BY <1>1 DEF n
  <2>2. d[1] = p[1]
    BY <1>2, <1>4, <2>1
  <2>3. Len(<<>>) = 0
    OBVIOUS
  <2> QED BY <1>5, <2>1, <2>2, <2>3
<1>7. Parent(d) = e
  <2>1. IsPath(Parent(d)) /\ Len(Parent(d)) = n - 1 /\ Parent(d) = SubSeq(d, 1, n - 1)
    BY <1>1, <1>5, <1>6, ParentOf DEF Parent, Front
  <2>2. n - 1 \in 0 .. Len(d)
    BY <1>1, <1>5, <1>6
  <2>3. \A i \in 1 .. n - 1 : Parent(d)[i] = d[i]
    BY <1>5, <2>1, <2>2, FirstNames
  <2> QED BY <1>1, <1>4, <2>1, <2>3, SameNames
<1>8. Ancestors(d) = Ancestors(p)
  <2>1. n >= 1 /\ Len(d) >= 2
    BY <1>1, <1>5, <1>6
  <2>2. Ancestors(d) = Ancestors(e) \union {e}
    BY <1>5, <1>7, <2>1, ParentOf
  <2>3. Ancestors(p) = Ancestors(e) \union {e}
    BY <2>1, ParentOf DEF e, n
  <2> QED BY <2>2, <2>3
<1> QED BY <1>5, <1>6, <1>7, <1>8 DEF d, e, n

\* What is in the keg is in the Cellar.
InCellar(p) == p # <<>> /\ p[1] = "Cellar"
LEMMA KegInCellar ==
    /\ IsPath(keg_path) /\ Len(keg_path) \in Nat /\ Len(keg_path) >= 2
    /\ \A q : IsPath(q) /\ Under(keg_path, q) => InCellar(q)
<1>1. IsPath(keg_path) /\ Len(keg_path) >= 2 /\ keg_path[1] = "Cellar" /\ Len(keg_path) \in Nat
  BY KegAssumption, PathIsSeq
<1>2. keg_path # <<>>
  BY <1>1
<1> QED BY <1>1, <1>2, SameTop DEF InCellar

\* A linked file of the keg has its link below one of the linkable directories.
LEMMA LinkPathOf ==
    ASSUME NEW t, NEW q \in LinkedFiles(t), IsPath(q)
    PROVE  /\ IsPath(LinkPath(q)) /\ Len(LinkPath(q)) >= 2 /\ LinkPath(q) # <<>>
           /\ LinkPath(q)[1] \in LINKABLE_DIRS /\ ~InCellar(LinkPath(q))
           /\ \A a \in Ancestors(LinkPath(q)) : IsPath(a) /\ a # <<>> /\ ~InCellar(a)
           /\ Under(keg_path, keg_path \o LinkPath(q)) /\ IsPath(keg_path \o LinkPath(q))
<1> DEFINE k == Len(keg_path)  n == Len(q)  x == LinkPath(q)
<1>1. k \in Nat /\ n \in Nat /\ IsPath(keg_path)
  BY KegInCellar, PathIsSeq
<1>2. n > k + 1 /\ LinkPath(q)[1] \in LINKABLE_DIRS
  BY DEF LinkedFiles
<1>3. IsPath(x) /\ Len(x) = n - k
  <2> DEFINE T == {q[i] : i \in DOMAIN q}  y == SubSeq(q, k + 1, n)
  <2>1. q \in Seq(T)
    BY DEF IsPath
  <2> HIDE DEF T
  <2>2. y \in Seq(T) /\ Len(y) = n - k
    BY <1>1, <1>2, <2>1
  <2>3. x = y
    <3> HIDE DEF y
    <3>1. <<>> \o y = y
      BY <2>2
    <3> QED BY <3>1 DEF LinkPath, Rebase, y
  <2>4. x = [i \in 1 .. n - k |-> x[i]]
    <3> HIDE DEF x, y
    <3> QED BY <2>2, <2>3
  <2>5. n - k \in Nat
    BY <1>1, <1>2
  <2> HIDE DEF x, n, k
  <2> QED BY <2>4, <2>5, MakePath
<1>4. Len(x) >= 2 /\ x # <<>> /\ ~InCellar(x)
  <2>1. Len(x) >= 2
    BY <1>1, <1>2, <1>3
  <2>2. x # <<>>
    <3> HIDE DEF x
    <3>1. Len(<<>>) = 0
      OBVIOUS
    <3> QED BY <2>1, <3>1
  <2> QED BY <1>2, <2>1, <2>2 DEF InCellar, LINKABLE_DIRS
<1>5. \A a \in Ancestors(x) : IsPath(a) /\ a # <<>> /\ ~InCellar(a)
  <2> HIDE DEF x
  <2> QED BY <1>3, <1>4, AncestorsBelow, AncestorsChain DEF InCellar
<1>6. Under(keg_path, keg_path \o x) /\ IsPath(keg_path \o x)
  <2> DEFINE T == {keg_path[i] : i \in DOMAIN keg_path} \union {x[i] : i \in DOMAIN x}
  <2>1. keg_path \in Seq(T) /\ x \in Seq(T)
    <3>1. /\ keg_path = [i \in 1 .. k |-> keg_path[i]] /\ DOMAIN keg_path = 1 .. k
          /\ x = [i \in 1 .. n - k |-> x[i]] /\ DOMAIN x = 1 .. n - k /\ n - k \in Nat
      BY <1>1, <1>2, <1>3, PathIsSeq
    <3>2. (\A i \in 1 .. k : keg_path[i] \in T) /\ \A i \in 1 .. n - k : x[i] \in T
      <4> HIDE DEF x, n, k
      <4> QED BY <3>1
    <3> HIDE DEF T, x, n, k
    <3>3. keg_path \in [1 .. k -> T] /\ x \in [1 .. n - k -> T]
      BY <3>1, <3>2
    <3> QED BY <1>1, <3>1, <3>3
  <2> DEFINE w == keg_path \o x
  <2> HIDE DEF T, x, n
  <2>2. w \in Seq(T) /\ Len(w) = k + Len(x) /\ \A i \in 1 .. k : w[i] = keg_path[i]
    BY <2>1
  <2>3. SubSeq(w, 1, k) = SubSeq(keg_path, 1, k)
    <3> HIDE DEF w
    <3>0. Len(x) \in Nat /\ k \in Nat
      BY <1>1, <2>1
    <3>1. SubSeq(w, 1, k) = [i \in 1 .. k |-> w[i]]
      BY <2>2, <3>0
    <3>2. SubSeq(keg_path, 1, k) = [i \in 1 .. k |-> keg_path[i]]
      BY <2>1, <3>0
    <3> QED BY <2>2, <3>1, <3>2
  <2>4. Len(x) \in Nat /\ Len(keg_path) <= Len(w)
    BY <1>1, <2>1, <2>2
  <2>5. IsPath(w)
    <3> HIDE DEF w
    <3>1. w = [i \in 1 .. Len(w) |-> w[i]] /\ Len(w) \in Nat
      BY <2>2
    <3> QED BY <3>1, MakePath
  <2> QED BY <2>3, <2>4, <2>5 DEF Under, IsPrefix
<1> QED BY <1>2, <1>3, <1>4, <1>5, <1>6

\* Which files are linked depends on the Cellar alone.
LEMMA SameLinkedFiles ==
    ASSUME NEW t, NEW u, \A p \in DOMAIN t \union DOMAIN u : IsPath(p),
           \A p \in DOMAIN t \union DOMAIN u :
             InCellar(p) => p \in DOMAIN t /\ p \in DOMAIN u /\ t[p] = u[p]
    PROVE  LinkedFiles(t) = LinkedFiles(u)
<1>1. \A q \in DOMAIN t \union DOMAIN u : Under(keg_path, q) => q \in DOMAIN t /\ q \in DOMAIN u /\ t[q] = u[q]
  BY KegInCellar
<1>2. Within(t, keg_path) = Within(u, keg_path) /\ \A q \in Within(t, keg_path) : t[q] = u[q]
  BY <1>1 DEF Within
<1> QED BY <1>2 DEF LinkedFiles

----------------------------------------------------------------------------
(***************************************************************************)
(* Trees.                                                                  *)
(***************************************************************************)
LEMMA OverOf ==
    ASSUME NEW f, NEW g
    PROVE  /\ DOMAIN Over(f, g) = DOMAIN f \union DOMAIN g
           /\ \A p \in DOMAIN f : Over(f, g)[p] = f[p]
           /\ \A p \in DOMAIN g : p \notin DOMAIN f => Over(f, g)[p] = g[p]
BY DEF Over

LEMMA PutOf ==
    ASSUME NEW t, NEW p, NEW node
    PROVE  /\ DOMAIN Put(t, p, node) = DOMAIN t \union {p} /\ Put(t, p, node)[p] = node
           /\ \A q \in DOMAIN t : q # p => Put(t, p, node)[q] = t[q]
BY DEF Put, Over

LEMMA MkdirOf ==
    ASSUME NEW t, NEW p
    PROVE  LET u == create_dir_all(t, p) IN
           /\ DOMAIN u = DOMAIN t \union Ancestors(p) \union {p}
           /\ \A q \in DOMAIN t : u[q] = t[q]
           /\ \A q \in Ancestors(p) \union {p} : q \notin DOMAIN t => u[q] = Dir
BY DEF create_dir_all, Over, Dirs

\* The places of the links of the files S.
Places(S) == {LinkPath(q) : q \in S}
LEMMA LinkedOf ==
    ASSUME NEW t, NEW S
    PROVE  LET u == Linked(t, S)  above == UNION {Ancestors(p) : p \in Places(S)} IN
           /\ DOMAIN u = DOMAIN t \union Places(S) \union above
           /\ \A p \in Places(S) : u[p] = Link(keg_path \o p)
           /\ \A p \in DOMAIN t : p \notin Places(S) => u[p] = t[p]
           /\ \A p \in above : p \notin Places(S) /\ p \notin DOMAIN t => u[p] = Dir
<1> DEFINE above == UNION {Ancestors(p) : p \in Places(S)}
           f == [p \in Places(S) |-> Link(keg_path \o p)]
           g == Over(t, Dirs(above))
<1>1. Linked(t, S) = Over(f, g)
  BY DEF Linked, Places
<1>2. DOMAIN f = Places(S) /\ \A p \in Places(S) : f[p] = Link(keg_path \o p)
  OBVIOUS
<1> HIDE DEF f, above
<1>3. /\ DOMAIN g = DOMAIN t \union above /\ (\A p \in DOMAIN t : g[p] = t[p])
      /\ \A p \in above : p \notin DOMAIN t => g[p] = Dir
  BY DEF Over, Dirs
<1> HIDE DEF g
<1>4. /\ DOMAIN Over(f, g) = DOMAIN f \union DOMAIN g
      /\ \A p \in DOMAIN f : Over(f, g)[p] = f[p]
      /\ \A p \in DOMAIN g : p \notin DOMAIN f => Over(f, g)[p] = g[p]
  BY OverOf
<1> QED BY <1>1, <1>2, <1>3, <1>4 DEF above

\* Removing a path removes what is below it.
LEMMA RemovedOf ==
    ASSUME NEW t, NEW p
    PROVE  LET u == remove_path_if_exists(t, p) IN
           /\ DOMAIN u = {q \in DOMAIN t : ~Under(p, q)}
           /\ \A q \in DOMAIN u : u[q] = t[q]
BY DEF remove_path_if_exists, Within, Restrict

\* Making directories, putting a file where its directory is and linking keep a tree a tree.
LEMMA DirNode == Dir.kind = "dir" /\ Dir.to = <<>> /\ IsPath(<<>>) /\ Ancestors(<<>>) = {}
<1>1. IsPath(<<>>)
  BY DEF IsPath
<1>2. Len(<<>>) = 0
  OBVIOUS
<1> QED BY <1>1, <1>2, AncestorsBelow DEF Dir

LEMMA LinkNode == \A p : Link(p).kind = "link" /\ Link(p).to = p
BY DEF Link

LEMMA MkdirTree ==
    ASSUME NEW t, IsTree(t), NEW p, IsPath(p)
    PROVE  IsTree(create_dir_all(t, p))
<1> DEFINE u == create_dir_all(t, p)
<1>1. /\ DOMAIN u = DOMAIN t \union Ancestors(p) \union {p} /\ \A q \in DOMAIN t : u[q] = t[q]
      /\ \A q \in Ancestors(p) \union {p} : q \notin DOMAIN t => u[q] = Dir
  BY MkdirOf
<1> HIDE DEF u
<1>2. ASSUME NEW q \in DOMAIN u PROVE IsPath(q) /\ Ancestors(q) \subseteq DOMAIN u /\ IsPath(u[q].to)
  <2>1. CASE q \in DOMAIN t
    BY <1>1, <2>1 DEF IsTree
  <2>2. CASE q \notin DOMAIN t
    BY <1>1, <2>2, AncestorsBelow, AncestorsChain, DirNode
  <2> QED BY <2>1, <2>2
<1> QED BY <1>2 DEF IsTree, u

LEMMA PutTree ==
    ASSUME NEW t, IsTree(t), NEW p, IsPath(p), Ancestors(p) \subseteq DOMAIN t, NEW node, IsPath(node.to)
    PROVE  IsTree(Put(t, p, node))
<1> DEFINE u == Put(t, p, node)
<1>1. DOMAIN u = DOMAIN t \union {p} /\ u[p] = node /\ \A q \in DOMAIN t : q # p => u[q] = t[q]
  BY DEF Put, Over
<1> HIDE DEF u
<1>2. IsTree(u)
  BY <1>1 DEF IsTree
<1> QED BY <1>2 DEF u

LEMMA LinkedTree ==
    ASSUME NEW t, IsTree(t), NEW S \in SUBSET LinkedFiles(t)
    PROVE  IsTree(Linked(t, S))
<1> DEFINE u == Linked(t, S)  above == UNION {Ancestors(p) : p \in Places(S)}
<1>1. /\ DOMAIN u = DOMAIN t \union Places(S) \union above
      /\ \A p \in Places(S) : u[p] = Link(keg_path \o p)
      /\ \A p \in DOMAIN t : p \notin Places(S) => u[p] = t[p]
      /\ \A p \in above : p \notin Places(S) /\ p \notin DOMAIN t => u[p] = Dir
  BY LinkedOf
<1>2. \A p \in Places(S) : IsPath(p) /\ IsPath(keg_path \o p)
  BY LinkPathOf DEF Places, LinkedFiles, Within, IsTree
<1> HIDE DEF u
<1>3. ASSUME NEW q \in DOMAIN u PROVE IsPath(q) /\ Ancestors(q) \subseteq DOMAIN u /\ IsPath(u[q].to)
  <2>1. CASE q \in Places(S)
    <3>1. u[q] = Link(keg_path \o q) /\ Ancestors(q) \subseteq above
      BY <1>1, <2>1
    <3>2. u[q].to = keg_path \o q
      BY <3>1, LinkNode
    <3>3. IsPath(q) /\ IsPath(keg_path \o q)
      BY <1>2, <2>1
    <3> HIDE DEF above
    <3> QED BY <1>1, <3>1, <3>2, <3>3
  <2>2. CASE q \in DOMAIN t /\ q \notin Places(S)
    BY <1>1, <2>2 DEF IsTree
  <2>3. CASE q \in above /\ q \notin Places(S) /\ q \notin DOMAIN t
    <3>1. PICK p \in Places(S) : q \in Ancestors(p)
      BY <2>3
    <3>2. IsPath(q) /\ Ancestors(q) \subseteq Ancestors(p)
      BY <1>2, <3>1, AncestorsBelow, AncestorsChain
    <3>3. Ancestors(p) \subseteq above
      BY <3>1
    <3> QED BY <1>1, <2>3, <3>2, <3>3, DirNode
  <2> QED BY <1>1, <2>1, <2>2, <2>3
<1> QED BY <1>3 DEF IsTree, u

\* The linked files of a tree have their places, and linking leaves the keg alone.
LEMMA LinkedFilesKept ==
    ASSUME NEW t, \A p \in DOMAIN t : IsPath(p), NEW S \in SUBSET LinkedFiles(t)
    PROVE  /\ LinkedFiles(Linked(t, S)) = LinkedFiles(t)
           /\ \A p \in DOMAIN Linked(t, S) : IsPath(p)
           /\ \A p \in Places(S) : IsPath(p) /\ p # <<>> /\ ~InCellar(p) /\ OurLink(Linked(t, S), p)
           /\ \A p \in Places(S) : \A a \in Ancestors(p) : IsPath(a) /\ a # <<>> /\ ~InCellar(a)
<1> DEFINE u == Linked(t, S)  above == UNION {Ancestors(p) : p \in Places(S)}
<1>1. /\ DOMAIN u = DOMAIN t \union Places(S) \union above
      /\ \A p \in Places(S) : u[p] = Link(keg_path \o p)
      /\ \A p \in DOMAIN t : p \notin Places(S) => u[p] = t[p]
  BY LinkedOf
<1>2. \A p \in Places(S) :
        /\ IsPath(p) /\ p # <<>> /\ ~InCellar(p) /\ Under(keg_path, keg_path \o p)
        /\ \A a \in Ancestors(p) : IsPath(a) /\ a # <<>> /\ ~InCellar(a)
  BY LinkPathOf DEF Places, LinkedFiles, Within
<1> HIDE DEF u
<1>3. \A p \in Places(S) : OurLink(u, p)
  BY <1>1, <1>2, LinkNode DEF OurLink, IsLink
<1>4. \A p \in DOMAIN u : IsPath(p)
  BY <1>1, <1>2
<1>5. \A p \in DOMAIN t \union DOMAIN u : InCellar(p) => p \in DOMAIN t /\ p \in DOMAIN u /\ t[p] = u[p]
  BY <1>1, <1>2
<1>6. LinkedFiles(u) = LinkedFiles(t)
  <2>1. \A p \in DOMAIN t \union DOMAIN u : IsPath(p)
    BY <1>4
  <2>2. LinkedFiles(t) = LinkedFiles(u)
    BY ONLY <1>5, <2>1, SameLinkedFiles, Zenon
  <2> QED BY <2>2
<1> QED BY <1>2, <1>3, <1>4, <1>6 DEF u

----------------------------------------------------------------------------
(***************************************************************************)
(* Roots and saved copies.                                                 *)
(***************************************************************************)
\* A statement has roots only where it may go, and none in the keg.
LEMMA RootOf ==
    ASSUME NEW p, IsPath(p), ~Under(keg_path, p) /\ p # <<>> => p[1] \in ALLOWED_PREFIX_DIRS,
           NEW r \in rollback_root(p)
    PROVE  IsPath(r) /\ r # <<>> /\ r[1] \in ALLOWED_PREFIX_DIRS
<1>1. ~Under(keg_path, p) /\ p # <<>> /\ p[1] \in ALLOWED_PREFIX_DIRS
  BY DEF rollback_root
<1>2. CASE Len(p) > 1 /\ p[1] \in {"etc", "var", "share"}
  <2>1. Len(p) \in Nat /\ 2 \in 0 .. Len(p)
    BY <1>2, PathIsSeq
  <2>2. r = SubSeq(p, 1, 2)
    BY <1>1, <1>2 DEF rollback_root
  <2>3. IsPath(r) /\ Len(r) = 2 /\ r[1] = p[1]
    BY <2>1, <2>2, FirstNames
  <2>4. Len(<<>>) = 0
    OBVIOUS
  <2> QED BY <1>1, <2>3, <2>4
<1>3. CASE ~(Len(p) > 1 /\ p[1] \in {"etc", "var", "share"})
  BY <1>1, <1>3 DEF rollback_root
<1> QED BY <1>2, <1>3

LEMMA RootsAllowed ==
    ASSUME NEW s, IsPath(Resolve(s.to, <<>>)), NEW r \in PlainRoots(s)
    PROVE  IsPath(r) /\ r # <<>> /\ r[1] \in ALLOWED_PREFIX_DIRS
<1> DEFINE d == Resolve(s.to, <<>>)
<1>1. CASE s.op = "InstallSymlink"
  <2> DEFINE x == Name(Resolve(s.from, <<>>))  p == Append(d, x)
  <2>1. r \in rollback_root(p) /\ path_is_allowed(d)
    BY <1>1 DEF PlainRoots, Admitted, Allowed, install_symlink_path
  <2>2. Len(d) \in Nat /\ IsPath(p) /\ Len(p) = Len(d) + 1 /\ \A i \in 1 .. Len(d) : p[i] = d[i]
    BY AppendPath
  <2> HIDE DEF d, p
  <2>3. Under(d, p)
    BY <2>2, UnderNames DEF d
  <2>4. Under(keg_path, d) => Under(keg_path, p)
    BY <2>2, <2>3, KegInCellar, UnderOrder DEF d
  <2>5. d # <<>> => p[1] = d[1]
    BY <2>2, <2>3, SameTop DEF d
  <2>6. ~Under(keg_path, p) => p[1] \in ALLOWED_PREFIX_DIRS
    BY <2>1, <2>4, <2>5 DEF path_is_allowed
  <2> QED BY <2>1, <2>2, <2>6, RootOf
<1>2. CASE s.op # "InstallSymlink"
  <2>1. r \in rollback_root(d) /\ path_is_allowed(d)
    BY <1>2 DEF PlainRoots, RootsOf, Allowed
  <2> HIDE DEF d
  <2>2. ~Under(keg_path, d) => d[1] \in ALLOWED_PREFIX_DIRS
    BY <2>1 DEF path_is_allowed
  <2> QED BY <2>1, <2>2, RootOf DEF d
<1> QED BY <1>1, <1>2

\* What is saved: apart from each other, and outside the Cellar.
GoodRoots(R) ==
    /\ \A r \in R : IsPath(r) /\ r # <<>> /\ r[1] # "Cellar"
    /\ \A r, q \in R : Under(r, q) => r = q

LEMMA HookRoots ==
    ASSUME NEW s \in Starts, s.hook # NoHook
    PROVE  GoodRoots(collect_rollback_roots(s.hook))
<1> DEFINE R == UNION {PlainRoots(a) : a \in PlainStatements(s.hook)}
<1>1. \A a \in PlainStatements(s.hook) : IsPath(Resolve(a.to, <<>>))
  BY StartAssumption
<1>2. \A r \in R : IsPath(r) /\ r # <<>> /\ r[1] # "Cellar"
  BY <1>1, RootsAllowed DEF ALLOWED_PREFIX_DIRS
<1>3. collect_rollback_roots(s.hook) = {r \in R : \A q \in R : Under(q, r) => q = r}
  BY DEF collect_rollback_roots, collapse_nested_roots
<1> HIDE DEF R
<1> QED BY <1>2, <1>3 DEF GoodRoots

\* A copied node is of the same kind, and only a directory is copied with a loss.
LEMMA CopiedNode ==
    /\ \A node : Copied(node).kind = node.kind /\ (node.kind # "dir" => Copied(node) = node)
    /\ Copied(Dir) = Dir
BY DirNode DEF Copied

\* Copying the saved trees of the roots R back puts what was below them in its place,
\* with the directories above, and leaves the rest.
LEMMA CopiedBackOf ==
    ASSUME IsTree(prehook), GoodRoots(DOMAIN backups),
           \A r \in DOMAIN backups : backups[r] = Saved(prehook, r),
           NEW t, NEW R \in SUBSET DOMAIN backups
    PROVE  LET u == CopiedBack(t, R)
               back == {p \in DOMAIN prehook : \E r \in R : Under(r, p)}
               above == UNION {Ancestors(r) : r \in R \intersect DOMAIN prehook}
           IN  /\ DOMAIN u = DOMAIN t \union back \union above
               /\ \A p \in back : u[p] = Copied(prehook[p])
               /\ \A p \in DOMAIN t : p \notin back => u[p] = t[p]
<1> DEFINE u == CopiedBack(t, R)
           back == {p \in DOMAIN prehook : \E r \in R : Under(r, p)}
           above == UNION {Ancestors(r) : r \in R \intersect DOMAIN prehook}
           saved == {r \in R : backups[r] # <<>>}
           copies == UNION {DOMAIN backups[r] : r \in saved}
           f == [p \in copies |-> backups[CHOOSE r \in saved : p \in DOMAIN backups[r]][p]]
           g == Over(t, Dirs(UNION {Ancestors(r) : r \in saved}))
<1>1. \A r \in R : /\ DOMAIN backups[r] = {p \in DOMAIN prehook : Under(r, p)}
                    /\ \A p \in DOMAIN backups[r] : backups[r][p] = Copied(prehook[p])
  <2> TAKE r \in R
  <2>1. backups[r] = Saved(prehook, r)
    OBVIOUS
  <2>2. Saved(prehook, r) = [p \in Within(prehook, r) |-> Copied(prehook[p])]
    BY DEF Saved
  <2>3. Within(prehook, r) = {p \in DOMAIN prehook : Under(r, p)}
    BY DEF Within
  <2> QED BY <2>1, <2>2, <2>3
<1>2. \A r \in R : backups[r] # <<>> <=> r \in DOMAIN prehook
  <2> TAKE r \in R
  <2>0. backups[r] = Saved(prehook, r)
    OBVIOUS
  <2>1. IsPath(r) /\ r # <<>>
    BY DEF GoodRoots
  <2>2. r \in DOMAIN prehook => r \in DOMAIN backups[r]
    BY <1>1, <2>1, UnderOrder
  <2>3. ASSUME NEW p \in DOMAIN backups[r] PROVE r \in DOMAIN prehook
    <3>1. p \in DOMAIN prehook /\ IsPath(p) /\ Under(r, p) /\ Ancestors(p) \subseteq DOMAIN prehook
      BY <1>1 DEF IsTree
    <3>2. r \in Ancestors(p) \union {p}
      <4>1. Len(r) \in Nat /\ Len(p) \in Nat /\ Len(r) >= 1 /\ Len(r) <= Len(p)
        BY <2>1, <3>1, PathIsSeq, SameTop, UnderNames
      <4>2. Len(r) = Len(p) => r = p
        BY <2>1, <3>1, UnderOrder
      <4> QED BY <2>1, <3>1, <4>1, <4>2, AncestorsBelow
    <3> QED BY <3>1, <3>2
  <2>4. DOMAIN backups[r] = {} => backups[r] = <<>>
    <3>1. backups[r] = [p \in Within(prehook, r) |-> Copied(prehook[p])]
      BY <2>0 DEF Saved
    <3>2. ASSUME DOMAIN backups[r] = {} PROVE backups[r] = <<>>
      <4>1. Within(prehook, r) = {}
        BY <3>1, <3>2
      <4> QED BY <3>1, <4>1
    <3> QED BY <3>2
  <2>5. DOMAIN <<>> = {}
    OBVIOUS
  <2> QED BY <2>2, <2>3, <2>4, <2>5
<1>3. copies = back /\ UNION {Ancestors(r) : r \in saved} = above
  <2>1. saved = R \intersect DOMAIN prehook
    BY <1>2
  <2>2. copies \subseteq back
    BY <1>1
  <2>3. ASSUME NEW p \in back PROVE p \in copies
    <3>1. PICK r \in R : Under(r, p)
      OBVIOUS
    <3>2. p \in DOMAIN backups[r]
      BY <1>1, <3>1
    <3>3. DOMAIN <<>> = {}
      OBVIOUS
    <3>4. backups[r] # <<>>
      BY <3>2, <3>3
    <3> QED BY <3>2, <3>4
  <2> QED BY <2>1, <2>2, <2>3
<1>4. \A p \in copies : f[p] = Copied(prehook[p])
  <2> TAKE p \in copies
  <2>1. \E r \in saved : p \in DOMAIN backups[r]
    OBVIOUS
  <2> DEFINE r == CHOOSE r \in saved : p \in DOMAIN backups[r]
  <2>2. r \in saved /\ p \in DOMAIN backups[r]
    BY <2>1
  <2>3. f[p] = backups[r][p]
    OBVIOUS
  <2> HIDE DEF f, r
  <2> QED BY <1>1, <2>2, <2>3
<1>5. u = Over(f, g) /\ DOMAIN f = copies
  BY DEF CopiedBack
<1> HIDE DEF f, copies
<1>6. DOMAIN g = DOMAIN t \union above /\ \A p \in DOMAIN t : g[p] = t[p]
  BY <1>3 DEF Over, Dirs
<1> HIDE DEF g
<1>7. /\ DOMAIN Over(f, g) = DOMAIN f \union DOMAIN g
      /\ \A p \in DOMAIN f : Over(f, g)[p] = f[p]
      /\ \A p \in DOMAIN g : p \notin DOMAIN f => Over(f, g)[p] = g[p]
  BY OverOf
<1> HIDE DEF u, back, above
<1>8. /\ DOMAIN u = DOMAIN t \union back \union above
      /\ \A p \in back : u[p] = Copied(prehook[p])
      /\ \A p \in DOMAIN t : p \notin back => u[p] = t[p]
  BY <1>3, <1>4, <1>5, <1>6, <1>7
<1> QED BY <1>8 DEF u, back, above

\* Restoring all the roots gives what was saved below them and leaves the rest.
Restored == CopiedBack(Removed(tree, DOMAIN backups), DOMAIN backups)
LEMMA RestoredOf ==
    ASSUME IsTree(prehook), GoodRoots(DOMAIN backups),
           \A r \in DOMAIN backups : backups[r] = Saved(prehook, r),
           \A p \in DOMAIN prehook : ~Reached(p) => p \in DOMAIN tree
    PROVE  /\ \A p : p \in DOMAIN Restored <=> IF BelowRoot(p) THEN p \in DOMAIN prehook ELSE p \in DOMAIN tree
           /\ \A p \in DOMAIN Restored : Restored[p] = IF BelowRoot(p) THEN Copied(prehook[p]) ELSE tree[p]
<1> DEFINE R == DOMAIN backups  t == Removed(tree, R)
           back == {p \in DOMAIN prehook : \E r \in R : Under(r, p)}
           above == UNION {Ancestors(r) : r \in R \intersect DOMAIN prehook}
<1>1. /\ DOMAIN Restored = DOMAIN t \union back \union above
      /\ \A p \in back : Restored[p] = Copied(prehook[p])
      /\ \A p \in DOMAIN t : p \notin back => Restored[p] = t[p]
  <2>1. R \in SUBSET DOMAIN backups /\ Restored = CopiedBack(t, R)
    BY DEF Restored
  <2> HIDE DEF R, t
  <2>2. LET u == CopiedBack(t, R)
        IN  /\ DOMAIN u = DOMAIN t \union back \union above
            /\ \A p \in back : u[p] = Copied(prehook[p])
            /\ \A p \in DOMAIN t : p \notin back => u[p] = t[p]
    BY <2>1, CopiedBackOf
  <2> QED BY <2>1, <2>2
<1>2. DOMAIN t = {p \in DOMAIN tree : ~BelowRoot(p)} /\ \A p \in DOMAIN t : t[p] = tree[p]
  BY DEF Removed, Restrict, BelowRoot
<1>3. back = {p \in DOMAIN prehook : BelowRoot(p)}
  BY DEF BelowRoot
<1>4. ASSUME NEW a \in above PROVE a \in DOMAIN tree /\ ~BelowRoot(a)
  <2>1. PICK r \in R \intersect DOMAIN prehook : a \in Ancestors(r)
    BY <1>4
  <2>2. IsPath(r) /\ r # <<>> /\ r[1] # "Cellar" /\ Ancestors(r) \subseteq DOMAIN prehook
    BY DEF GoodRoots, IsTree
  <2>3. IsPath(a) /\ Len(a) >= 1 /\ Len(a) < Len(r) /\ Under(a, r) /\ a # <<>> /\ a[1] = r[1]
    BY <2>1, <2>2, AncestorsBelow, AncestorsChain
  <2>4. ~BelowRoot(a)
    <3> SUFFICES ASSUME NEW q \in R, Under(q, a) PROVE FALSE
      BY DEF BelowRoot
    <3>1. IsPath(q) /\ Under(q, r)
      BY <2>2, <2>3, UnderOrder DEF GoodRoots
    <3>2. q = r
      BY <3>1 DEF GoodRoots
    <3>3. Len(a) \in Nat /\ Len(r) \in Nat /\ Len(r) <= Len(a)
      BY <2>2, <2>3, <3>2, PathIsSeq, UnderNames
    <3> QED BY <2>3, <3>3
  <2>5. ~Under(keg_path, a)
    BY <2>2, <2>3, KegInCellar DEF InCellar
  <2>6. ~Reached(a)
    BY <2>4, <2>5 DEF Reached, BelowRoot
  <2> QED BY <2>1, <2>2, <2>4, <2>6
<1> HIDE DEF t, back, above, R
<1> QED BY <1>1, <1>2, <1>3, <1>4

----------------------------------------------------------------------------
(***************************************************************************)
(* The inductive invariant.                                                *)
(***************************************************************************)
\* Where the install is, what it has saved and what it began with.
PhaseInv ==
    /\ phase \in Phases /\ torn \in BOOLEAN /\ other \in BOOLEAN
    /\ phase \in {"etcvar", "link", "backup"} => prehook = <<>>
    /\ phase \in {"run", "undo_hook", "undo_late"} => prehook # <<>>
    /\ phase \in {"link", "backup"} => hook # NoHook
    /\ phase = "finalize" => (prehook = <<>> <=> hook = NoHook)
    /\ prehook = <<>> => backups = <<>>
    /\ prehook # <<>> =>
         /\ hook # NoHook /\ GoodRoots(DOMAIN backups)
         /\ \A r \in DOMAIN backups : backups[r] = Saved(prehook, r)
    /\ \E s \in Starts :
         /\ before = s.tree /\ hook = s.hook
         /\ \A p \in DOMAIN left : p \in DOMAIN s.bottle /\ left[p] = s.bottle[p]

\* The tree is a tree until the hook runs, and all its paths are paths ever after.  When the
\* hook starts, every linked file of the keg has something in its place.
TreeInv ==
    /\ \A p \in DOMAIN tree : IsPath(p)
    /\ phase \in {"etcvar", "link", "backup"} => IsTree(tree) /\ <<>> \in DOMAIN tree
    /\ prehook # <<>> => IsTree(prehook)
    /\ phase = "backup" => \A q \in LinkedFiles(tree) : LinkPath(q) \in DOMAIN tree

\* What the hook does not reach is as the hook found it, but for directories no root covers.
HookPhase == phase \in {"run", "undo_hook"} \/ (phase = "finalize" /\ prehook # <<>>)
HookInv ==
    ~other /\ HookPhase =>
        \A p \in DOMAIN tree \union DOMAIN prehook :
            ~Reached(p) =>
                /\ p \in DOMAIN tree
                /\ p \in DOMAIN prehook => tree[p] = prehook[p]
                /\ p \notin DOMAIN prehook => tree[p] = Dir /\ (AboveRoot(p) \/ (phase = "undo_hook" /\ ForRefused(p)))

\* Which directories no root covers is settled when the hook has ended.
LEMMA SameAbandoned ==
    ASSUME backups' = backups
    PROVE  /\ \A p : (BelowRoot(p)' <=> BelowRoot(p)) /\ (Reached(p)' <=> Reached(p)) /\ (AboveRoot(p)' <=> AboveRoot(p))
           /\ hook' = hook /\ captured' = captured /\ prehook' = prehook =>
                \A p : (ForRefused(p)' <=> ForRefused(p)) /\ (Abandoned(p)' <=> Abandoned(p))
<1>1. \A p : (BelowRoot(p)' <=> BelowRoot(p)) /\ (Reached(p)' <=> Reached(p)) /\ (AboveRoot(p)' <=> AboveRoot(p))
  BY DEF BelowRoot, Reached, AboveRoot
<1>2. ASSUME hook' = hook, captured' = captured, prehook' = prehook, NEW p
      PROVE  (ForRefused(p)' <=> ForRefused(p)) /\ (Abandoned(p)' <=> Abandoned(p))
  <2>1. RefusedDirs' = RefusedDirs
    BY <1>2 DEF RefusedDirs
  <2>2. ForRefused(p)' <=> ForRefused(p)
    BY <1>2, <2>1 DEF ForRefused
  <2> QED BY <1>1, <2>2 DEF Abandoned
<1> QED BY <1>1, <1>2

----------------------------------------------------------------------------
LEMMA PhaseInit == Init => PhaseInv
BY DEF Init, PhaseInv, Phases

LEMMA PhaseStep ==
    ASSUME PhaseInv, TreeInv, Next
    PROVE  PhaseInv'
<1> USE DEF Goto
<1>1. ASSUME NEW p \in DOMAIN left, InstallEntry(p) PROVE PhaseInv'
  <2>1. \A q \in DOMAIN left' : q \in DOMAIN left /\ left'[q] = left[q]
    BY <1>1 DEF InstallEntry, Restrict
  <2> QED BY <1>1, <2>1 DEF PhaseInv, InstallEntry
<1>2. ASSUME NEW p \in DOMAIN left, EntryFails(p) PROVE PhaseInv'
  BY <1>2 DEF PhaseInv, EntryFails, Phases
<1>3. CASE EtcVarDone
  BY <1>3 DEF PhaseInv, EtcVarDone, Phases
<1>4. CASE UndoLast
  BY <1>4 DEF PhaseInv, UndoLast
<1>5. CASE UndoStops
  BY <1>5 DEF PhaseInv, UndoStops, Phases
<1>6. CASE Undone
  BY <1>6 DEF PhaseInv, Undone, Phases
<1>7. CASE PreLink
  BY <1>7 DEF PhaseInv, PreLink, Phases
<1>8. CASE PreLinkFails
  BY <1>8 DEF PhaseInv, PreLinkFails, LinkFails, Phases
<1>9. CASE Backup
  <2>1. PICK s \in Starts : hook = s.hook /\ s.hook # NoHook
    BY <1>9 DEF PhaseInv, Backup
  <2>2. prehook' = tree /\ DOMAIN backups' = collect_rollback_roots(hook)
    BY <1>9 DEF Backup
  <2>3. \A r \in DOMAIN backups' : backups'[r] = Saved(prehook', r)
    BY <1>9, <2>2 DEF Backup
  <2>4. GoodRoots(DOMAIN backups')
    <3>1. GoodRoots(collect_rollback_roots(s.hook))
      BY <2>1, HookRoots
    <3> QED BY <2>1, <2>2, <3>1
  <2>5. prehook' # <<>>
    <3>1. DOMAIN <<>> = {}
      OBVIOUS
    <3> QED BY <1>9, <2>2, <3>1 DEF TreeInv, Backup
  <2> QED BY <1>9, <2>3, <2>4, <2>5 DEF PhaseInv, Backup, Phases
<1>10. CASE BackupFails
  BY <1>10 DEF PhaseInv, BackupFails, Phases
<1>11. CASE RunStatement
  BY <1>11 DEF PhaseInv, RunStatement
<1>12. CASE StatementFails
  BY <1>12 DEF PhaseInv, StatementFails, Phases
<1>13. CASE HookDone
  <2>1. prehook # <<>> /\ hook # NoHook
    BY <1>13 DEF PhaseInv, HookDone
  <2> QED BY <1>13, <2>1 DEF PhaseInv, HookDone, Phases
<1>14. CASE RestoreBackups
  BY <1>14 DEF PhaseInv, RestoreBackups, AfterRestore, Phases
<1>15. CASE RestoreFails
  BY <1>15 DEF PhaseInv, RestoreFails, Phases
<1>16. CASE Finalize
  BY <1>16 DEF PhaseInv, Finalize, Phases
<1>17. CASE FinalizeFails
  BY <1>17 DEF PhaseInv, FinalizeFails, LinkFails, Phases
<1>18. CASE Cleanup
  BY <1>18 DEF PhaseInv, Cleanup, Phases
<1>19. CASE Other
  BY <1>19 DEF PhaseInv, Other
<1> QED
  BY <1>1, <1>2, <1>3, <1>4, <1>5, <1>6, <1>7, <1>8, <1>9, <1>10, <1>11, <1>12, <1>13,
     <1>14, <1>15, <1>16, <1>17, <1>18, <1>19 DEF Next

----------------------------------------------------------------------------
\* What .bottle brings goes to paths of etc and var, and so does its .default.
LEMMA EntryPaths ==
    ASSUME PhaseInv, NEW p \in DOMAIN left
    PROVE  LET d == default_install_path(p) IN
           /\ IsPath(p) /\ Len(p) >= 2 /\ p # <<>> /\ p[1] \in {"etc", "var"} /\ ~InCellar(p)
           /\ IsPath(d) /\ Len(d) >= 2 /\ d # <<>> /\ d[1] = p[1] /\ ~InCellar(d) /\ Ancestors(d) = Ancestors(p)
           /\ left[p].kind \in {"file", "dir", "link"} /\ IsPath(left[p].to)
           /\ IsPath(DirOf(p)) /\ DirOf(p) # <<>> /\ DirOf(p)[1] = p[1]
           /\ Ancestors(p) \subseteq Ancestors(DirOf(p)) \union {DirOf(p)}
           /\ left[p].kind # "dir" => Ancestors(p) = Ancestors(DirOf(p)) \union {DirOf(p)}
           /\ \A a \in Ancestors(DirOf(p)) : IsPath(a) /\ a # <<>> /\ a[1] = p[1]
<1> DEFINE d == default_install_path(p)  e == DirOf(p)
<1>1. PICK s \in Starts : p \in DOMAIN s.bottle /\ left[p] = s.bottle[p]
  BY DEF PhaseInv
<1>2. /\ IsPath(p) /\ Len(p) > 1 /\ p[1] \in {"etc", "var"}
      /\ left[p].kind \in {"file", "dir", "link"} /\ IsPath(left[p].to)
  BY <1>1, StartAssumption
<1>3. Len(p) \in Nat /\ Len(p) >= 2 /\ p # <<>> /\ ~InCellar(p)
  <2>1. Len(<<>>) = 0
    OBVIOUS
  <2> QED BY <1>2, <2>1, PathIsSeq DEF InCellar
<1>4. IsPath(d) /\ Len(d) = Len(p) /\ d[1] = p[1] /\ d # <<>> /\ Ancestors(d) = Ancestors(p)
  BY <1>2, <1>3, DefaultOf
<1>5. /\ IsPath(Parent(p)) /\ Len(Parent(p)) = Len(p) - 1 /\ Under(Parent(p), p)
      /\ Ancestors(p) = Ancestors(Parent(p)) \union {Parent(p)}
  BY <1>2, <1>3, ParentOf
<1>6. Parent(p) # <<>> /\ Parent(p)[1] = p[1]
  <2>1. Len(<<>>) = 0
    OBVIOUS
  <2>2. Parent(p) # <<>>
    BY <1>3, <1>5, <2>1
  <2> QED BY <1>2, <1>5, <2>2, SameTop
<1>7. /\ IsPath(e) /\ e # <<>> /\ e[1] = p[1] /\ Ancestors(p) \subseteq Ancestors(e) \union {e}
      /\ left[p].kind # "dir" => Ancestors(p) = Ancestors(e) \union {e}
  BY <1>2, <1>3, <1>5, <1>6 DEF DirOf
<1>8. \A a \in Ancestors(e) : IsPath(a) /\ a # <<>> /\ a[1] = p[1]
  <2> HIDE DEF e
  <2> QED BY <1>7, AncestorsBelow, AncestorsChain
<1> HIDE DEF d, e
<1>9. Len(d) >= 2 /\ ~InCellar(d)
  BY <1>2, <1>3, <1>4 DEF InCellar
<1> QED BY <1>2, <1>3, <1>4, <1>7, <1>8, <1>9 DEF d, e

\* A path whose directory is in a tree has all its directories there.
LEMMA PlaceInTree ==
    ASSUME NEW t, IsTree(t), NEW q, IsPath(q), Parent(q) \in DOMAIN t
    PROVE  Ancestors(q) \subseteq DOMAIN t
<1>1. Len(q) \in Nat
  BY PathIsSeq
<1>2. CASE Len(q) >= 2
  BY <1>2, ParentOf DEF IsTree
<1>3. CASE Len(q) < 2
  <2>1. ASSUME NEW a \in Ancestors(q) PROVE FALSE
    <3>1. IsPath(a) /\ Len(a) >= 1 /\ Len(a) < Len(q)
      BY AncestorsBelow
    <3>2. Len(a) \in Nat
      BY <3>1, PathIsSeq
    <3> QED BY <1>1, <1>3, <3>1, <3>2
  <2> QED BY <2>1
<1> QED BY <1>1, <1>2, <1>3

\* An entry of .bottle leaves a tree.
LEMMA EntryTree ==
    ASSUME PhaseInv, TreeInv, phase = "etcvar", NEW p \in DOMAIN left
    PROVE  LET dirs == create_dir_all(tree, DirOf(p)) IN
           /\ IsTree(dirs) /\ <<>> \in DOMAIN dirs
           /\ \A node : CanInstall(dirs, p) /\ left[p].kind # "dir" /\ node.kind = left[p].kind /\ IsPath(node.to) =>
                LET u == Installed(dirs, Destination(dirs, p), node) IN IsTree(u) /\ <<>> \in DOMAIN u
<1> DEFINE dirs == create_dir_all(tree, DirOf(p))  d == Destination(dirs, p)
<1>1. IsTree(tree) /\ <<>> \in DOMAIN tree
  BY DEF TreeInv
<1>2. /\ IsPath(p) /\ IsPath(default_install_path(p)) /\ Ancestors(default_install_path(p)) = Ancestors(p)
      /\ IsPath(DirOf(p)) /\ Ancestors(p) \subseteq Ancestors(DirOf(p)) \union {DirOf(p)}
      /\ left[p].kind \in {"file", "dir", "link"}
  BY EntryPaths
<1>3. IsTree(dirs) /\ <<>> \in DOMAIN dirs /\ Ancestors(p) \subseteq DOMAIN dirs
  BY <1>1, <1>2, MkdirTree, MkdirOf
<1>4. d \in {p, default_install_path(p)}
  BY DEF Destination
<1> HIDE DEF dirs, d
<1>5. ASSUME NEW node, CanInstall(dirs, p), left[p].kind # "dir", node.kind = left[p].kind, IsPath(node.to)
      PROVE  IsTree(Installed(dirs, d, node)) /\ <<>> \in DOMAIN Installed(dirs, d, node)
  <2>1. CASE node.kind = "file"
    <3> DEFINE q == Target(dirs, d)
    <3>1. Parent(q) \in DOMAIN dirs
      BY <1>5, <2>1 DEF CanInstall, d
    <3>2. IsPath(q)
      BY <1>2, <1>3, <1>4 DEF Target, IsLink, IsTree
    <3> HIDE DEF q
    <3>3. Ancestors(q) \subseteq DOMAIN dirs
      BY <1>3, <3>1, <3>2, PlaceInTree
    <3>4. IsTree(Put(dirs, q, node)) /\ <<>> \in DOMAIN Put(dirs, q, node)
      <4>1. IsTree(Put(dirs, q, node))
        BY <1>3, <1>5, <3>2, <3>3, PutTree
      <4>2. DOMAIN dirs \subseteq DOMAIN Put(dirs, q, node)
        BY DEF Put, Over
      <4> QED BY <1>3, <4>1, <4>2
    <3> QED BY <2>1, <3>4 DEF Installed, q
  <2>2. CASE node.kind # "file"
    <3>1. IsTree(Put(dirs, d, node))
      BY <1>2, <1>3, <1>4, <1>5, PutTree
    <3>2. DOMAIN dirs \subseteq DOMAIN Put(dirs, d, node)
      BY DEF Put, Over
    <3> QED BY <1>3, <2>2, <3>1, <3>2 DEF Installed
  <2> QED BY <2>1, <2>2
<1> QED BY <1>3, <1>5 DEF dirs, d

\* What .bottle brings and another program's file are outside the Cellar.
LEMMA OtherPath == IsPath(OtherFile) /\ OtherFile # <<>> /\ ~InCellar(OtherFile) /\ ~Under(keg_path, OtherFile)
<1>1. IsPath(OtherFile) /\ Len(OtherFile) > 1 /\ OtherFile[1] # "Cellar"
  BY OtherAssumption
<1>2. Len(<<>>) = 0
  OBVIOUS
<1> QED BY <1>1, <1>2, KegInCellar DEF InCellar

LEMMA TreeInit == Init => TreeInv
<1> SUFFICES ASSUME Init PROVE TreeInv
  OBVIOUS
<1>1. PICK s \in Starts : tree = Over(s.tree, s.keg)
  BY DEF Init
<1>2. IsTree(s.tree) /\ IsTree(s.keg) /\ <<>> \in DOMAIN s.tree
  BY StartAssumption DEF IsDir, Exists, Target, IsLink
<1>3. IsTree(tree) /\ <<>> \in DOMAIN tree
  <2>1. /\ DOMAIN tree = DOMAIN s.tree \union DOMAIN s.keg
        /\ \A p \in DOMAIN s.tree : tree[p] = s.tree[p]
        /\ \A p \in DOMAIN s.keg : p \notin DOMAIN s.tree => tree[p] = s.keg[p]
    BY <1>1 DEF Over
  <2> QED BY <1>2, <2>1 DEF IsTree
<1> QED BY <1>3 DEF Init, TreeInv, IsTree

\* The paths stay paths when linking fails, and where saved copies are put back.
LEMMA LinkFailsPaths ==
    ASSUME \A p \in DOMAIN tree : IsPath(p), LinkFails
    PROVE  \A p \in DOMAIN tree' : IsPath(p)
<1>1. \A S \in SUBSET LinkedFiles(tree) : \A p \in DOMAIN Linked(tree, S) : IsPath(p)
  BY LinkedFilesKept
<1>2. CASE \E S \in SUBSET ToLink(tree) : tree' = Linked(tree, S)
  BY <1>1, <1>2 DEF ToLink
<1>3. CASE \E S \in SUBSET ToLink(tree) : \E q \in ToLink(tree) : tree' = create_dir_all(Linked(tree, S), Parent(LinkPath(q)))
  <2>1. PICK S \in SUBSET LinkedFiles(tree), q \in LinkedFiles(tree) :
          tree' = create_dir_all(Linked(tree, S), Parent(LinkPath(q)))
    BY <1>3 DEF ToLink
  <2>2. IsPath(q)
    BY DEF LinkedFiles, Within
  <2>3. IsPath(LinkPath(q)) /\ Len(LinkPath(q)) >= 2
    BY <2>2, LinkPathOf
  <2>4. IsPath(Parent(LinkPath(q)))
    BY <2>3, ParentOf, PathIsSeq
  <2>5. DOMAIN tree' = DOMAIN Linked(tree, S) \union Ancestors(Parent(LinkPath(q))) \union {Parent(LinkPath(q))}
    BY <2>1, MkdirOf
  <2> QED BY <1>1, <2>4, <2>5, AncestorsBelow
<1> QED BY <1>2, <1>3 DEF LinkFails

LEMMA CopiedBackPaths ==
    ASSUME PhaseInv, TreeInv, prehook # <<>>, NEW R \in SUBSET DOMAIN backups, NEW Q
    PROVE  \A p \in DOMAIN CopiedBack(Removed(tree, Q), R) : IsPath(p)
<1> DEFINE t == Removed(tree, Q)  u == CopiedBack(t, R)
           back == {p \in DOMAIN prehook : \E r \in R : Under(r, p)}
           above == UNION {Ancestors(r) : r \in R \intersect DOMAIN prehook}
<1>1. DOMAIN t \subseteq DOMAIN tree
  BY DEF Removed, Restrict
<1>2. IsTree(prehook) /\ GoodRoots(DOMAIN backups) /\ \A r \in DOMAIN backups : backups[r] = Saved(prehook, r)
  BY DEF TreeInv, PhaseInv
<1>3. DOMAIN u = DOMAIN t \union back \union above
  <2> HIDE DEF t
  <2> QED BY <1>2, CopiedBackOf
<1>4. above \subseteq DOMAIN prehook
  BY <1>2 DEF IsTree
<1> HIDE DEF above, u, t
<1> QED BY <1>1, <1>2, <1>3, <1>4 DEF u, t, TreeInv, IsTree

LEMMA TreeStep ==
    ASSUME PhaseInv, TreeInv, HookStays, Next
    PROVE  TreeInv'
<1> USE DEF Goto
<1>1. ASSUME NEW p \in DOMAIN left, InstallEntry(p) PROVE TreeInv'
  <2> DEFINE dirs == create_dir_all(tree, DirOf(p))  u == Installed(dirs, Destination(dirs, p), left[p])
  <2>1. phase = "etcvar" /\ phase' = phase /\ prehook' = prehook /\ prehook = <<>>
    BY <1>1 DEF InstallEntry, PhaseInv
  <2>2. IsTree(dirs) /\ <<>> \in DOMAIN dirs
    BY <2>1, EntryTree
  <2>3. left[p].kind # "dir" => IsTree(u) /\ <<>> \in DOMAIN u
    BY <1>1, <2>1, EntryTree, EntryPaths DEF InstallEntry
  <2>4. tree' = dirs \/ (left[p].kind # "dir" /\ tree' = u)
    BY <1>1 DEF InstallEntry
  <2> HIDE DEF dirs, u
  <2>5. IsTree(tree') /\ <<>> \in DOMAIN tree'
    BY <2>2, <2>3, <2>4
  <2> QED BY <2>1, <2>5 DEF TreeInv, IsTree
<1>2. ASSUME NEW p \in DOMAIN left, EntryFails(p) PROVE TreeInv'
  <2> DEFINE dirs == create_dir_all(tree, DirOf(p))  u == Installed(dirs, Destination(dirs, p), File("partial"))
  <2>1. phase = "etcvar" /\ phase' = "undo_etcvar" /\ prehook' = prehook /\ prehook = <<>>
    BY <1>2 DEF EntryFails, PhaseInv
  <2>2. IsTree(dirs) /\ IsTree(tree)
    BY <2>1, EntryTree DEF TreeInv
  <2>3. left[p].kind = "file" /\ CanInstall(dirs, p) => IsTree(u)
    <3>1. File("partial").kind = "file" /\ IsPath(File("partial").to)
      BY DirNode DEF File
    <3> QED BY <2>1, <3>1, EntryTree
  <2>4. tree' = tree \/ tree' = dirs \/ (left[p].kind = "file" /\ CanInstall(dirs, p) /\ tree' = u)
    BY <1>2 DEF EntryFails
  <2> HIDE DEF dirs, u
  <2>5. IsTree(tree')
    BY <2>2, <2>3, <2>4
  <2> QED BY <2>1, <2>5 DEF TreeInv, IsTree
<1>3. CASE EtcVarDone
  BY <1>3 DEF TreeInv, EtcVarDone
<1>4. CASE UndoLast
  BY <1>4, RemovedOf DEF TreeInv, UndoLast
<1>5. CASE UndoStops
  BY <1>5 DEF TreeInv, UndoStops
<1>6. CASE Undone
  BY <1>6 DEF TreeInv, Undone
<1>7. CASE PreLink
  <2> DEFINE S == ToLink(tree)
  <2>1. IsTree(tree) /\ <<>> \in DOMAIN tree /\ prehook' = <<>> /\ S \in SUBSET LinkedFiles(tree) /\ \A p \in DOMAIN tree : IsPath(p)
    BY <1>7 DEF TreeInv, PreLink, ToLink, PhaseInv
  <2>2. tree' = Linked(tree, S) /\ phase' = "backup"
    BY <1>7 DEF PreLink
  <2>3. IsTree(tree')
    <3> HIDE DEF S
    <3> QED BY <2>1, <2>2, LinkedTree
  <2>4. LinkedFiles(tree') = LinkedFiles(tree)
    <3> HIDE DEF S
    <3> QED BY <2>1, <2>2, LinkedFilesKept
  <2>5. DOMAIN tree \subseteq DOMAIN tree' /\ \A q \in S : LinkPath(q) \in DOMAIN tree'
    <3>1. DOMAIN Linked(tree, S) = DOMAIN tree \union Places(S) \union UNION {Ancestors(p) : p \in Places(S)}
      BY LinkedOf
    <3>2. \A q \in S : LinkPath(q) \in Places(S)
      BY DEF Places
    <3> HIDE DEF S
    <3> QED BY <2>2, <3>1, <3>2
  <2>6. \A q \in LinkedFiles(tree') : LinkPath(q) \in DOMAIN tree'
    BY <2>4, <2>5 DEF ToLink, should_skip
  <2> QED BY <2>1, <2>2, <2>3, <2>5, <2>6 DEF TreeInv, IsTree
<1>8. CASE PreLinkFails
  <2>1. phase' = "undo_etcvar" /\ prehook' = prehook
    BY <1>8 DEF PreLinkFails
  <2>2. \A p \in DOMAIN tree' : IsPath(p)
    BY <1>8, LinkFailsPaths DEF TreeInv, PreLinkFails
  <2> QED BY <2>1, <2>2 DEF TreeInv
<1>9. CASE Backup
  BY <1>9 DEF TreeInv, Backup
<1>10. CASE BackupFails
  BY <1>10 DEF TreeInv, BackupFails
<1>11. CASE RunStatement \/ StatementFails
  <2>1. phase' \in {"run", "undo_hook"} /\ prehook' = prehook
    BY <1>11 DEF RunStatement, StatementFails
  <2>2. \A p \in DOMAIN tree' : IsPath(p)
    BY <1>11 DEF HookStays, Reached, TreeInv
  <2> QED BY <2>1, <2>2 DEF TreeInv
<1>12. CASE HookDone
  BY <1>12 DEF TreeInv, HookDone
<1>13. CASE RestoreBackups
  <2>1. phase' \in {"undo_etcvar", "undo_strict"} /\ prehook' = prehook /\ prehook # <<>>
    BY <1>13 DEF RestoreBackups, AfterRestore, PhaseInv
  <2>2. \A p \in DOMAIN tree' : IsPath(p)
    BY <1>13, <2>1, CopiedBackPaths DEF RestoreBackups
  <2> QED BY <2>1, <2>2 DEF TreeInv
<1>14. CASE RestoreFails
  <2>1. phase' \in {"undo_etcvar", "stuck"} /\ prehook' = prehook /\ prehook # <<>>
    BY <1>14 DEF RestoreFails, PhaseInv
  <2>2. \A p \in DOMAIN tree' : IsPath(p)
    BY <1>14, <2>1, CopiedBackPaths DEF RestoreFails
  <2> QED BY <2>1, <2>2 DEF TreeInv
<1>15. CASE Finalize
  <2>1. phase' = "installed" /\ prehook' = prehook /\ ToLink(tree) \in SUBSET LinkedFiles(tree)
    BY <1>15 DEF Finalize, ToLink
  <2>2. \A p \in DOMAIN tree' : IsPath(p)
    BY <1>15, <2>1, LinkedFilesKept DEF Finalize, TreeInv
  <2> QED BY <2>1, <2>2 DEF TreeInv
<1>16. CASE FinalizeFails
  <2>1. phase' \in {"undo_strict", "undo_late"} /\ prehook' = prehook
    BY <1>16 DEF FinalizeFails
  <2>2. \A p \in DOMAIN tree' : IsPath(p)
    BY <1>16, LinkFailsPaths DEF TreeInv, FinalizeFails
  <2> QED BY <2>1, <2>2 DEF TreeInv
<1>17. CASE Cleanup
  <2>1. phase' = "failed" /\ prehook' = prehook /\ tree' = remove_path_if_exists(Unlinked(tree), keg_path)
    BY <1>17 DEF Cleanup
  <2>2. DOMAIN Unlinked(tree) \subseteq DOMAIN tree
    BY DEF Unlinked, Restrict
  <2>3. DOMAIN tree' \subseteq DOMAIN Unlinked(tree)
    BY <2>1, RemovedOf
  <2> QED BY <2>1, <2>2, <2>3 DEF TreeInv
<1>18. CASE Other
  <2>1. /\ phase' = phase /\ prehook' = prehook /\ tree' = Put(tree, OtherFile, File("other"))
        /\ Parent(OtherFile) \in DOMAIN tree /\ OtherFile \notin DOMAIN tree
    BY <1>18 DEF Other
  <2>2. IsPath(OtherFile) /\ ~InCellar(OtherFile)
    BY OtherPath
  <2>3. DOMAIN tree' = DOMAIN tree \union {OtherFile} /\ \A q \in DOMAIN tree : tree'[q] = tree[q]
    BY <2>1 DEF Put, Over
  <2>4. \A p \in DOMAIN tree' : IsPath(p)
    BY <2>2, <2>3 DEF TreeInv
  <2>5. IsTree(tree) => IsTree(tree')
    <3>1. IsPath(File("other").to)
      BY DirNode DEF File
    <3> QED BY <2>1, <2>2, <3>1, PlaceInTree, PutTree
  <2>6. LinkedFiles(tree) = LinkedFiles(tree')
    <3>1. \A p \in DOMAIN tree \union DOMAIN tree' : IsPath(p)
      BY <2>3, <2>4
    <3>2. \A p \in DOMAIN tree \union DOMAIN tree' : InCellar(p) => p \in DOMAIN tree /\ p \in DOMAIN tree' /\ tree[p] = tree'[p]
      BY <2>2, <2>3
    <3> QED BY ONLY <3>1, <3>2, SameLinkedFiles, Zenon
  <2> QED BY <2>1, <2>3, <2>4, <2>5, <2>6 DEF TreeInv
<1> QED
  BY <1>1, <1>2, <1>3, <1>4, <1>5, <1>6, <1>7, <1>8, <1>9, <1>10, <1>11, <1>12, <1>13,
     <1>14, <1>15, <1>16, <1>17, <1>18 DEF Next

LEMMA HookStep ==
    ASSUME PhaseInv, HookInv, HookStays, Next
    PROVE  HookInv'
<1> USE DEF Goto
<1>1. CASE Backup
  BY <1>1 DEF HookInv, Backup
<1>2. CASE RunStatement \/ StatementFails
  <2>1. /\ phase = "run" /\ HookPhase /\ other' = other /\ prehook' = prehook /\ backups' = backups /\ hook' = hook
        /\ phase' = "undo_hook" => captured' = captured
    BY <1>2 DEF RunStatement, StatementFails, HookPhase, Goto
  <2>2. \A p : (Reached(p)' <=> Reached(p)) /\ (AboveRoot(p)' <=> AboveRoot(p))
               /\ (phase' = "undo_hook" => (ForRefused(p)' <=> ForRefused(p)))
    BY <2>1, SameAbandoned
  <2>3. ASSUME ~other', NEW p \in DOMAIN tree' \union DOMAIN prehook, ~Reached(p)
        PROVE  /\ p \in DOMAIN tree'
               /\ p \in DOMAIN prehook => tree'[p] = prehook[p]
               /\ p \notin DOMAIN prehook => tree'[p] = Dir /\ (AboveRoot(p) \/ (phase' = "undo_hook" /\ ForRefused(p)))
    <3>1. CASE p \in DOMAIN tree
      <4>1. p \in DOMAIN tree' /\ tree'[p] = tree[p]
        BY <1>2, <2>3, <3>1 DEF HookStays
      <4> QED BY <2>1, <2>3, <3>1, <4>1 DEF HookInv
    <3>2. CASE p \notin DOMAIN tree
      <4>1. p \notin DOMAIN prehook
        BY <2>1, <2>3, <3>2 DEF HookInv
      <4> QED BY <1>2, <2>3, <3>2, <4>1 DEF HookStays
    <3> QED BY <3>1, <3>2
  <2> QED BY <2>1, <2>2, <2>3 DEF HookInv
<1>3. CASE HookDone
  <2>1. /\ phase = "run" /\ phase' = "finalize" /\ tree' = tree /\ prehook' = prehook /\ backups' = backups /\ other' = other
    BY <1>3 DEF HookDone
  <2>2. \A p : (Reached(p)' <=> Reached(p)) /\ (AboveRoot(p)' <=> AboveRoot(p))
    BY <2>1, SameAbandoned
  <2> QED BY <2>1, <2>2 DEF HookInv, HookPhase
<1>4. CASE Other
  BY <1>4 DEF HookInv, Other
<1>5. CASE \E p \in DOMAIN left : InstallEntry(p) \/ EntryFails(p)
  BY <1>5 DEF HookInv, HookPhase, PhaseInv, InstallEntry, EntryFails
<1>6. CASE EtcVarDone \/ UndoLast \/ UndoStops \/ Undone
  BY <1>6 DEF HookInv, HookPhase, PhaseInv, EtcVarDone, UndoLast, UndoStops, Undone
<1>7. CASE PreLink \/ PreLinkFails \/ BackupFails \/ Finalize \/ FinalizeFails \/ Cleanup
  BY <1>7 DEF HookInv, HookPhase, PhaseInv, PreLink, PreLinkFails, BackupFails, Finalize, FinalizeFails, Cleanup
<1>8. CASE RestoreBackups \/ RestoreFails
  BY <1>8 DEF HookInv, HookPhase, RestoreBackups, RestoreFails, AfterRestore
<1> QED BY <1>1, <1>2, <1>3, <1>4, <1>5, <1>6, <1>7, <1>8 DEF Next

----------------------------------------------------------------------------
(***************************************************************************)
(* Undoing the hook.                                                       *)
(***************************************************************************)
LEMMA PreHookStep ==
    ASSUME PhaseInv, TreeInv, HookInv, Next, phase = "undo_hook", ~torn', ~other'
    PROVE  LET was == InPrefix(prehook)  now == InPrefix(tree') IN
           /\ \A p \in DOMAIN was : p \in DOMAIN now /\ CameBack(p, now[p], was[p])
           /\ \A p \in DOMAIN now \ DOMAIN was : now[p] = Dir /\ Abandoned(p)
<1>1. RestoreBackups
  BY DEF Next, InstallEntry, EntryFails, EtcVarDone, UndoLast, UndoStops, Undone, PreLink, PreLinkFails,
         Backup, BackupFails, RunStatement, StatementFails, HookDone, RestoreFails, Finalize, FinalizeFails,
         Cleanup, Other
<1>2. tree' = Restored /\ ~other /\ HookPhase /\ prehook # <<>>
  BY <1>1 DEF RestoreBackups, Restored, HookPhase, PhaseInv
<1>3. \A p \in DOMAIN tree \union DOMAIN prehook : ~Reached(p) =>
        /\ p \in DOMAIN tree
        /\ p \in DOMAIN prehook => tree[p] = prehook[p]
        /\ p \notin DOMAIN prehook => tree[p] = Dir /\ Abandoned(p)
  BY <1>2 DEF HookInv, Abandoned
<1>4. IsTree(prehook) /\ GoodRoots(DOMAIN backups) /\ \A r \in DOMAIN backups : backups[r] = Saved(prehook, r)
  BY <1>2 DEF TreeInv, PhaseInv
<1>5. /\ \A p : p \in DOMAIN Restored <=> IF BelowRoot(p) THEN p \in DOMAIN prehook ELSE p \in DOMAIN tree
      /\ \A p \in DOMAIN Restored : Restored[p] = IF BelowRoot(p) THEN Copied(prehook[p]) ELSE tree[p]
  <2>1. \A p \in DOMAIN prehook : ~Reached(p) => p \in DOMAIN tree
    BY <1>3
  <2> QED BY ONLY <1>4, <2>1, RestoredOf, Zenon
<1>6. \A p \in DOMAIN tree \union DOMAIN prehook : ~InCellar(p) /\ ~BelowRoot(p) => ~Reached(p)
  BY KegInCellar DEF Reached
<1>7. ASSUME NEW p, ~InCellar(p)
      PROVE  /\ p \in DOMAIN prehook => p \in DOMAIN Restored /\ CameBack(p, Restored[p], prehook[p])
             /\ p \in DOMAIN Restored /\ p \notin DOMAIN prehook => Restored[p] = Dir /\ Abandoned(p)
  <2>1. CASE BelowRoot(p)
    BY <1>5, <2>1 DEF CameBack
  <2>2. CASE ~BelowRoot(p)
    BY <1>3, <1>5, <1>6, <1>7, <2>2 DEF CameBack
  <2> QED BY <2>1, <2>2
<1>8. \A t : /\ DOMAIN InPrefix(t) = {p \in DOMAIN t : ~InCellar(p)}
             /\ \A p \in DOMAIN InPrefix(t) : InPrefix(t)[p] = t[p]
  BY DEF InPrefix, Restrict, InCellar
<1>9. /\ \A p \in DOMAIN InPrefix(prehook) : p \in DOMAIN InPrefix(Restored)
                                            /\ CameBack(p, InPrefix(Restored)[p], InPrefix(prehook)[p])
      /\ \A p \in DOMAIN InPrefix(Restored) \ DOMAIN InPrefix(prehook) :
           InPrefix(Restored)[p] = Dir /\ Abandoned(p)
  BY <1>7, <1>8
<1> QED BY <1>2, <1>9

\* Undoing a hook that failed restores the files and links the hook found and leaves no new
\* ones, for every keg, prefix, bottle and program, if the statements change the keg and what is
\* below a saved root only and make directories nowhere else but where no root covers them.
THEOREM PreHookStateHolds == Spec /\ [][HookStays]_vars => PreHookState
<1>1. Init => PhaseInv /\ TreeInv /\ HookInv
  BY PhaseInit, TreeInit DEF Init, HookInv, HookPhase
<1>2. PhaseInv /\ TreeInv /\ HookInv /\ [HookStays]_vars /\ [Next]_vars => (PhaseInv /\ TreeInv /\ HookInv)'
  <2>1. CASE HookStays /\ Next
    BY <2>1, PhaseStep, TreeStep, HookStep
  <2>2. CASE UNCHANGED vars
    <3>1. \A p : (Reached(p)' <=> Reached(p)) /\ (AboveRoot(p)' <=> AboveRoot(p)) /\ (ForRefused(p)' <=> ForRefused(p))
      BY <2>2, SameAbandoned DEF vars
    <3> QED BY <2>2, <3>1 DEF vars, PhaseInv, TreeInv, HookInv, HookPhase
  <2> QED BY <2>1, <2>2
<1>3. PhaseInv /\ TreeInv /\ HookInv /\ [Next]_vars =>
        [phase = "undo_hook" /\ ~torn' /\ ~other' =>
           LET was == InPrefix(prehook)  now == InPrefix(tree') IN
           /\ \A p \in DOMAIN was : p \in DOMAIN now /\ CameBack(p, now[p], was[p])
           /\ \A p \in DOMAIN now \ DOMAIN was : now[p] = Dir /\ Abandoned(p)]_vars
  BY PreHookStep
<1> QED BY <1>1, <1>2, <1>3, PTL DEF Spec, PreHookState

----------------------------------------------------------------------------
(***************************************************************************)
(* The user's files.                                                       *)
(***************************************************************************)
\* The undo log names new paths of etc and var, each once.
Logs == {created[i] : i \in DOMAIN created}
LogInv ==
    /\ created \in Seq(Logs)
    /\ \A i \in DOMAIN created :
         /\ IsPath(created[i]) /\ created[i] # <<>> /\ created[i][1] \in {"etc", "var"}
         /\ created[i] \notin DOMAIN before
    /\ \A i, j \in DOMAIN created : created[i] = created[j] => i = j

\* What is still to be installed finds its place free or taken by what stays.
PlaceInv ==
    phase = "etcvar" => \A p \in DOMAIN left :
        /\ left[p].kind = "file" /\ p \in DOMAIN tree => Exists(tree, p)
        /\ ~IsLink(tree, default_install_path(p))

\* Without a hook everything stays; cleanup alone prunes directories.
Untouched(p) == p \in DOMAIN tree /\ tree[p] = before[p]
KeepInv ==
    prehook = <<>> =>
        /\ phase # "failed" => \A p \in DOMAIN before : Untouched(p)
        /\ phase = "failed" => \A p \in DOMAIN before \ Hollow(before) : Untouched(p)

\* What the log names is there until it is undone, and the other program's file is not in it.
Undoable == Phases \ {"cleanup", "failed", "installed", "stuck"}
OtherInv ==
    /\ phase \in Undoable => \A i \in DOMAIN created : created[i] \in DOMAIN tree \/ BelowRoot(created[i])
    /\ other /\ ~BelowRoot(OtherFile) =>
         /\ OtherFile \in DOMAIN tree /\ tree[OtherFile].kind = "file"
         /\ phase \in Undoable => OtherFile \notin Logs

----------------------------------------------------------------------------
\* Numbers of 1 .. k with all the smaller ones among them are the first few.
LEMMA FirstFew ==
    ASSUME NEW k \in Nat, NEW D \in SUBSET (1 .. k), \A m \in D : \A j \in 1 .. m : j \in D
    PROVE  \E n \in 0 .. k : D = 1 .. n
<1> DEFINE n == Cardinality(D)
<1>1. IsFiniteSet(1 .. k) /\ Cardinality(1 .. k) = k
  BY FS_Interval
<1>2. IsFiniteSet(D) /\ n \in Nat /\ n <= k
  BY <1>1, FS_Subset, FS_CardinalityType
<1> HIDE DEF n
<1>3. ASSUME NEW m \in D PROVE m \in 1 .. n
  <2>1. 1 .. m \subseteq D /\ m \in Nat /\ m >= 1
    OBVIOUS
  <2>2. Cardinality(1 .. m) <= n /\ Cardinality(1 .. m) = m
    BY <1>2, <2>1, FS_Interval, FS_Subset DEF n
  <2> QED BY <1>2, <2>1, <2>2
<1>4. ASSUME NEW m \in 1 .. n, m \notin D PROVE FALSE
  <2>1. D \subseteq 1 .. m - 1
    BY <1>2, <1>4
  <2>2. IsFiniteSet(1 .. m - 1) /\ Cardinality(1 .. m - 1) = m - 1
    BY <1>2, <1>4, FS_Interval
  <2>3. n <= m - 1
    BY <2>1, <2>2, FS_Subset DEF n
  <2> QED BY <1>2, <1>4, <2>3
<1>5. \A m : m \in D <=> m \in 1 .. n
  BY <1>3, <1>4
<1>6. D = 1 .. n
  BY <1>5
<1>7. n \in 0 .. k
  BY <1>2
<1> QED BY <1>6, <1>7

\* The directories ensure_dir_exists logs are those that are missing, parents first.
LEMMA LevelsOf ==
    ASSUME IsTree(tree), Exists(tree, <<>>), NEW e, IsPath(e), CanMkdir(tree, e)
    PROVE  LET L == NewLevels(e) IN
           /\ IsPath(L) /\ DOMAIN L = 1 .. Len(L)
           /\ \A i \in DOMAIN L :
                /\ IsPath(L[i]) /\ L[i] \in Ancestors(e) \union {e} /\ L[i] # <<>> /\ L[i] \notin DOMAIN tree
                /\ Ancestors(L[i]) \subseteq DOMAIN tree \union {L[j] : j \in 1 .. i - 1}
           /\ \A i, j \in DOMAIN L : L[i] = L[j] => i = j
           /\ \A q \in Ancestors(e) \union {e} : q # <<>> => q \in DOMAIN tree \/ \E i \in DOMAIN L : q = L[i]
<1> DEFINE k == Len(e)  n == existing_level(e)  L == NewLevels(e)
           level(m) == SubSeq(e, 1, m)
           Is(m) == Exists(tree, level(m)) /\ \A j \in m + 1 .. k : ~Exists(tree, level(j))
<1>1. k \in Nat /\ \A m \in 0 .. k : IsPath(level(m)) /\ Len(level(m)) = m /\ Under(level(m), e)
  <2>1. k \in Nat
    BY PathIsSeq
  <2>2. \A m \in 0 .. k : IsPath(level(m)) /\ Len(level(m)) = m /\ \A i \in 1 .. m : level(m)[i] = e[i]
    BY FirstNames
  <2>3. \A m \in 0 .. k : Under(level(m), e)
    <3> TAKE m \in 0 .. k
    <3> DEFINE x == level(m)
    <3>1. IsPath(x) /\ Len(x) = m /\ (\A i \in 1 .. m : x[i] = e[i]) /\ m <= k
      BY <2>1, <2>2
    <3> HIDE DEF x
    <3>2. Under(x, e)
      BY <3>1, UnderNames
    <3> QED BY <3>2 DEF x
  <2> QED BY <2>1, <2>2, <2>3
<1>2. \A q \in Ancestors(e) \union {e} : q # <<>> => \E m \in 1 .. k : q = level(m)
  <2>1. e = level(k) /\ (e # <<>> => k >= 1)
    <3>1. level(k) = e
      <4>1. k \in 0 .. k /\ IsPath(level(k)) /\ Len(level(k)) = k /\ Under(level(k), e)
        BY <1>1
      <4> HIDE DEF level
      <4> QED BY <4>1, UnderOrder
    <3>2. e # <<>> => k # 0
      BY DEF IsPath
    <3> QED BY <1>1, <3>1, <3>2
  <2>2. \A q \in Ancestors(e) : \E m \in 1 .. k - 1 : q = level(m)
    BY DEF Ancestors
  <2> HIDE DEF level
  <2> QED BY <1>1, <2>1, <2>2
<1>3. \A m \in 1 .. k : level(m) # <<>> /\ level(m) \in Ancestors(e) \union {e}
  <2> TAKE m \in 1 .. k
  <2>1. IsPath(level(m)) /\ Len(level(m)) = m /\ Under(level(m), e)
    BY <1>1
  <2> HIDE DEF level
  <2>2. level(m) # <<>>
    BY <2>1
  <2>3. m = k => level(m) = e
    BY <2>1, UnderOrder
  <2> QED BY <1>1, <2>1, <2>2, <2>3, AncestorsBelow
<1>4. \A m \in 1 .. k : level(m) \in DOMAIN tree <=> Exists(tree, level(m))
  BY <1>3 DEF CanMkdir, IsDir, Exists, Target, IsLink
<1>5. \A m \in 1 .. k : level(m) \in DOMAIN tree => \A j \in 1 .. m : level(j) \in DOMAIN tree
  <2> TAKE m \in 1 .. k
  <2> HAVE level(m) \in DOMAIN tree
  <2> TAKE j \in 1 .. m
  <2> HIDE DEF level
  <2>1. /\ IsPath(level(j)) /\ IsPath(level(m)) /\ Len(level(j)) = j /\ Len(level(m)) = m
        /\ Under(level(j), e) /\ Under(level(m), e) /\ j <= m
    <3>1. j \in 0 .. k /\ m \in 0 .. k /\ j <= m
      BY <1>1
    <3>2. IsPath(level(j)) /\ Len(level(j)) = j /\ Under(level(j), e)
      BY ONLY <1>1, <3>1, Zenon
    <3>3. IsPath(level(m)) /\ Len(level(m)) = m /\ Under(level(m), e)
      BY ONLY <1>1, <3>1, Zenon
    <3> QED BY <3>1, <3>2, <3>3
  <2>2. Under(level(j), level(m))
    BY <2>1, UnderNames
  <2>3. j = m => level(j) = level(m)
    OBVIOUS
  <2>4. level(j) \in Ancestors(level(m)) \union {level(m)}
    BY <2>1, <2>2, <2>3, AncestorsBelow
  <2> QED BY <2>4 DEF IsTree
<1>6. n \in 0 .. k /\ Is(n)
  <2> DEFINE D == {m \in 1 .. k : level(m) \in DOMAIN tree}
  <2>1. level(0) = <<>>
    BY <1>1
  <2>2. PICK c \in 0 .. k : D = 1 .. c
    <3>1. \A m \in D : \A j \in 1 .. m : j \in D
      BY <1>1, <1>5
    <3> HIDE DEF D
    <3>2. D \in SUBSET (1 .. k)
      BY DEF D
    <3> QED BY <1>1, <3>1, <3>2, FirstFew
  <2>3. c = 0 \/ c \in D
    BY <2>2
  <2>4. \A j \in c + 1 .. k : j \in 1 .. k /\ j \notin D
    BY <1>1, <2>2
  <2>5. Is(c)
    BY <1>4, <2>1, <2>3, <2>4
  <2>6. n = CHOOSE j \in 0 .. k : Is(j)
    BY DEF existing_level
  <2> HIDE DEF Is, n
  <2> QED BY <2>5, <2>6
<1>7. IsPath(L) /\ DOMAIN L = 1 .. k - n /\ Len(L) = k - n /\ \A i \in 1 .. k - n : L[i] = level(n + i)
  <2>1. L = [i \in 1 .. k - n |-> level(n + i)]
    BY DEF NewLevels
  <2>2. k - n \in Nat
    <3> HIDE DEF n, level
    <3> QED BY <1>1, <1>6
  <2> HIDE DEF L, n, level
  <2>3. L = [i \in 1 .. k - n |-> L[i]]
    BY <2>1
  <2> QED BY <2>1, <2>2, <2>3, MakePath
<1> HIDE DEF n, level
<1>8. \A i \in 1 .. k - n : n + i \in 1 .. k /\ n + i \in n + 1 .. k
  BY <1>1, <1>6
<1>9. \A i \in DOMAIN L :
        IsPath(L[i]) /\ L[i] \in Ancestors(e) \union {e} /\ L[i] # <<>> /\ L[i] \notin DOMAIN tree
  BY <1>1, <1>3, <1>4, <1>6, <1>7, <1>8
<1>10. \A i, j \in DOMAIN L : L[i] = L[j] => i = j
  BY <1>1, <1>6, <1>7, <1>8
<1>11. \A m \in 1 .. n : level(m) \in DOMAIN tree
  BY <1>1, <1>4, <1>5, <1>6
<1>12. \A m \in 1 .. k : level(m) \in DOMAIN tree \/ (m - n \in 1 .. k - n /\ level(m) = L[m - n])
  BY <1>1, <1>6, <1>7, <1>11
<1>13. ASSUME NEW i \in DOMAIN L, NEW a \in Ancestors(L[i])
       PROVE  a \in DOMAIN tree \union {L[j] : j \in 1 .. i - 1}
  <2>1. L[i] = level(n + i) /\ n + i \in 1 .. k /\ IsPath(L[i]) /\ Len(L[i]) = n + i /\ Under(L[i], e)
    BY <1>1, <1>6, <1>7, <1>8
  <2>2. IsPath(a) /\ a # <<>> /\ Under(a, L[i]) /\ Len(a) \in Nat /\ Len(a) >= 1 /\ Len(a) < n + i
    BY <2>1, AncestorsBelow, AncestorsChain, PathIsSeq
  <2>3. Under(a, e)
    BY <2>1, <2>2, UnderOrder
  <2>4. a \in Ancestors(e)
    BY <1>1, <1>6, <2>1, <2>2, <2>3, AncestorsBelow
  <2>5. PICK m \in 1 .. k : a = level(m)
    BY <1>2, <2>2, <2>4
  <2>6. Len(a) = m
    BY <1>1, <2>5
  <2>7. m - n \in 1 .. k - n => m - n \in 1 .. i - 1
    BY <1>1, <1>6, <1>7, <2>1, <2>2, <2>6
  <2> QED BY <1>12, <2>5, <2>7
<1>14. \A q \in Ancestors(e) \union {e} : q # <<>> => q \in DOMAIN tree \/ \E i \in DOMAIN L : q = L[i]
  <2> TAKE q \in Ancestors(e) \union {e}
  <2> HAVE q # <<>>
  <2>1. PICK m \in 1 .. k : q = level(m)
    BY <1>2
  <2>2. m - n \in 1 .. k - n /\ level(m) = L[m - n] => \E i \in DOMAIN L : q = L[i]
    BY <1>7, <2>1
  <2> QED BY <1>12, <2>1, <2>2
<1> HIDE DEF L, k
<1> QED BY <1>7, <1>9, <1>10, <1>13, <1>14 DEF L

\* Sequences after one another.
LEMMA ConcatOf ==
    ASSUME NEW a, IsPath(a), NEW b, IsPath(b)
    PROVE  /\ IsPath(a \o b) /\ Len(a \o b) = Len(a) + Len(b) /\ DOMAIN (a \o b) = 1 .. Len(a) + Len(b)
           /\ \A i \in 1 .. Len(a) : (a \o b)[i] = a[i]
           /\ \A i \in 1 .. Len(b) : (a \o b)[Len(a) + i] = b[i]
           /\ a \o b = [i \in 1 .. Len(a) + Len(b) |-> IF i <= Len(a) THEN a[i] ELSE b[i - Len(a)]]
<1> DEFINE T == {a[i] : i \in DOMAIN a} \union {b[i] : i \in DOMAIN b}  c == a \o b
<1>1. /\ a = [i \in 1 .. Len(a) |-> a[i]] /\ DOMAIN a = 1 .. Len(a) /\ Len(a) \in Nat
      /\ b = [i \in 1 .. Len(b) |-> b[i]] /\ DOMAIN b = 1 .. Len(b) /\ Len(b) \in Nat
  BY PathIsSeq
<1>2. (\A i \in 1 .. Len(a) : a[i] \in T) /\ \A i \in 1 .. Len(b) : b[i] \in T
  BY <1>1
<1> HIDE DEF T
<1>3. a \in [1 .. Len(a) -> T] /\ b \in [1 .. Len(b) -> T]
  BY <1>1, <1>2
<1>4. a \in Seq(T) /\ b \in Seq(T)
  BY <1>1, <1>3
<1>5. /\ c \in Seq(T) /\ Len(c) = Len(a) + Len(b)
      /\ \A i \in 1 .. Len(a) : c[i] = a[i]
      /\ \A i \in 1 .. Len(b) : c[Len(a) + i] = b[i]
  BY <1>4
<1>6. \A i \in 1 .. Len(a) + Len(b) : c[i] = IF i <= Len(a) THEN a[i] ELSE b[i - Len(a)]
  BY <1>4
<1> HIDE DEF c
<1>7. c = [i \in 1 .. Len(a) + Len(b) |-> c[i]]
  BY <1>5
<1>8. c = [i \in 1 .. Len(a) + Len(b) |-> IF i <= Len(a) THEN a[i] ELSE b[i - Len(a)]]
  BY <1>6, <1>7
<1>9. IsPath(c) /\ DOMAIN c = 1 .. Len(a) + Len(b)
  <2> DEFINE n == Len(a) + Len(b)
  <2>1. n \in Nat /\ c = [i \in 1 .. n |-> c[i]]
    BY <1>1, <1>7
  <2> HIDE DEF n
  <2>2. IsPath(c) /\ DOMAIN c = 1 .. n
    BY <2>1, MakePath
  <2> QED BY <2>2 DEF n
<1> QED BY <1>5, <1>8, <1>9 DEF c

LEMMA AppendConcat ==
    ASSUME NEW a, IsPath(a), NEW b, IsPath(b), NEW x
    PROVE  Append(a \o b, x) = a \o Append(b, x)
<1> DEFINE c == a \o b  d == Append(b, x)  m == Len(a)  n == Len(b)
<1>1. m \in Nat /\ n \in Nat /\ IsPath(c) /\ Len(c) = m + n /\ IsPath(d) /\ Len(d) = n + 1
  BY ConcatOf, AppendPath, PathIsSeq
<1>2. c = [i \in 1 .. m + n |-> IF i <= m THEN a[i] ELSE b[i - m]]
  BY ConcatOf
<1>3. d = [i \in 1 .. n + 1 |-> IF i = n + 1 THEN x ELSE b[i]]
  BY AppendPath
<1> HIDE DEF c, d, m, n
<1>4. Append(c, x) = [i \in 1 .. m + n + 1 |-> IF i = m + n + 1 THEN x ELSE c[i]]
  BY <1>1, AppendPath
<1>5. a \o d = [i \in 1 .. m + (n + 1) |-> IF i <= m THEN a[i] ELSE d[i - m]]
  BY <1>1, ConcatOf DEF m
<1>6. \A i \in 1 .. m + n + 1 : (IF i = m + n + 1 THEN x ELSE c[i]) = IF i <= m THEN a[i] ELSE d[i - m]
  BY <1>1, <1>2, <1>3
<1>7. Append(c, x) = a \o d
  BY <1>1, <1>4, <1>5, <1>6
<1> QED BY <1>7 DEF c, d

\* A file or link of .bottle that is written goes to a free place, or over a file at its
\* .default that came meanwhile.
LEMMA PutPlace ==
    ASSUME PlacesFree, PhaseInv, TreeInv, PlaceInv, KeepInv, phase = "etcvar", NEW p \in DOMAIN left,
           left[p].kind # "dir"
    PROVE  LET dirs == create_dir_all(tree, DirOf(p))  d == Destination(dirs, p) IN
           CanInstall(dirs, p) /\ ~Same(dirs, d, left[p]) =>
             /\ IsPath(d) /\ d # <<>> /\ d[1] \in {"etc", "var"} /\ Ancestors(d) \subseteq DOMAIN dirs
             /\ d \notin DOMAIN before
             /\ d = default_install_path(p) \/ (d = p /\ d \notin DOMAIN dirs)
             /\ d \in DOMAIN dirs => left[p].kind = "file"
             /\ WasThere(dirs, d, left[p]) <=> d \in DOMAIN dirs
             /\ \A node : node.kind = left[p].kind => Installed(dirs, d, node) = Put(dirs, d, node)
<1> DEFINE dirs == create_dir_all(tree, DirOf(p))  d == Destination(dirs, p)  x == default_install_path(p)
<1> SUFFICES ASSUME CanInstall(dirs, p), ~Same(dirs, d, left[p])
             PROVE  /\ IsPath(d) /\ d # <<>> /\ d[1] \in {"etc", "var"} /\ Ancestors(d) \subseteq DOMAIN dirs
                    /\ d \notin DOMAIN before
                    /\ d = x \/ (d = p /\ d \notin DOMAIN dirs)
                    /\ d \in DOMAIN dirs => left[p].kind = "file"
                    /\ WasThere(dirs, d, left[p]) <=> d \in DOMAIN dirs
                    /\ \A node : node.kind = left[p].kind => Installed(dirs, d, node) = Put(dirs, d, node)
  OBVIOUS
<1>1. /\ IsPath(p) /\ p # <<>> /\ p[1] \in {"etc", "var"} /\ IsPath(x) /\ x # <<>> /\ x[1] = p[1]
      /\ Ancestors(x) = Ancestors(p) /\ left[p].kind \in {"file", "link"}
      /\ Ancestors(p) = Ancestors(DirOf(p)) \union {DirOf(p)}
  BY EntryPaths
<1>2. DOMAIN dirs = DOMAIN tree \union Ancestors(p) /\ (\A q \in DOMAIN tree : dirs[q] = tree[q])
      /\ \A q \in Ancestors(p) : q \notin DOMAIN tree => dirs[q] = Dir
  <2>1. DOMAIN dirs = DOMAIN tree \union Ancestors(DirOf(p)) \union {DirOf(p)} /\ (\A q \in DOMAIN tree : dirs[q] = tree[q])
        /\ \A q \in Ancestors(DirOf(p)) \union {DirOf(p)} : q \notin DOMAIN tree => dirs[q] = Dir
    BY MkdirOf
  <2> QED BY <1>1, <2>1
<1>3. p \notin Ancestors(p) /\ x \notin Ancestors(p)
  BY <1>1, AncestorsChain
<1>4. /\ x \notin DOMAIN before
      /\ left[p].kind = "file" /\ p \in DOMAIN tree => Exists(tree, p)
      /\ ~IsLink(tree, x)
      /\ DOMAIN before \subseteq DOMAIN tree
  <2>1. PICK s \in Starts : before = s.tree /\ p \in DOMAIN s.bottle
    BY DEF PhaseInv
  <2>2. x \notin DOMAIN before
    BY <2>1 DEF PlacesFree
  <2>3. prehook = <<>>
    BY DEF PhaseInv
  <2> QED BY <2>2, <2>3 DEF PlaceInv, KeepInv, Untouched
<1>5. d = x \/ d = p
  BY DEF Destination
<1> HIDE DEF dirs, d, x
<1>6. ~IsLink(dirs, x) /\ (left[p].kind = "file" /\ p \in DOMAIN dirs => Exists(dirs, p))
  <2>1. ~IsLink(dirs, x)
    BY <1>2, <1>3, <1>4 DEF IsLink
  <2>2. left[p].kind = "file" /\ p \in DOMAIN dirs => Exists(dirs, p)
    BY <1>2, <1>3, <1>4 DEF Exists, Target, IsLink
  <2> QED BY <2>1, <2>2
<1>7. CASE left[p].kind = "file"
  <2>1. d = p => p \notin DOMAIN dirs
    <3> SUFFICES ASSUME d = p, p \in DOMAIN dirs PROVE FALSE
      OBVIOUS
    <3>1. Exists(dirs, p) /\ x # p
      <4>1. Ancestors(x) = Ancestors(p) /\ Exists(dirs, p)
        BY <1>1, <1>6, <1>7
      <4>2. PICK s \in Starts : p \in DOMAIN s.bottle
        BY DEF PhaseInv
      <4>3. x # p
        BY <4>2 DEF PlacesFree, x
      <4> QED BY <4>1, <4>3
    <3>2. SameFile(dirs, p, left[p])
      BY <1>7, <3>1 DEF Destination, d, x
    <3> QED BY <1>7, <3>2 DEF Same
  <2>2. ~IsLink(dirs, d)
    BY <1>5, <1>6, <2>1 DEF IsLink
  <2>3. Target(dirs, d) = d
    BY <2>2 DEF Target
  <2>4. \A node : node.kind = left[p].kind => Installed(dirs, d, node) = Put(dirs, d, node)
    BY <1>7, <2>3 DEF Installed
  <2>5. WasThere(dirs, d, left[p]) <=> d \in DOMAIN dirs
    BY <1>7, <2>3 DEF WasThere, Exists
  <2> QED BY <1>1, <1>2, <1>4, <1>5, <1>7, <2>1, <2>4, <2>5
<1>8. CASE left[p].kind = "link"
  <2>1. d \in DOMAIN dirs => IsLink(dirs, d)
    BY <1>5, <1>8 DEF CanInstall, d
  <2>2. d = x => d \notin DOMAIN dirs
    BY <1>6, <2>1
  <2>3. d = p => d \notin DOMAIN dirs
    <3> SUFFICES ASSUME d = p, p \in DOMAIN dirs, d # x PROVE FALSE
      BY <2>2
    <3>1. SameLink(dirs, p, left[p])
      BY <1>8 DEF Destination, d, x
    <3> QED BY <1>8, <3>1 DEF Same
  <2>4. \A node : node.kind = left[p].kind => Installed(dirs, d, node) = Put(dirs, d, node)
    BY <1>8 DEF Installed
  <2>5. WasThere(dirs, d, left[p]) <=> d \in DOMAIN dirs
    BY <1>8 DEF WasThere
  <2> QED BY <1>1, <1>2, <1>4, <1>5, <2>2, <2>3, <2>4, <2>5
<1> QED BY <1>1, <1>7, <1>8 DEF dirs, d, x

\* What an entry does: new goes to the log, nothing that was there goes, and only a file at
\* the entry's .default is written over.
Grows(p, new) ==
    /\ IsPath(new) /\ created' = created \o new
    /\ \A i \in DOMAIN new :
         /\ IsPath(new[i]) /\ new[i] # <<>> /\ new[i][1] \in {"etc", "var"}
         /\ new[i] \notin DOMAIN tree /\ new[i] \in DOMAIN tree'
         /\ Ancestors(new[i]) \subseteq DOMAIN tree \union {new[j] : j \in 1 .. i - 1}
    /\ \A i, j \in DOMAIN new : new[i] = new[j] => i = j
    /\ \A q \in DOMAIN tree :
         /\ q \in DOMAIN tree'
         /\ tree'[q] # tree[q] => q = default_install_path(p) /\ q \notin DOMAIN before /\ tree'[q].kind = "file"
    /\ \A q \in DOMAIN tree' \ DOMAIN tree :
         /\ tree'[q].kind \in {"dir", "file"} \/ q \in {p, default_install_path(p)}
         /\ ~torn' => \E i \in DOMAIN new : q = new[i]

LEMMA EntryGrows ==
    ASSUME PlacesFree, PhaseInv, TreeInv, LogInv, PlaceInv, KeepInv, NEW p \in DOMAIN left,
           InstallEntry(p) \/ EntryFails(p)
    PROVE  \E new : Grows(p, new)
<1> DEFINE e == DirOf(p)  dirs == create_dir_all(tree, e)  d == Destination(dirs, p)  L == NewLevels(e)
           x == default_install_path(p)
<1>1. phase = "etcvar" /\ prehook = <<>> /\ IsTree(tree) /\ IsPath(created)
  BY DEF InstallEntry, EntryFails, PhaseInv, TreeInv, LogInv, Logs, IsPath
<1>2. Exists(tree, <<>>)
  <2>1. PICK s \in Starts : before = s.tree
    BY DEF PhaseInv
  <2>2. Exists(before, <<>>)
    BY <2>1, StartAssumption DEF IsDir
  <2>3. \A q \in DOMAIN before : q \in DOMAIN tree /\ tree[q] = before[q]
    BY <1>1 DEF KeepInv, Untouched
  <2> QED BY <2>2, <2>3 DEF Exists, Target, IsLink
<1>3. /\ IsPath(e) /\ e # <<>> /\ e[1] \in {"etc", "var"}
      /\ \A a \in Ancestors(e) \union {e} : a # <<>> /\ a[1] \in {"etc", "var"}
  BY EntryPaths
<1>4. ASSUME tree' = tree, created' = created PROVE Grows(p, <<>>)
  <2>1. created = created \o <<>>
    BY <1>1 DEF IsPath
  <2>2. DOMAIN <<>> = {} /\ IsPath(<<>>)
    BY DirNode
  <2> QED BY <1>4, <2>1, <2>2 DEF Grows
<1>5. ASSUME CanMkdir(tree, e)
      PROVE  /\ IsPath(L) /\ DOMAIN L = 1 .. Len(L) /\ Len(L) \in Nat
             /\ \A i \in DOMAIN L :
                  /\ IsPath(L[i]) /\ L[i] # <<>> /\ L[i][1] \in {"etc", "var"}
                  /\ L[i] \notin DOMAIN tree /\ L[i] \in DOMAIN dirs
                  /\ Ancestors(L[i]) \subseteq DOMAIN tree \union {L[j] : j \in 1 .. i - 1}
             /\ \A i, j \in DOMAIN L : L[i] = L[j] => i = j
             /\ \A q \in DOMAIN tree : q \in DOMAIN dirs /\ dirs[q] = tree[q]
             /\ \A q \in DOMAIN dirs \ DOMAIN tree : dirs[q] = Dir /\ \E i \in DOMAIN L : q = L[i]
  <2>1. /\ IsPath(L) /\ DOMAIN L = 1 .. Len(L)
        /\ \A i \in DOMAIN L :
             /\ IsPath(L[i]) /\ L[i] \in Ancestors(e) \union {e} /\ L[i] # <<>> /\ L[i] \notin DOMAIN tree
             /\ Ancestors(L[i]) \subseteq DOMAIN tree \union {L[j] : j \in 1 .. i - 1}
        /\ \A i, j \in DOMAIN L : L[i] = L[j] => i = j
        /\ \A q \in Ancestors(e) \union {e} : q # <<>> => q \in DOMAIN tree \/ \E i \in DOMAIN L : q = L[i]
    <3> HIDE DEF e
    <3> QED BY <1>1, <1>2, <1>3, <1>5, LevelsOf
  <2>2. /\ DOMAIN dirs = DOMAIN tree \union Ancestors(e) \union {e} /\ \A q \in DOMAIN tree : dirs[q] = tree[q]
        /\ \A q \in Ancestors(e) \union {e} : q \notin DOMAIN tree => dirs[q] = Dir
    BY MkdirOf
  <2> HIDE DEF L, e, dirs
  <2>3. \A i \in DOMAIN L : L[i] \in DOMAIN dirs /\ L[i][1] \in {"etc", "var"}
    BY <1>3, <2>1, <2>2
  <2>4. \A q \in DOMAIN dirs \ DOMAIN tree : dirs[q] = Dir /\ \E i \in DOMAIN L : q = L[i]
    BY <1>3, <2>1, <2>2
  <2>5. \A q \in DOMAIN tree : q \in DOMAIN dirs /\ dirs[q] = tree[q]
    BY <2>2
  <2>6. Len(L) \in Nat
    BY <2>1, PathIsSeq
  <2> QED BY <2>1, <2>3, <2>4, <2>5, <2>6
<1> HIDE DEF L, e, dirs
<1>6. ASSUME CanMkdir(tree, e), tree' = dirs, created' = created \o L PROVE Grows(p, L)
  BY <1>5, <1>6, DirNode DEF Grows
<1>7. ASSUME CanMkdir(tree, e), CanInstall(dirs, p), left[p].kind # "dir", ~Same(dirs, d, left[p]),
             NEW node, node.kind = left[p].kind, tree' = Installed(dirs, d, node),
             \/ created' = LoggedNew(created \o L, dirs, d, left[p])
             \/ torn' /\ created' = created \o L /\ node.kind = "file"
      PROVE  \E new : Grows(p, new)
  <2>1. /\ IsPath(d) /\ d # <<>> /\ d[1] \in {"etc", "var"} /\ Ancestors(d) \subseteq DOMAIN dirs
        /\ d \notin DOMAIN before
        /\ d = x \/ (d = p /\ d \notin DOMAIN dirs)
        /\ d \in DOMAIN dirs => left[p].kind = "file"
        /\ WasThere(dirs, d, left[p]) <=> d \in DOMAIN dirs
        /\ Installed(dirs, d, node) = Put(dirs, d, node)
    BY <1>1, <1>7, PutPlace DEF dirs, e
  <2> HIDE DEF d, x
  <2>2. DOMAIN tree' = DOMAIN dirs \union {d} /\ tree'[d] = node /\ \A q \in DOMAIN dirs : q # d => tree'[q] = dirs[q]
    BY <1>7, <2>1 DEF Put, Over
  <2>3. \A q \in DOMAIN tree : q \in DOMAIN tree' /\ (tree'[q] # tree[q] => q = x /\ q \notin DOMAIN before /\ tree'[q].kind = "file")
    BY <1>5, <1>7, <2>1, <2>2
  <2>4. \A q \in DOMAIN tree' \ DOMAIN tree : q # d => tree'[q] = Dir /\ \E i \in DOMAIN L : q = L[i]
    BY <1>5, <1>7, <2>2
  <2>5. \A q \in DOMAIN tree' \ DOMAIN tree : tree'[q].kind \in {"dir", "file"} \/ q \in {p, x}
    BY <2>1, <2>2, <2>4, DirNode
  <2>6. \A i \in DOMAIN L : L[i] \in DOMAIN tree'
    BY <1>5, <1>7, <2>2
  <2>7. CASE created' = created \o L /\ (d \in DOMAIN dirs \/ torn')
    <3>1. ASSUME NEW q \in DOMAIN tree' \ DOMAIN tree, ~torn' PROVE \E i \in DOMAIN L : q = L[i]
      BY <1>5, <1>7, <2>2, <2>7, <3>1
    <3>2. \A q \in DOMAIN tree' \ DOMAIN tree :
            /\ tree'[q].kind \in {"dir", "file"} \/ q \in {p, x}
            /\ ~torn' => \E i \in DOMAIN L : q = L[i]
      BY <2>5, <3>1
    <3>3. \A i \in DOMAIN L :
            /\ IsPath(L[i]) /\ L[i] # <<>> /\ L[i][1] \in {"etc", "var"}
            /\ L[i] \notin DOMAIN tree /\ L[i] \in DOMAIN tree'
            /\ Ancestors(L[i]) \subseteq DOMAIN tree \union {L[j] : j \in 1 .. i - 1}
      BY <1>5, <1>7, <2>6
    <3>4. IsPath(L) /\ \A i, j \in DOMAIN L : L[i] = L[j] => i = j
      BY <1>5, <1>7
    <3>5. Grows(p, L)
      BY ONLY <2>3, <2>7, <3>2, <3>3, <3>4, Zenon DEF Grows, x
    <3> QED BY <3>5
  <2>8. CASE created' = Append(created \o L, d) /\ d \notin DOMAIN dirs
    <3> DEFINE new == Append(L, d)  n == Len(L)
    <3>1. /\ IsPath(new) /\ DOMAIN new = 1 .. n + 1 /\ n \in Nat /\ DOMAIN L = 1 .. n
          /\ \A i \in 1 .. n : new[i] = L[i]
          /\ new[n + 1] = d
      <4>1. /\ IsPath(new) /\ Len(new) = n + 1 /\ new = [i \in 1 .. n + 1 |-> IF i = n + 1 THEN d ELSE L[i]]
            /\ n \in Nat /\ DOMAIN L = 1 .. n
        BY <1>5, <1>7, AppendPath
      <4> HIDE DEF new, n
      <4> QED BY <4>1
    <3>2. created' = created \o new
      <4>1. IsPath(created) /\ IsPath(L)
        BY <1>1, <1>5, <1>7
      <4>2. Append(created \o L, d) = created \o Append(L, d)
        BY <4>1, AppendConcat
      <4> QED BY <2>8, <4>2
    <3> HIDE DEF new, n
    <3>3. \A i \in DOMAIN new : i \in DOMAIN L \/ i = n + 1
      BY <3>1
    <3>4. \A i \in DOMAIN new : {L[j] : j \in 1 .. i - 1} \subseteq {new[j] : j \in 1 .. i - 1} \/ i = n + 1
      BY <3>1, <3>3
    <3>5. ASSUME NEW i \in DOMAIN L
          PROVE  /\ i \in DOMAIN new /\ new[i] = L[i]
                 /\ {new[j] : j \in 1 .. i - 1} = {L[j] : j \in 1 .. i - 1}
      <4>1. \A j \in 1 .. i - 1 : new[j] = L[j]
        BY <3>1
      <4> QED BY <3>1, <4>1
    <3>6. d \notin DOMAIN tree /\ d \in DOMAIN tree'
      BY <1>5, <1>7, <2>2, <2>8
    <3>7. Ancestors(d) \subseteq DOMAIN tree \union {new[j] : j \in 1 .. n}
      <4>1. \A q \in DOMAIN dirs \ DOMAIN tree : \E i \in 1 .. n : q = new[i]
        BY <1>5, <1>7, <3>1
      <4> QED BY <2>1, <4>1
    <3>8. \A i \in DOMAIN new :
            /\ IsPath(new[i]) /\ new[i] # <<>> /\ new[i][1] \in {"etc", "var"}
            /\ new[i] \notin DOMAIN tree /\ new[i] \in DOMAIN tree'
            /\ Ancestors(new[i]) \subseteq DOMAIN tree \union {new[j] : j \in 1 .. i - 1}
      <4> TAKE i \in DOMAIN new
      <4>1. CASE i \in DOMAIN L
        BY <1>5, <1>7, <2>6, <3>5, <4>1
      <4>2. CASE i = n + 1
        <5>1. i - 1 = n /\ new[i] = d
          BY <3>1, <4>2
        <5> QED BY <2>1, <3>6, <3>7, <5>1
      <4> QED BY <3>3, <4>1, <4>2
    <3>9. \A i, j \in DOMAIN new : new[i] = new[j] => i = j
      <4>1. \A i \in DOMAIN L : L[i] # d
        BY <1>5, <1>7, <2>8
      <4>2. \A i, j \in DOMAIN L : L[i] = L[j] => i = j
        BY <1>5, <1>7
      <4> QED BY <3>1, <3>3, <3>5, <4>1, <4>2
    <3>10. \A q \in DOMAIN tree' \ DOMAIN tree : \E i \in DOMAIN new : q = new[i]
      <4>1. n + 1 \in DOMAIN new
        BY <3>1
      <4> QED BY <2>4, <3>1, <3>5, <4>1
    <3>11. \A q \in DOMAIN tree' \ DOMAIN tree :
             /\ tree'[q].kind \in {"dir", "file"} \/ q \in {p, x}
             /\ ~torn' => \E i \in DOMAIN new : q = new[i]
      BY <2>5, <3>10
    <3>12. Grows(p, new)
      BY ONLY <2>3, <3>1, <3>2, <3>8, <3>9, <3>11, Zenon DEF Grows, x
    <3> QED BY <3>12
  <2> QED BY <1>7, <2>1, <2>7, <2>8 DEF LoggedNew
<1>8. CASE InstallEntry(p)
  <2>1. CanMkdir(tree, e) /\ CanInstall(dirs, p)
    BY <1>8 DEF InstallEntry, dirs, e
  <2>2. \/ tree' = dirs /\ created' = created \o L
        \/ /\ left[p].kind # "dir" /\ ~Same(dirs, d, left[p])
           /\ tree' = Installed(dirs, d, left[p]) /\ created' = LoggedNew(created \o L, dirs, d, left[p])
    BY <1>8 DEF InstallEntry, dirs, e, L, Logged
  <2> HIDE DEF d
  <2> QED BY <1>6, <1>7, <2>1, <2>2
<1>9. CASE EntryFails(p)
  <2>1. \/ tree' = tree /\ created' = created
        \/ CanMkdir(tree, e) /\ tree' = dirs /\ created' = created \o L
        \/ /\ CanMkdir(tree, e) /\ CanInstall(dirs, p) /\ left[p].kind = "file" /\ ~Same(dirs, d, left[p])
           /\ tree' = Installed(dirs, d, File("partial")) /\ created' = created \o L /\ torn'
    BY <1>9 DEF EntryFails, dirs, e, L, Logged
  <2>2. File("partial").kind = "file"
    BY DEF File
  <2> HIDE DEF d
  <2> QED BY <1>4, <1>6, <1>7, <2>1, <2>2
<1> QED BY <1>8, <1>9

\* The log an entry leaves: what was in it, then what is new.
LEMMA GrownLog ==
    ASSUME LogInv, NEW p, NEW new, Grows(p, new)
    PROVE  LET n == Len(created)  m == Len(new) IN
           /\ n \in Nat /\ m \in Nat /\ DOMAIN created = 1 .. n /\ DOMAIN new = 1 .. m
           /\ IsPath(created') /\ DOMAIN created' = 1 .. n + m
           /\ \A i \in 1 .. n : created'[i] = created[i]
           /\ \A i \in 1 .. m : created'[n + i] = new[i]
           /\ \A i \in DOMAIN created' : i \in 1 .. n \/ i - n \in 1 .. m
           /\ Logs' = Logs \union {new[i] : i \in DOMAIN new}
<1> DEFINE n == Len(created)  m == Len(new)
<1>1. IsPath(created) /\ IsPath(new) /\ created' = created \o new
  BY DEF LogInv, Logs, IsPath, Grows
<1>2. n \in Nat /\ m \in Nat /\ DOMAIN created = 1 .. n /\ DOMAIN new = 1 .. m
  BY <1>1, PathIsSeq
<1>3. /\ IsPath(created') /\ DOMAIN created' = 1 .. n + m
      /\ \A i \in 1 .. n : created'[i] = created[i]
      /\ \A i \in 1 .. m : created'[n + i] = new[i]
  BY <1>1, ConcatOf
<1> HIDE DEF n, m
<1>4. \A i \in DOMAIN created' : i \in 1 .. n \/ (i - n \in 1 .. m /\ i = n + (i - n))
  BY <1>2, <1>3
<1>5. Logs' = Logs \union {new[i] : i \in DOMAIN new}
  <2>1. ASSUME NEW x \in Logs' PROVE x \in Logs \union {new[i] : i \in DOMAIN new}
    <3>1. PICK i \in DOMAIN created' : x = created'[i]
      BY DEF Logs
    <3>2. CASE i \in 1 .. n
      BY <1>2, <1>3, <3>1, <3>2 DEF Logs
    <3>3. CASE i - n \in 1 .. m /\ i = n + (i - n)
      BY <1>2, <1>3, <3>1, <3>3
    <3> QED BY <1>4, <3>2, <3>3
  <2>2. ASSUME NEW x \in Logs PROVE x \in Logs'
    <3>1. PICK i \in 1 .. n : x = created[i]
      BY <1>2 DEF Logs
    <3>2. i \in DOMAIN created' /\ x = created'[i]
      BY <1>2, <1>3, <3>1
    <3> QED BY <3>2 DEF Logs
  <2>3. ASSUME NEW i \in DOMAIN new PROVE new[i] \in Logs'
    <3>1. n + i \in DOMAIN created' /\ new[i] = created'[n + i]
      BY <1>2, <1>3
    <3> QED BY <3>1 DEF Logs
  <2> QED BY <2>1, <2>2, <2>3
<1> QED BY <1>2, <1>3, <1>4, <1>5 DEF n, m

\* One step of the rollback takes the last path of the log out of the tree and the log.
LEMMA UndoLastOf ==
    ASSUME LogInv, UndoLast
    PROVE  LET n == Len(created) IN
           /\ n \in Nat /\ n >= 1 /\ DOMAIN created = 1 .. n
           /\ IsPath(created') /\ DOMAIN created' = 1 .. n - 1
           /\ \A i \in 1 .. n - 1 : created'[i] = created[i] /\ created[i] # created[n]
           /\ DOMAIN tree' = DOMAIN tree \ {created[n]}
           /\ \A q \in DOMAIN tree' : tree'[q] = tree[q]
<1> DEFINE n == Len(created)  x == created[n]
<1>1. IsPath(created) /\ created # <<>>
  BY DEF LogInv, Logs, IsPath, UndoLast
<1>2. n \in Nat /\ DOMAIN created = 1 .. n /\ n # 0
  <2>1. n = 0 => created = <<>>
    BY <1>1 DEF IsPath
  <2> QED BY <1>1, <2>1, PathIsSeq
<1>3. created' = SubSeq(created, 1, n - 1) /\ Last(created) = x
  BY DEF UndoLast, Front, Last
<1>4. IsPath(created') /\ Len(created') = n - 1 /\ \A i \in 1 .. n - 1 : created'[i] = created[i]
  <2>1. n - 1 \in 0 .. n
    BY <1>2
  <2> QED BY <1>1, <1>3, <2>1, FirstNames
<1>5. DOMAIN created' = 1 .. n - 1
  BY <1>4, PathIsSeq
<1>6. \A i \in 1 .. n - 1 : created[i] # x
  <2>1. \A i, j \in DOMAIN created : created[i] = created[j] => i = j
    BY DEF LogInv
  <2> HIDE DEF n
  <2>2. \A i \in 1 .. n - 1 : i \in DOMAIN created /\ i # n /\ n \in DOMAIN created
    BY <1>2
  <2> QED BY <2>1, <2>2
<1>7. Within(tree, x) \subseteq {x} /\ tree' = remove_path_if_exists(tree, x) /\ IsPath(x)
  BY <1>2, <1>3 DEF UndoLast, LogInv
<1> HIDE DEF x
<1>8. DOMAIN tree' = {q \in DOMAIN tree : ~Under(x, q)} /\ \A q \in DOMAIN tree' : tree'[q] = tree[q]
  BY <1>7, RemovedOf
<1>9. \A q \in DOMAIN tree : Under(x, q) <=> q = x
  BY <1>7, UnderOrder DEF Within
<1> QED BY <1>2, <1>4, <1>5, <1>6, <1>8, <1>9 DEF x

\* Linking touches nothing of a tree but links into the keg.
Linking == PreLink \/ PreLinkFails \/ Finalize \/ FinalizeFails
LEMMA LinkingKeeps ==
    ASSUME Linking
    PROVE  \A p \in DOMAIN tree : p \in DOMAIN tree' /\ (tree'[p] # tree[p] => OurLink(tree, p))
<1>1. ASSUME NEW S, \A q \in S : CanLink(tree, q), NEW p \in DOMAIN tree
      PROVE  p \in DOMAIN Linked(tree, S) /\ (Linked(tree, S)[p] # tree[p] => OurLink(tree, p))
  <2>1. p \in DOMAIN Linked(tree, S) /\ (p \notin Places(S) => Linked(tree, S)[p] = tree[p])
    BY LinkedOf
  <2>2. p \in Places(S) => OurLink(tree, p)
    BY <1>1 DEF Places, CanLink
  <2> QED BY <2>1, <2>2
<1>2. CASE PreLink \/ Finalize
  BY <1>1, <1>2 DEF PreLink, Finalize
<1>3. ASSUME LinkFails, NEW p \in DOMAIN tree PROVE p \in DOMAIN tree' /\ (tree'[p] # tree[p] => OurLink(tree, p))
  <2> DEFINE can == {q \in ToLink(tree) : CanLink(tree, q)}
  <2>1. CASE \E S \in SUBSET can : tree' = Linked(tree, S)
    BY <1>1, <2>1
  <2>2. CASE \E S \in SUBSET can : \E q \in can : tree' = create_dir_all(Linked(tree, S), Parent(LinkPath(q)))
    <3>1. PICK S \in SUBSET can, q \in can : tree' = create_dir_all(Linked(tree, S), Parent(LinkPath(q)))
      BY <2>2
    <3>2. \A y \in DOMAIN Linked(tree, S) : y \in DOMAIN tree' /\ tree'[y] = Linked(tree, S)[y]
      BY <3>1, MkdirOf
    <3>3. \A y \in S : CanLink(tree, y)
      OBVIOUS
    <3> QED BY <1>1, <3>2, <3>3
  <2> QED BY <1>3, <2>1, <2>2 DEF LinkFails
<1>4. CASE PreLinkFails \/ FinalizeFails
  BY <1>3, <1>4 DEF PreLinkFails, FinalizeFails
<1> QED BY <1>2, <1>4 DEF Linking

\* Cleanup takes the keg, the links into it and the directories above those that have
\* no other files.
OurAt(t, p) == OurLink(t, p) /\ \E q \in LinkedFiles(t) : p = LinkPath(q)
AboveLinks(t) == {d \in DOMAIN t : t[d].kind = "dir" /\ \E x \in DOMAIN t : OurAt(t, x) /\ d \in Ancestors(x)}
LEMMA CleanupTakes ==
    ASSUME Cleanup
    PROVE  /\ \A q \in DOMAIN tree' : q \in DOMAIN tree /\ tree'[q] = tree[q]
           /\ \A q \in DOMAIN tree : q \notin DOMAIN tree' <=>
                \/ Under(keg_path, q) \/ OurAt(tree, q)
                \/ /\ q \in AboveLinks(tree) /\ Len(q) > 1
                   /\ \A y \in Within(tree, q) : OurAt(tree, y) \/ y \in AboveLinks(tree)
<1> DEFINE gone == {LinkPath(q) : q \in {f \in LinkedFiles(tree) : OurLink(tree, LinkPath(f))}}
           above == {d \in UNION {Ancestors(p) : p \in gone} : d \in DOMAIN tree /\ tree[d].kind = "dir"}
           pruned == {d \in above : Len(d) > 1 /\ Within(tree, d) \subseteq above \union gone}
           u == Unlinked(tree)
<1>1. \A q : q \in gone <=> OurAt(tree, q)
  BY DEF OurAt
<1>2. \A q \in gone : q \in DOMAIN tree
  BY DEF OurLink, IsLink
<1>3. above = AboveLinks(tree)
  BY <1>1, <1>2 DEF AboveLinks
<1>4. u = [q \in DOMAIN tree \ (gone \union pruned) |-> tree[q]]
  BY DEF Unlinked, Restrict
<1>5. \A q : q \in pruned <=> q \in above /\ Len(q) > 1 /\ \A y \in Within(tree, q) : y \in gone \/ y \in above
  <2> HIDE DEF gone, above
  <2> QED OBVIOUS
<1> HIDE DEF gone, above, pruned, u
<1>6. DOMAIN u = {q \in DOMAIN tree : q \notin gone /\ q \notin pruned} /\ \A q \in DOMAIN u : u[q] = tree[q]
  BY <1>4
<1>7. tree' = remove_path_if_exists(u, keg_path)
  BY DEF Cleanup, u
<1>8. DOMAIN tree' = {q \in DOMAIN u : ~Under(keg_path, q)} /\ \A q \in DOMAIN tree' : tree'[q] = u[q]
  BY <1>7, RemovedOf
<1>9. \A q \in DOMAIN tree' : q \in DOMAIN tree /\ tree'[q] = tree[q]
  BY <1>6, <1>8
<1>10. \A q \in DOMAIN tree : q \notin DOMAIN tree' <=> Under(keg_path, q) \/ q \in gone \/ q \in pruned
  BY <1>6, <1>8
<1>11. \A q \in DOMAIN tree : q \notin DOMAIN tree' <=>
         \/ Under(keg_path, q) \/ OurAt(tree, q)
         \/ /\ q \in AboveLinks(tree) /\ Len(q) > 1
            /\ \A y \in Within(tree, q) : OurAt(tree, y) \/ y \in AboveLinks(tree)
  <2> TAKE q \in DOMAIN tree
  <2>1. q \in pruned <=> /\ q \in AboveLinks(tree) /\ Len(q) > 1
                        /\ \A y \in Within(tree, q) : OurAt(tree, y) \/ y \in AboveLinks(tree)
    BY <1>1, <1>3, <1>5
  <2> QED BY <1>1, <1>10, <2>1
<1> QED BY <1>9, <1>11

LEMMA EntryStarts ==
    ASSUME PhaseInv, NEW p \in DOMAIN left, InstallEntry(p) \/ EntryFails(p)
    PROVE  /\ phase = "etcvar" /\ prehook = <<>> /\ prehook' = prehook /\ before' = before
           /\ backups = <<>> /\ backups' = backups /\ other' = other
           /\ phase' \in {"etcvar", "undo_etcvar"}
           /\ \A q : ~BelowRoot(q)
           /\ \A q \in DOMAIN left' : q \in DOMAIN left /\ left'[q] = left[q]
           /\ phase' = "etcvar" => \A q \in DOMAIN left' : q # p
<1>1. DOMAIN <<>> = {}
  OBVIOUS
<1> QED BY <1>1 DEF PhaseInv, InstallEntry, EntryFails, BelowRoot, Goto, Restrict

LEMMA LogStep ==
    ASSUME PlacesFree, PhaseInv, TreeInv, LogInv, PlaceInv, KeepInv, OtherInv, Next
    PROVE  LogInv'
<1>1. ASSUME NEW p \in DOMAIN left, InstallEntry(p) \/ EntryFails(p) PROVE LogInv'
  <2>1. PICK new : Grows(p, new)
    BY <1>1, EntryGrows
  <2> DEFINE n == Len(created)  m == Len(new)
  <2>2. /\ n \in Nat /\ m \in Nat /\ DOMAIN created = 1 .. n /\ DOMAIN new = 1 .. m
        /\ IsPath(created') /\ DOMAIN created' = 1 .. n + m
        /\ \A i \in 1 .. n : created'[i] = created[i]
        /\ \A i \in 1 .. m : created'[n + i] = new[i]
        /\ \A i \in DOMAIN created' : i \in 1 .. n \/ i - n \in 1 .. m
    BY <2>1, GrownLog
  <2>3. /\ \A i \in 1 .. m : /\ IsPath(new[i]) /\ new[i] # <<>> /\ new[i][1] \in {"etc", "var"}
                             /\ new[i] \notin DOMAIN tree
        /\ \A i, j \in 1 .. m : new[i] = new[j] => i = j
    BY <2>1, <2>2 DEF Grows
  <2>4. \A i \in 1 .. n : created[i] \in DOMAIN tree
    BY <1>1, <2>2, EntryStarts DEF OtherInv, Undoable, Phases
  <2>5. DOMAIN before \subseteq DOMAIN tree /\ before' = before
    BY <1>1, EntryStarts DEF KeepInv, Untouched
  <2> HIDE DEF n, m
  <2>6. ASSUME NEW i \in DOMAIN created'
        PROVE  \/ i \in 1 .. n /\ created'[i] = created[i]
               \/ i - n \in 1 .. m /\ created'[i] = new[i - n]
    <3>1. i - n \in 1 .. m => i = n + (i - n)
      BY <2>2
    <3> QED BY <2>2, <3>1
  <2>7. \A i \in DOMAIN created' :
          /\ IsPath(created'[i]) /\ created'[i] # <<>> /\ created'[i][1] \in {"etc", "var"}
          /\ created'[i] \notin DOMAIN before'
    BY <2>2, <2>3, <2>5, <2>6 DEF LogInv
  <2>8. ASSUME NEW i \in DOMAIN created', NEW j \in DOMAIN created', created'[i] = created'[j] PROVE i = j
    <3>1. CASE i \in 1 .. n /\ created'[i] = created[i] /\ j \in 1 .. n /\ created'[j] = created[j]
      BY <2>2, <2>8, <3>1 DEF LogInv
    <3>2. CASE i - n \in 1 .. m /\ created'[i] = new[i - n] /\ j - n \in 1 .. m /\ created'[j] = new[j - n]
      <4>1. i - n = j - n
        BY <2>3, <2>8, <3>2
      <4> QED BY <2>2, <4>1
    <3> QED BY <2>3, <2>4, <2>6, <2>8, <3>1, <3>2
  <2>9. created' \in Seq(Logs')
    BY <2>2 DEF Logs, IsPath
  <2> QED BY <2>7, <2>8, <2>9 DEF LogInv
<1>2. CASE UndoLast
  <2> DEFINE n == Len(created)
  <2>1. /\ n \in Nat /\ DOMAIN created = 1 .. n /\ IsPath(created') /\ DOMAIN created' = 1 .. n - 1
        /\ \A i \in 1 .. n - 1 : created'[i] = created[i]
    BY <1>2, UndoLastOf
  <2>2. before' = before
    BY <1>2 DEF UndoLast
  <2>3. created' \in Seq(Logs')
    BY <2>1 DEF Logs, IsPath
  <2> HIDE DEF n
  <2>4. \A i \in DOMAIN created' : i \in DOMAIN created /\ created'[i] = created[i]
    BY <2>1
  <2> QED BY <2>2, <2>3, <2>4 DEF LogInv
<1>3. CASE created' = created /\ before' = before
  BY <1>3 DEF LogInv, Logs
<1>4. \/ \E p \in DOMAIN left : InstallEntry(p) \/ EntryFails(p)
      \/ UndoLast \/ (created' = created /\ before' = before)
  BY DEF Next, EtcVarDone, UndoStops, Undone, PreLink, PreLinkFails, Backup, BackupFails, RunStatement,
         StatementFails, HookDone, RestoreBackups, RestoreFails, Finalize, FinalizeFails, Cleanup, Other
<1> QED BY <1>1, <1>2, <1>3, <1>4

LEMMA PlaceInit == PlacesFree /\ Init => PlaceInv
<1> SUFFICES ASSUME PlacesFree, Init, NEW p \in DOMAIN left
             PROVE  /\ left[p].kind = "file" /\ p \in DOMAIN tree => Exists(tree, p)
                    /\ ~IsLink(tree, default_install_path(p))
  BY DEF PlaceInv
<1> DEFINE d == default_install_path(p)
<1>1. PICK s \in Starts : tree = Over(s.tree, s.keg) /\ left = s.bottle
  BY DEF Init
<1>2. /\ DOMAIN tree = DOMAIN s.tree \union DOMAIN s.keg
      /\ \A q \in DOMAIN s.tree : tree[q] = s.tree[q]
  BY <1>1 DEF Over
<1>3. \A q \in DOMAIN s.keg : q = <<>> \/ InCellar(q)
  BY StartAssumption DEF InCellar
<1>4. p # <<>> /\ d # <<>> /\ ~InCellar(p) /\ ~InCellar(d)
  BY EntryPaths, PhaseInit
<1>5. d \notin DOMAIN s.tree /\ (left[p].kind = "file" /\ p \in DOMAIN s.tree => Exists(s.tree, p))
  BY <1>1 DEF PlacesFree
<1> HIDE DEF d
<1>6. left[p].kind = "file" /\ p \in DOMAIN tree => Exists(tree, p)
  BY <1>2, <1>3, <1>4, <1>5 DEF Exists, Target, IsLink
<1>7. ~IsLink(tree, d)
  BY <1>2, <1>3, <1>4, <1>5 DEF IsLink
<1> QED BY <1>6, <1>7 DEF d

LEMMA PlaceStep ==
    ASSUME PlacesFree, PhaseInv, TreeInv, LogInv, PlaceInv, KeepInv, Next
    PROVE  PlaceInv'
<1>1. ASSUME NEW p \in DOMAIN left, InstallEntry(p) \/ EntryFails(p), phase' = "etcvar", NEW q \in DOMAIN left'
      PROVE  /\ left'[q].kind = "file" /\ q \in DOMAIN tree' => Exists(tree', q)
             /\ ~IsLink(tree', default_install_path(q))
  <2> DEFINE x == default_install_path(p)  y == default_install_path(q)
  <2>1. PICK new : Grows(p, new)
    BY <1>1, EntryGrows
  <2>2. phase = "etcvar" /\ q \in DOMAIN left /\ left'[q] = left[q] /\ q # p
    BY <1>1, EntryStarts
  <2>3. /\ left[q].kind = "file" /\ q \in DOMAIN tree => Exists(tree, q)
        /\ ~IsLink(tree, y)
    BY <2>2 DEF PlaceInv
  <2>4. x # q /\ y # p /\ x # y
    <3>1. PICK s \in Starts : p \in DOMAIN s.bottle /\ q \in DOMAIN s.bottle
      BY <2>2 DEF PhaseInv
    <3> QED BY <2>2, <3>1 DEF PlacesFree
  <2>5. /\ \A z \in DOMAIN tree : z \in DOMAIN tree' /\ (tree'[z] # tree[z] => z = x /\ tree'[z].kind = "file")
        /\ \A z \in DOMAIN tree' \ DOMAIN tree : tree'[z].kind \in {"dir", "file"} \/ z \in {p, x}
    BY <2>1 DEF Grows
  <2> HIDE DEF x, y
  <2>6. left'[q].kind = "file" /\ q \in DOMAIN tree' => Exists(tree', q)
    <3>1. CASE q \in DOMAIN tree
      <4>1. tree'[q] = tree[q]
        BY <2>4, <2>5, <3>1
      <4> QED BY <2>2, <2>3, <2>5, <3>1, <4>1 DEF Exists, Target, IsLink
    <3>2. CASE q \in DOMAIN tree' /\ q \notin DOMAIN tree
      BY <2>2, <2>4, <2>5, <3>2 DEF Exists, Target, IsLink
    <3> QED BY <3>1, <3>2
  <2>7. ~IsLink(tree', y)
    <3>1. CASE y \in DOMAIN tree
      BY <2>3, <2>4, <2>5, <3>1 DEF IsLink
    <3>2. CASE y \notin DOMAIN tree
      BY <2>4, <2>5, <3>2 DEF IsLink
    <3> QED BY <3>1, <3>2
  <2> QED BY <2>6, <2>7 DEF y
<1>2. CASE Other
  <2>1. /\ phase' = phase /\ left' = left /\ tree' = Put(tree, OtherFile, File("other")) /\ OtherFile \notin DOMAIN tree
    BY <1>2 DEF Other
  <2>2. /\ DOMAIN tree' = DOMAIN tree \union {OtherFile} /\ (\A q \in DOMAIN tree : tree'[q] = tree[q])
        /\ tree'[OtherFile].kind = "file"
    <3>1. File("other").kind = "file"
      BY DEF File
    <3> QED BY <2>1, <3>1 DEF Put, Over
  <2>3. \A q : Exists(tree, q) => Exists(tree', q)
    BY <2>2 DEF Exists, Target, IsLink
  <2>4. Exists(tree', OtherFile) /\ ~IsLink(tree', OtherFile)
    BY <2>2 DEF Exists, Target, IsLink
  <2>5. \A q : q # OtherFile => (IsLink(tree', q) <=> IsLink(tree, q)) /\ (q \in DOMAIN tree' <=> q \in DOMAIN tree)
    BY <2>2 DEF IsLink
  <2> QED BY <2>1, <2>3, <2>4, <2>5 DEF PlaceInv
<1>3. CASE phase' # "etcvar"
  BY <1>3 DEF PlaceInv
<1>4. (\E p \in DOMAIN left : InstallEntry(p) \/ EntryFails(p)) \/ Other \/ phase' # "etcvar"
  BY DEF Next, EtcVarDone, UndoLast, UndoStops, Undone, PreLink, PreLinkFails, Backup, BackupFails, RunStatement,
         StatementFails, HookDone, RestoreBackups, RestoreFails, Finalize, FinalizeFails, Cleanup, Goto, AfterRestore
<1>5. CASE \E p \in DOMAIN left : InstallEntry(p) \/ EntryFails(p)
  BY <1>1, <1>5 DEF PlaceInv
<1> QED BY <1>2, <1>3, <1>4, <1>5

\* What was there before is not in the Cellar and is no link into the keg.
LEMMA BeforeOf ==
    ASSUME NotYetLinked, PhaseInv
    PROVE  /\ IsTree(before)
           /\ \A p \in DOMAIN before : IsPath(p) /\ ~InCellar(p) /\ ~Under(keg_path, p) /\ ~OurLink(before, p)
<1>1. PICK s \in Starts : before = s.tree
  BY DEF PhaseInv
<1>2. IsTree(before) /\ \A p \in DOMAIN before : p # <<>> => p[1] # "Cellar"
  BY <1>1, StartAssumption
<1>3. \A p \in DOMAIN before : ~OurLink(before, p)
  BY <1>1 DEF NotYetLinked
<1> QED BY <1>2, <1>3, KegInCellar DEF IsTree, InCellar

\* A directory cleanup prunes held no files before, if all that was there is still there.
LEMMA PrunedWasHollow ==
    ASSUME NotYetLinked, PhaseInv, Cleanup,
           \A q \in DOMAIN before : /\ q \in DOMAIN tree /\ tree[q].kind = before[q].kind
                                    /\ tree[q].kind = "link" => tree[q] = before[q],
           NEW p \in DOMAIN before
    PROVE  p \in Hollow(before) \/ (p \in DOMAIN tree' /\ tree'[p] = tree[p])
<1>1. \A q \in DOMAIN before : ~OurLink(before, q) /\ ~Under(keg_path, q)
  BY BeforeOf
<1>2. \A q \in DOMAIN before : ~OurAt(tree, q)
  BY <1>1 DEF OurAt, OurLink, IsLink
<1>3. CASE p \in DOMAIN tree'
  BY <1>3, CleanupTakes
<1>4. CASE p \notin DOMAIN tree'
  <2>1. \A y \in Within(tree, p) : OurAt(tree, y) \/ y \in AboveLinks(tree)
    BY <1>1, <1>2, <1>4, CleanupTakes
  <2>2. \A y \in Within(before, p) : before[y].kind = "dir"
    BY <1>2, <2>1 DEF Within, AboveLinks
  <2> QED BY <2>2 DEF Hollow
<1> QED BY <1>3, <1>4

LEMMA KeepInit == Init => KeepInv
<1> SUFFICES ASSUME Init PROVE KeepInv
  OBVIOUS
<1>1. PICK s \in Starts : before = s.tree /\ tree = Over(before, s.keg)
  BY DEF Init
<1>2. \A p \in DOMAIN before : Untouched(p)
  BY <1>1 DEF Over, Untouched
<1>3. phase = "etcvar"
  BY DEF Init
<1> QED BY <1>2, <1>3 DEF KeepInv

LEMMA KeepStep ==
    ASSUME NotYetLinked, PlacesFree, PhaseInv, TreeInv, LogInv, PlaceInv, KeepInv, Next
    PROVE  KeepInv'
<1> SUFFICES ASSUME prehook' = <<>> PROVE KeepInv'
  BY DEF KeepInv
<1>1. prehook = <<>> /\ before' = before
  BY DEF PhaseInv, TreeInv, Next, InstallEntry, EntryFails, EtcVarDone, UndoLast, UndoStops, Undone, PreLink,
         PreLinkFails, Backup, BackupFails, RunStatement, StatementFails, HookDone, RestoreBackups, RestoreFails,
         Finalize, FinalizeFails, Cleanup, Other
<1>2. phase # "failed" => \A p \in DOMAIN before : p \in DOMAIN tree /\ tree[p] = before[p]
  BY <1>1 DEF KeepInv, Untouched
<1>3. ASSUME phase # "failed", phase' # "failed", \A p \in DOMAIN before : p \in DOMAIN tree' /\ tree'[p] = tree[p]
      PROVE  KeepInv'
  BY <1>1, <1>2, <1>3 DEF KeepInv, Untouched
<1>4. ASSUME NEW p \in DOMAIN left, InstallEntry(p) \/ EntryFails(p) PROVE KeepInv'
  <2>1. phase # "failed" /\ phase' # "failed"
    BY <1>4, EntryStarts
  <2>2. PICK new : Grows(p, new)
    BY <1>4, EntryGrows
  <2>3. \A q \in DOMAIN before : q \in DOMAIN tree' /\ tree'[q] = tree[q]
    BY <1>2, <2>1, <2>2 DEF Grows
  <2> QED BY <1>3, <2>1, <2>3
<1>5. CASE UndoLast
  <2>1. phase # "failed" /\ phase' # "failed"
    BY <1>5 DEF UndoLast
  <2>2. Len(created) \in DOMAIN created /\ DOMAIN tree' = DOMAIN tree \ {created[Len(created)]}
        /\ \A q \in DOMAIN tree' : tree'[q] = tree[q]
    BY <1>5, UndoLastOf
  <2>3. \A q \in DOMAIN before : q \in DOMAIN tree' /\ tree'[q] = tree[q]
    BY <1>2, <2>1, <2>2 DEF LogInv
  <2> QED BY <1>3, <2>1, <2>3
<1>6. CASE Linking
  <2>1. phase # "failed" /\ phase' # "failed"
    BY <1>6 DEF Linking, PreLink, PreLinkFails, Finalize, FinalizeFails, Goto
  <2>2. \A q \in DOMAIN before : ~OurLink(tree, q)
    BY <1>2, <2>1, BeforeOf DEF OurLink, IsLink
  <2>3. \A q \in DOMAIN before : q \in DOMAIN tree' /\ tree'[q] = tree[q]
    BY <1>2, <1>6, <2>1, <2>2, LinkingKeeps
  <2> QED BY <1>3, <2>1, <2>3
<1>7. CASE Cleanup
  <2>1. phase = "cleanup" /\ phase' = "failed"
    BY <1>7 DEF Cleanup, Goto
  <2>2. \A p \in DOMAIN before : Untouched(p)
    BY <1>2, <2>1 DEF Untouched
  <2>3. \A p \in DOMAIN before \ Hollow(before) : p \in DOMAIN tree' /\ tree'[p] = before[p]
    BY <1>7, <2>2, PrunedWasHollow DEF Untouched
  <2> QED BY <1>1, <2>1, <2>3 DEF KeepInv, Untouched
<1>8. CASE Other
  <2>1. phase' = phase /\ \A q \in DOMAIN tree : q \in DOMAIN tree' /\ tree'[q] = tree[q]
    BY <1>8 DEF Other, Put, Over
  <2> QED BY <1>1, <2>1 DEF KeepInv, Untouched
<1>9. CASE EtcVarDone \/ UndoStops \/ Undone \/ BackupFails \/ HookDone
  <2>1. phase # "failed" /\ phase' # "failed" /\ tree' = tree
    BY <1>9 DEF EtcVarDone, UndoStops, Undone, BackupFails, HookDone, Goto
  <2> QED BY <1>2, <1>3, <2>1
<1>10. CASE Backup \/ RunStatement \/ StatementFails \/ RestoreBackups \/ RestoreFails
  <2>1. CASE Backup
    <3>1. DOMAIN <<>> = {} /\ <<>> \in DOMAIN tree /\ prehook' = tree
      BY <2>1 DEF Backup, TreeInv
    <3> QED BY <3>1
  <2> QED BY <1>1, <1>10, <2>1 DEF PhaseInv, RunStatement, StatementFails, RestoreBackups, RestoreFails
<1>11. \/ \E p \in DOMAIN left : InstallEntry(p) \/ EntryFails(p)
       \/ UndoLast \/ Linking \/ Cleanup \/ Other
       \/ EtcVarDone \/ UndoStops \/ Undone \/ BackupFails \/ HookDone
       \/ Backup \/ RunStatement \/ StatementFails \/ RestoreBackups \/ RestoreFails
  BY DEF Next, Linking
<1> QED BY <1>4, <1>5, <1>6, <1>7, <1>8, <1>9, <1>10, <1>11

\* Putting saved copies back keeps what is below none of the roots.
LEMMA CopiedBackKeeps ==
    ASSUME PhaseInv, TreeInv, prehook # <<>>, NEW R \in SUBSET DOMAIN backups, NEW Q \in SUBSET DOMAIN backups,
           tree' = CopiedBack(Removed(tree, Q), R)
    PROVE  \A p \in DOMAIN tree : ~BelowRoot(p) => p \in DOMAIN tree' /\ tree'[p] = tree[p]
<1> DEFINE t == Removed(tree, Q)
<1>1. IsTree(prehook) /\ GoodRoots(DOMAIN backups) /\ \A r \in DOMAIN backups : backups[r] = Saved(prehook, r)
  BY DEF TreeInv, PhaseInv
<1>2. \A p \in DOMAIN tree : ~BelowRoot(p) => p \in DOMAIN t /\ t[p] = tree[p]
  BY DEF Removed, Restrict, BelowRoot
<1> HIDE DEF t
<1>3. /\ DOMAIN t \subseteq DOMAIN tree'
      /\ \A p \in DOMAIN t : p \notin {q \in DOMAIN prehook : \E r \in R : Under(r, q)} => tree'[p] = t[p]
  BY <1>1, CopiedBackOf DEF t
<1> QED BY <1>2, <1>3 DEF BelowRoot

LEMMA OtherStep ==
    ASSUME NotYetLinked, PlacesFree, PhaseInv, TreeInv, LogInv, PlaceInv, KeepInv, OtherInv, HookStays, Next
    PROVE  OtherInv'
<1>0. /\ IsPath(OtherFile) /\ OtherFile # <<>> /\ ~InCellar(OtherFile) /\ ~Under(keg_path, OtherFile)
      /\ \A i \in DOMAIN created : IsPath(created[i]) /\ ~Under(keg_path, created[i])
  <2>1. \A i \in DOMAIN created : IsPath(created[i]) /\ ~InCellar(created[i])
    BY DEF LogInv, InCellar
  <2> QED BY <2>1, OtherPath, KegInCellar
\* Most steps keep what is below no root, but for links, and leave the log alone.
<1>1. ASSUME created' = created, other' = other, backups' = backups,
             phase' \in Undoable => phase \in Undoable,
             \A p \in DOMAIN tree : IsPath(p) /\ ~BelowRoot(p) /\ ~Under(keg_path, p)
                 => /\ tree[p].kind = "file" => p \in DOMAIN tree' /\ tree'[p] = tree[p]
                    /\ phase' \in Undoable => p \in DOMAIN tree'
      PROVE  OtherInv'
  <2>1. \A p : BelowRoot(p)' <=> BelowRoot(p)
    BY <1>1 DEF BelowRoot
  <2>2. phase' \in Undoable => (\A i \in DOMAIN created : created[i] \in DOMAIN tree \/ BelowRoot(created[i]))'
    <3>1. ASSUME phase' \in Undoable, NEW i \in DOMAIN created
          PROVE  created[i] \in DOMAIN tree' \/ BelowRoot(created[i])'
      BY <1>0, <1>1, <2>1, <3>1 DEF OtherInv
    <3> QED BY <1>1, <3>1
  <2>3. other' /\ ~BelowRoot(OtherFile)' =>
          /\ OtherFile \in DOMAIN tree' /\ tree'[OtherFile].kind = "file"
          /\ phase' \in Undoable => OtherFile \notin Logs'
    BY <1>0, <1>1, <2>1 DEF OtherInv, Logs
  <2> QED BY <2>2, <2>3 DEF OtherInv
<1>2. ASSUME NEW p \in DOMAIN left, InstallEntry(p) \/ EntryFails(p) PROVE OtherInv'
  <2>1. PICK new : Grows(p, new)
    BY <1>2, EntryGrows
  <2>2. phase \in Undoable /\ other' = other /\ backups' = backups /\ \A q : ~BelowRoot(q)
    BY <1>2, EntryStarts DEF Undoable, Phases
  <2>3. /\ \A i \in DOMAIN new : new[i] \notin DOMAIN tree /\ new[i] \in DOMAIN tree'
        /\ \A q \in DOMAIN tree : q \in DOMAIN tree' /\ (tree'[q] # tree[q] => tree'[q].kind = "file")
    BY <2>1 DEF Grows
  <2>4. Logs' = Logs \union {new[i] : i \in DOMAIN new}
    BY <2>1, GrownLog
  <2>5. \A x \in Logs : x \in DOMAIN tree
    BY <2>2 DEF OtherInv, Logs
  <2>6. \A i \in DOMAIN created' : created'[i] \in DOMAIN tree'
    <3>1. \A x \in Logs' : x \in DOMAIN tree'
      BY <2>3, <2>4, <2>5
    <3> QED BY <3>1 DEF Logs
  <2>7. other => OtherFile \in DOMAIN tree' /\ tree'[OtherFile].kind = "file" /\ OtherFile \notin Logs'
    BY <2>2, <2>3, <2>4 DEF OtherInv
  <2> QED BY <2>2, <2>6, <2>7 DEF OtherInv
<1>3. CASE UndoLast
  <2> DEFINE n == Len(created)
  <2>1. /\ n \in DOMAIN created /\ DOMAIN created' = 1 .. n - 1 /\ DOMAIN created = 1 .. n /\ n \in Nat
        /\ \A i \in 1 .. n - 1 : created'[i] = created[i] /\ created[i] # created[n]
        /\ DOMAIN tree' = DOMAIN tree \ {created[n]} /\ \A q \in DOMAIN tree' : tree'[q] = tree[q]
    BY <1>3, UndoLastOf
  <2>2. phase' = phase /\ phase \in Undoable /\ other' = other /\ backups' = backups
    BY <1>3 DEF UndoLast, Undoable, Phases
  <2>3. \A q : BelowRoot(q)' <=> BelowRoot(q)
    BY <2>2 DEF BelowRoot
  <2> HIDE DEF n
  <2>4. \A i \in DOMAIN created' : i \in DOMAIN created /\ created'[i] = created[i] /\ created[i] # created[n]
    BY <2>1
  <2>5. (\A i \in DOMAIN created : created[i] \in DOMAIN tree \/ BelowRoot(created[i]))'
    <3>1. \A i \in DOMAIN created : created[i] # created[n] =>
            created[i] \in DOMAIN tree' \/ BelowRoot(created[i])'
      BY <2>1, <2>2, <2>3 DEF OtherInv
    <3> QED BY <2>4, <3>1
  <2>6. other /\ ~BelowRoot(OtherFile) => OtherFile \in DOMAIN tree' /\ tree'[OtherFile].kind = "file" /\ OtherFile \notin Logs'
    BY <2>1, <2>2, <2>4 DEF OtherInv, Logs
  <2> QED BY <2>2, <2>3, <2>5, <2>6 DEF OtherInv
<1>4. CASE Linking
  <2>1. created' = created /\ other' = other /\ backups' = backups /\ phase \in Undoable
    BY <1>4 DEF Linking, PreLink, PreLinkFails, Finalize, FinalizeFails, Undoable, Phases
  <2>2. \A p \in DOMAIN tree : p \in DOMAIN tree' /\ (tree[p].kind = "file" => tree'[p] = tree[p])
    BY <1>4, LinkingKeeps DEF OurLink, IsLink
  <2> QED BY <1>1, <2>1, <2>2
<1>5. CASE Backup
  <2>1. \A q : ~BelowRoot(q)
    <3>1. DOMAIN <<>> = {}
      OBVIOUS
    <3> QED BY <1>5, <3>1 DEF Backup, PhaseInv, BelowRoot
  <2>2. phase \in Undoable /\ tree' = tree /\ created' = created /\ other' = other
    BY <1>5 DEF Backup, Undoable, Phases
  <2> QED BY <2>1, <2>2 DEF OtherInv, Logs
<1>6. CASE RunStatement \/ StatementFails
  <2>1. created' = created /\ other' = other /\ backups' = backups /\ phase \in Undoable
    BY <1>6 DEF RunStatement, StatementFails, Undoable, Phases
  <2>2. \A p \in DOMAIN tree : IsPath(p) /\ ~BelowRoot(p) /\ ~Under(keg_path, p) => p \in DOMAIN tree' /\ tree'[p] = tree[p]
    BY <1>6 DEF HookStays, Reached, BelowRoot
  <2> QED BY <1>1, <2>1, <2>2
<1>7. CASE RestoreBackups \/ RestoreFails
  <2>1. created' = created /\ other' = other /\ backups' = backups /\ phase \in Undoable /\ prehook # <<>>
    BY <1>7 DEF RestoreBackups, RestoreFails, Undoable, Phases, PhaseInv
  <2>2. \A p \in DOMAIN tree : ~BelowRoot(p) => p \in DOMAIN tree' /\ tree'[p] = tree[p]
    BY <1>7, <2>1, CopiedBackKeeps DEF RestoreBackups, RestoreFails
  <2> QED BY <1>1, <2>1, <2>2
<1>8. CASE Cleanup
  <2>1. created' = created /\ other' = other /\ backups' = backups /\ phase' = "failed"
    BY <1>8 DEF Cleanup, Goto
  <2>2. phase' \notin Undoable
    BY <2>1 DEF Undoable
  <2>3. ASSUME NEW p \in DOMAIN tree, tree[p].kind = "file", ~Under(keg_path, p)
        PROVE  p \in DOMAIN tree' /\ tree'[p] = tree[p]
    <3>1. ~OurAt(tree, p) /\ p \notin AboveLinks(tree)
      BY <2>3 DEF OurAt, OurLink, IsLink, AboveLinks
    <3> QED BY <1>8, <2>3, <3>1, CleanupTakes
  <2> QED BY <1>1, <2>1, <2>2, <2>3
<1>9. CASE Other
  <2>1. /\ OtherFile \notin DOMAIN tree /\ phase' = phase /\ backups' = backups /\ created' = created
        /\ tree' = Put(tree, OtherFile, File("other"))
    BY <1>9 DEF Other
  <2>2. /\ DOMAIN tree' = DOMAIN tree \union {OtherFile} /\ tree'[OtherFile].kind = "file"
    BY <2>1 DEF Put, Over, File
  <2>3. \A q : BelowRoot(q)' <=> BelowRoot(q)
    BY <2>1 DEF BelowRoot
  <2>4. ~BelowRoot(OtherFile) /\ phase \in Undoable => OtherFile \notin Logs
    BY <2>1 DEF OtherInv, Logs
  <2> QED BY <2>1, <2>2, <2>3, <2>4 DEF OtherInv, Logs
<1>10. CASE EtcVarDone \/ UndoStops \/ Undone \/ BackupFails \/ HookDone
  <2>1. /\ created' = created /\ other' = other /\ backups' = backups /\ tree' = tree
        /\ phase \in Undoable
    BY <1>10 DEF EtcVarDone, UndoStops, Undone, BackupFails, HookDone, Undoable, Phases
  <2> QED BY <1>1, <2>1
<1>11. \/ \E p \in DOMAIN left : InstallEntry(p) \/ EntryFails(p)
       \/ UndoLast \/ Linking \/ Backup \/ RunStatement \/ StatementFails \/ RestoreBackups \/ RestoreFails
       \/ Cleanup \/ Other \/ EtcVarDone \/ UndoStops \/ Undone \/ BackupFails \/ HookDone
  BY DEF Next, Linking
<1> QED BY <1>2, <1>3, <1>4, <1>5, <1>6, <1>7, <1>8, <1>9, <1>10, <1>11

----------------------------------------------------------------------------
\* UserFilesKept for every prefix, keg and .bottle: no file of the user's is lost or changed
\* before the hook runs, and what another program put below no root stays.
UserInv == PhaseInv /\ TreeInv /\ LogInv /\ PlaceInv /\ KeepInv /\ OtherInv
LEMMA UserInit == ASSUME PlacesFree PROVE Init => UserInv
<1> SUFFICES ASSUME Init PROVE UserInv
  OBVIOUS
<1>1. created = <<>> /\ ~other
  BY DEF Init
<1>2. \A i : i \notin DOMAIN created
  <2>1. DOMAIN <<>> = {}
    OBVIOUS
  <2> QED BY <1>1, <2>1
<1>3. LogInv
  BY <1>1, <1>2 DEF LogInv
<1>4. OtherInv
  BY <1>1, <1>2 DEF OtherInv
<1> QED BY <1>3, <1>4, PhaseInit, TreeInit, PlaceInit, KeepInit DEF UserInv

LEMMA UserStep ==
    ASSUME NotYetLinked, PlacesFree
    PROVE  UserInv /\ [HookStays]_vars /\ [Next]_vars => UserInv'
<1> SUFFICES ASSUME UserInv, [HookStays]_vars, [Next]_vars PROVE UserInv'
  OBVIOUS
<1>1. CASE HookStays /\ Next
  BY <1>1, PhaseStep, TreeStep, LogStep, PlaceStep, KeepStep, OtherStep DEF UserInv
<1>2. CASE UNCHANGED vars
  <2>1. PhaseInv' /\ TreeInv'
    BY <1>2 DEF vars, UserInv, PhaseInv, TreeInv
  <2>2. LogInv' /\ PlaceInv'
    BY <1>2 DEF vars, UserInv, LogInv, Logs, PlaceInv
  <2>3. KeepInv' /\ OtherInv'
    BY <1>2 DEF vars, UserInv, KeepInv, Untouched, OtherInv, Logs, BelowRoot
  <2> QED BY <2>1, <2>2, <2>3 DEF UserInv
<1> QED BY <1>1, <1>2

LEMMA UserInvKeeps == UserInv => UserFilesKept
<1> SUFFICES ASSUME UserInv PROVE UserFilesKept
  OBVIOUS
<1>1. prehook = <<>> => \A p \in DOMAIN before \ Hollow(before) : p \in DOMAIN tree /\ tree[p] = before[p]
  BY DEF UserInv, KeepInv, Untouched
<1>2. other /\ (\A r \in DOMAIN backups : ~Under(r, OtherFile)) => OtherFile \in DOMAIN tree
  BY DEF UserInv, OtherInv, BelowRoot
<1> QED BY <1>1, <1>2 DEF UserFilesKept

\* UserFilesKept, whatever the prefix and the keg hold and .bottle brings, for starts in which
\* the places .bottle needs are free and hooks that stay in the keg and below the roots.
THEOREM UserFilesKeptHolds ==
    ASSUME NotYetLinked, PlacesFree
    PROVE  Spec /\ [][HookStays]_vars => []UserFilesKept
<1>1. Init => UserInv
  BY UserInit
<1>2. UserInv /\ [HookStays]_vars /\ [Next]_vars => UserInv'
  BY UserStep
<1>3. UserInv => UserFilesKept
  BY UserInvKeeps
<1> QED BY <1>1, <1>2, <1>3, PTL DEF Spec

----------------------------------------------------------------------------
(***************************************************************************)
(* What a failed install leaves.  Everything in the prefix that was not    *)
(* there at the start is in the undo log, is a link of the keg that unlink *)
(* will find, a directory above one or one that no root covers.            *)
(***************************************************************************)
LinkDir(t, p) == t[p] = Dir /\ \E x \in DOMAIN t : OurAt(t, x) /\ p \in Ancestors(x)
Known(p) == InCellar(p) \/ p \in DOMAIN before \/ p \in Logs

\* As the hook finds it, and as it is when the hook is undone.
FoundThen(t) ==
    /\ \A p \in DOMAIN before : p \in DOMAIN t /\ t[p] = before[p]
    /\ \A p \in DOMAIN t : Known(p) \/ OurAt(t, p) \/ LinkDir(t, p)
Stray(t, p) == t[p] = Dir /\ Abandoned(p)
Accounted(t) ==
    /\ \A p \in DOMAIN before : p \in DOMAIN t /\ CameBack(p, t[p], before[p])
    /\ \A p \in DOMAIN t : Known(p) \/ OurAt(t, p) \/ LinkDir(t, p) \/ Stray(t, p)

\* The directories above what the log names were there or come earlier in the log.
LogClosed == \A i \in DOMAIN created :
    Ancestors(created[i]) \subseteq DOMAIN before \union {created[j] : j \in 1 .. i - 1}

\* When linking failed after the hook, what the hook does not reach is as the hook found
\* it, but for links of the keg, the directories above them and those no root covers.
LateLinks == \A p \in DOMAIN tree \union DOMAIN prehook : ~Reached(p) =>
    /\ p \in DOMAIN tree
    /\ p \in DOMAIN prehook => tree[p] = prehook[p] \/ (OurLink(prehook, p) /\ OurAt(tree, p))
    /\ p \notin DOMAIN prehook => OurAt(tree, p) \/ LinkDir(tree, p) \/ Stray(tree, p)

OnlyTheTree ==
    \/ phase \in {"link", "backup", "undo_etcvar", "undo_strict", "cleanup"}
    \/ phase = "finalize" /\ prehook = <<>>
AccountInv == ~torn /\ ~other =>
    /\ LogClosed
    /\ phase = "cleanup" => created = <<>>
    /\ phase = "etcvar" => \A p \in DOMAIN tree : Known(p)
    /\ OnlyTheTree => Accounted(tree)
    /\ HookPhase \/ phase = "undo_late" =>
         FoundThen(prehook) /\ LinkedFiles(prehook) \subseteq LinkedFiles(tree)
    /\ phase = "undo_late" => LateLinks
    /\ FailureLeavesPrefix

\* Before the hook nothing has lost its mode and no directory is abandoned.
LEMMA FoundAccounted ==
    /\ \A t : FoundThen(t) => Accounted(t)
    /\ PhaseInv /\ prehook = <<>> => \A t : Accounted(t) => FoundThen(t)
<1>1. \A t : FoundThen(t) => Accounted(t)
  BY DEF FoundThen, Accounted, CameBack
<1>2. ASSUME PhaseInv, prehook = <<>> PROVE \A t : Accounted(t) => FoundThen(t)
  <2>1. backups = <<>> /\ DOMAIN <<>> = {}
    BY <1>2 DEF PhaseInv
  <2>2. \A p : ~BelowRoot(p) /\ ~Abandoned(p)
    BY <1>2, <2>1 DEF BelowRoot, Abandoned, AboveRoot, ForRefused
  <2> QED BY <2>2 DEF FoundThen, Accounted, CameBack, Stray
<1> QED BY <1>1, <1>2

\* What came back is of the kind it was, and if it is a link, it is the same.
LEMMA CameBackOf ==
    ASSUME NEW p, NEW now, NEW was, CameBack(p, now, was)
    PROVE  now.kind = was.kind /\ (now.kind = "link" => now = was)
BY CopiedNode DEF CameBack

\* What the terms of the account speak of, a step later.
LEMMA SameAccounts ==
    ASSUME backups' = backups, hook' = hook, captured' = captured, prehook' = prehook, before' = before
    PROVE  \A q : /\ (OurAt(tree, q)' <=> OurAt(tree', q)) /\ (LinkDir(tree, q)' <=> LinkDir(tree', q))
                  /\ (Stray(tree, q)' <=> Stray(tree', q))
                  /\ (CameBack(q, tree[q], before[q])' <=> CameBack(q, tree'[q], before[q]))
<1> TAKE q
<1>1. (BelowRoot(q)' <=> BelowRoot(q)) /\ (Abandoned(q)' <=> Abandoned(q))
  BY SameAbandoned
<1>2. (OurAt(tree, q)' <=> OurAt(tree', q)) /\ (LinkDir(tree, q)' <=> LinkDir(tree', q))
  BY DEF OurAt, LinkDir
<1>3. Stray(tree, q)' <=> Stray(tree', q)
  BY <1>1 DEF Stray
<1>4. CameBack(q, tree[q], before[q])' <=> CameBack(q, tree'[q], before[q])
  BY <1>1 DEF CameBack
<1> QED BY <1>2, <1>3, <1>4

\* Linking adds links of the keg and directories above them, and keeps those there are.
LEMMA LinkedOurs ==
    ASSUME NEW t, \A p \in DOMAIN t : IsPath(p),
           NEW S \in SUBSET LinkedFiles(t), \A q \in S : CanLink(t, q)
    PROVE  LET u == Linked(t, S) IN
           /\ LinkedFiles(u) = LinkedFiles(t)
           /\ \A p \in DOMAIN t : p \in DOMAIN u /\ (u[p] # t[p] => OurLink(t, p) /\ OurAt(u, p))
           /\ \A p \in DOMAIN t : OurAt(t, p) => OurAt(u, p)
           /\ \A p \in DOMAIN t : LinkDir(t, p) => OurAt(u, p) \/ LinkDir(u, p)
           /\ \A p \in DOMAIN u \ DOMAIN t : OurAt(u, p) \/ LinkDir(u, p)
<1> DEFINE u == Linked(t, S)
           above == UNION {Ancestors(p) : p \in Places(S)}
<1>1. /\ DOMAIN u = DOMAIN t \union Places(S) \union above
      /\ \A p \in DOMAIN t : p \notin Places(S) => u[p] = t[p]
      /\ \A p \in above : p \notin Places(S) /\ p \notin DOMAIN t => u[p] = Dir
  BY LinkedOf
<1>2. LinkedFiles(u) = LinkedFiles(t) /\ \A p \in Places(S) : OurLink(u, p)
  BY LinkedFilesKept
<1>3. \A p \in Places(S) : (\E q \in LinkedFiles(t) : p = LinkPath(q)) /\ (p \in DOMAIN t => OurLink(t, p))
  BY DEF Places, CanLink
<1>4. \A a \in above : \E p \in Places(S) : a \in Ancestors(p)
  OBVIOUS
<1> HIDE DEF u, above
<1>5. \A p \in Places(S) : p \in DOMAIN u /\ OurAt(u, p)
  BY <1>1, <1>2, <1>3 DEF OurAt
<1>6. \A p \in DOMAIN t : p \in DOMAIN u /\ (u[p] # t[p] => OurLink(t, p) /\ OurAt(u, p))
  BY <1>1, <1>3, <1>5
<1>7. \A p \in DOMAIN t : OurAt(t, p) => OurAt(u, p)
  <2> SUFFICES ASSUME NEW p \in DOMAIN t, OurAt(t, p), u[p] = t[p] PROVE OurAt(u, p)
    BY <1>6
  <2> QED BY <1>2, <1>6 DEF OurAt, OurLink, IsLink
<1>8. ASSUME NEW p \in DOMAIN t, LinkDir(t, p) PROVE OurAt(u, p) \/ LinkDir(u, p)
  <2>1. PICK x \in DOMAIN t : OurAt(t, x) /\ p \in Ancestors(x)
    BY <1>8 DEF LinkDir
  <2>2. OurAt(u, x) /\ x \in DOMAIN u
    BY <1>6, <1>7, <2>1
  <2> QED BY <1>6, <1>8, <2>1, <2>2 DEF LinkDir
<1>9. ASSUME NEW p \in DOMAIN u, p \notin DOMAIN t PROVE OurAt(u, p) \/ LinkDir(u, p)
  BY <1>1, <1>4, <1>5, <1>9 DEF LinkDir
<1> QED BY <1>2, <1>6, <1>7, <1>8, <1>9 DEF u

\* Linking keeps a tree accounted for.
LEMMA LinkedAccounted ==
    ASSUME NotYetLinked, PhaseInv, \A p \in DOMAIN tree : IsPath(p), Accounted(tree),
           NEW S \in SUBSET LinkedFiles(tree), \A q \in S : CanLink(tree, q)
    PROVE  Accounted(Linked(tree, S))
<1> DEFINE u == Linked(tree, S)
<1>1. /\ \A p \in DOMAIN tree : p \in DOMAIN u /\ (u[p] # tree[p] => OurLink(tree, p) /\ OurAt(u, p))
      /\ \A p \in DOMAIN tree : OurAt(tree, p) => OurAt(u, p)
      /\ \A p \in DOMAIN tree : LinkDir(tree, p) => OurAt(u, p) \/ LinkDir(u, p)
      /\ \A p \in DOMAIN u \ DOMAIN tree : OurAt(u, p) \/ LinkDir(u, p)
  BY LinkedOurs
<1> HIDE DEF u
<1>2. ASSUME NEW p \in DOMAIN before PROVE p \in DOMAIN u /\ CameBack(p, u[p], before[p])
  <2>1. p \in DOMAIN tree /\ CameBack(p, tree[p], before[p])
    BY DEF Accounted
  <2>2. ~OurLink(tree, p)
    BY <2>1, BeforeOf, CameBackOf DEF OurLink, IsLink
  <2> QED BY <1>1, <2>1, <2>2
<1>3. \A p \in DOMAIN tree : Stray(tree, p) => Stray(u, p)
  BY <1>1, DirNode DEF Stray, OurLink, IsLink
<1>4. \A p \in DOMAIN u : Known(p) \/ OurAt(u, p) \/ LinkDir(u, p) \/ Stray(u, p)
  BY <1>1, <1>3 DEF Accounted
<1> QED BY <1>2, <1>4 DEF Accounted, u

\* An entry whose copy is whole leaves nothing that the log does not name.
LEMMA EntryAccounted ==
    ASSUME NotYetLinked, PlacesFree, PhaseInv, TreeInv, LogInv, PlaceInv, KeepInv, KeepInv', AccountInv,
           ~torn', ~other', NEW p \in DOMAIN left, InstallEntry(p) \/ EntryFails(p)
    PROVE  LogClosed' /\ (\A q \in DOMAIN tree : Known(q))' /\ Accounted(tree)'
<1>1. /\ phase = "etcvar" /\ before' = before /\ other' = other /\ prehook' = <<>>
      /\ phase' # "failed"
  BY EntryStarts
<1>2. ~torn /\ ~other
  BY <1>1 DEF InstallEntry, EntryFails
<1>3. LogClosed /\ \A q \in DOMAIN tree : Known(q)
  BY <1>1, <1>2 DEF AccountInv
<1>4. PICK new : Grows(p, new)
  BY EntryGrows
<1> DEFINE n == Len(created)  m == Len(new)
<1>5. /\ n \in Nat /\ m \in Nat /\ DOMAIN created = 1 .. n /\ DOMAIN new = 1 .. m
      /\ DOMAIN created' = 1 .. n + m
      /\ \A i \in 1 .. n : created'[i] = created[i]
      /\ \A i \in 1 .. m : created'[n + i] = new[i]
      /\ \A i \in DOMAIN created' : i \in 1 .. n \/ i - n \in 1 .. m
      /\ Logs' = Logs \union {new[i] : i \in DOMAIN new}
  BY <1>4, GrownLog
<1> HIDE DEF n, m
<1>6. (\A q \in DOMAIN tree : Known(q))'
  <2>1. \A q \in DOMAIN tree' : q \in DOMAIN tree \/ \E i \in DOMAIN new : q = new[i]
    BY <1>4 DEF Grows
  <2>2. \A q \in DOMAIN tree' : InCellar(q) \/ q \in DOMAIN before \/ q \in Logs'
    BY <1>3, <1>5, <2>1 DEF Known
  <2> QED BY <1>1, <2>2 DEF Known
<1>7. ASSUME NEW i \in DOMAIN created', NEW a \in Ancestors(created'[i])
      PROVE  a \in DOMAIN before \/ \E j \in 1 .. i - 1 : a = created'[j]
  <2>1. CASE i \in 1 .. n
    <3>1. created'[i] = created[i] /\ i \in DOMAIN created
      BY <1>5, <2>1
    <3>2. a \in DOMAIN before \/ \E j \in 1 .. i - 1 : a = created[j]
      BY <1>3, <1>7, <3>1 DEF LogClosed
    <3>3. \A j \in 1 .. i - 1 : created'[j] = created[j]
      BY <1>5, <2>1
    <3> QED BY <3>2, <3>3
  <2>2. CASE i - n \in 1 .. m
    <3> DEFINE k == i - n
    <3>1. k \in 1 .. m /\ k \in DOMAIN new /\ n + k = i /\ i \in Int /\ k \in Int
      BY <1>5, <1>7, <2>2
    <3> HIDE DEF k
    <3>2. created'[i] = new[k]
      BY <1>5, <3>1
    <3>3. /\ IsPath(new[k]) /\ new[k] # <<>> /\ new[k][1] \in {"etc", "var"}
          /\ Ancestors(new[k]) \subseteq DOMAIN tree \union {new[j] : j \in 1 .. k - 1}
      BY <1>4, <3>1 DEF Grows
    <3>4. ~InCellar(a)
      BY <1>7, <3>2, <3>3, AncestorsChain DEF InCellar
    <3>5. CASE a \in DOMAIN tree
      <4>1. a \in DOMAIN before \/ \E j \in 1 .. n : a = created[j]
        BY <1>3, <1>5, <3>4, <3>5 DEF Known, Logs
      <4>2. \A j \in 1 .. n : j \in 1 .. i - 1 /\ created'[j] = created[j]
        BY <1>5, <3>1
      <4> QED BY <4>1, <4>2
    <3>6. CASE \E j \in 1 .. k - 1 : a = new[j]
      <4>1. PICK j \in 1 .. k - 1 : a = new[j]
        BY <3>6
      <4>2. j \in 1 .. m /\ n + j \in 1 .. i - 1
        BY <1>5, <3>1
      <4>3. created'[n + j] = a
        BY <1>5, <4>1, <4>2
      <4> QED BY <4>2, <4>3
    <3> QED BY <1>7, <3>2, <3>3, <3>5, <3>6
  <2> QED BY <1>5, <1>7, <2>1, <2>2
<1>8. LogClosed'
  <2>1. \A i \in DOMAIN created' : Ancestors(created'[i]) \subseteq DOMAIN before \union {created'[j] : j \in 1 .. i - 1}
    BY <1>7
  <2> QED BY <1>1, <2>1 DEF LogClosed
<1>9. \A q \in DOMAIN before : q \in DOMAIN tree' /\ tree'[q] = before[q]
  BY <1>1 DEF KeepInv, Untouched
<1> QED BY <1>1, <1>6, <1>8, <1>9 DEF Accounted, CameBack

\* Undoing the newest entry of the log leaves what the rest of it accounts for.
LEMMA UndoAccounted ==
    ASSUME NotYetLinked, PhaseInv, TreeInv, LogInv, UndoLast, LogClosed, Accounted(tree)
    PROVE  LogClosed' /\ Accounted(tree)'
<1> DEFINE n == Len(created)  x == created[n]
<1>1. /\ n \in Nat /\ n >= 1 /\ DOMAIN created = 1 .. n /\ DOMAIN created' = 1 .. n - 1
      /\ \A i \in 1 .. n - 1 : created'[i] = created[i] /\ created[i] # x
      /\ DOMAIN tree' = DOMAIN tree \ {x} /\ \A q \in DOMAIN tree' : tree'[q] = tree[q]
  BY UndoLastOf
<1>2. before' = before /\ backups' = backups /\ hook' = hook /\ captured' = captured /\ prehook' = prehook
  BY DEF UndoLast
<1> HIDE DEF n
<1>3. x \notin DOMAIN before /\ ~InCellar(x) /\ IsPath(x)
  BY <1>1 DEF LogInv, InCellar
<1>4. Ancestors(x) \subseteq DOMAIN before \union {created[j] : j \in 1 .. n - 1}
  BY <1>1 DEF LogClosed
<1>5. LogClosed'
  <2>1. ASSUME NEW i \in 1 .. n - 1
        PROVE  Ancestors(created'[i]) \subseteq DOMAIN before \union {created'[j] : j \in 1 .. i - 1}
    <3>1. i \in DOMAIN created /\ created'[i] = created[i] /\ \A j \in 1 .. i - 1 : created'[j] = created[j]
      BY <1>1
    <3>2. Ancestors(created[i]) \subseteq DOMAIN before \union {created[j] : j \in 1 .. i - 1}
      BY <3>1 DEF LogClosed
    <3> QED BY <3>1, <3>2
  <2> QED BY <1>1, <1>2, <2>1 DEF LogClosed
<1>6. \A q : q \in Logs' <=> q \in Logs /\ q # x
  <2>1. \A i \in DOMAIN created : i \in 1 .. n - 1 \/ i = n
    BY <1>1
  <2>2. \A i \in 1 .. n - 1 : i \in DOMAIN created
    BY <1>1
  <2> QED BY <1>1, <2>1, <2>2 DEF Logs
<1>7. \A q : q # x /\ Known(q) => Known(q)'
  BY <1>2, <1>6 DEF Known
<1>8. LinkedFiles(tree') = LinkedFiles(tree)
  <2>1. \A q \in DOMAIN tree \union DOMAIN tree' :
          IsPath(q) /\ (InCellar(q) => q \in DOMAIN tree /\ q \in DOMAIN tree' /\ tree[q] = tree'[q])
    BY <1>1, <1>3 DEF TreeInv
  <2> QED BY <2>1, SameLinkedFiles
<1> HIDE DEF x
<1>9. \A q \in DOMAIN tree' : OurAt(tree, q) => OurAt(tree', q)
  BY <1>1, <1>8 DEF OurAt, OurLink, IsLink
<1>10. ASSUME NEW q \in DOMAIN tree', LinkDir(tree, q) PROVE Known(q)' \/ LinkDir(tree', q)
  <2>1. PICK y \in DOMAIN tree : OurAt(tree, y) /\ q \in Ancestors(y)
    BY <1>10 DEF LinkDir
  <2>2. CASE y = x
    <3>1. q \in DOMAIN before \/ \E j \in 1 .. n - 1 : q = created'[j]
      BY <1>1, <1>4, <2>1, <2>2
    <3> QED BY <1>1, <1>2, <3>1 DEF Known, Logs
  <2>3. CASE y # x
    <3>1. y \in DOMAIN tree' /\ OurAt(tree', y) /\ tree'[q] = Dir
      BY <1>1, <1>9, <1>10, <2>1, <2>3 DEF LinkDir
    <3> QED BY <2>1, <3>1 DEF LinkDir
  <2> QED BY <2>2, <2>3
<1>11. \A q \in DOMAIN before : q \in DOMAIN tree' /\ CameBack(q, tree'[q], before[q])
  BY <1>1, <1>3 DEF Accounted
<1>12. \A q \in DOMAIN tree' : Known(q)' \/ OurAt(tree', q) \/ LinkDir(tree', q) \/ Stray(tree', q)
  BY <1>1, <1>7, <1>9, <1>10 DEF Accounted, Stray
<1>13. \A q : /\ (OurAt(tree, q)' <=> OurAt(tree', q)) /\ (LinkDir(tree, q)' <=> LinkDir(tree', q))
              /\ (Stray(tree, q)' <=> Stray(tree', q))
              /\ (CameBack(q, tree[q], before[q])' <=> CameBack(q, tree'[q], before[q]))
  BY <1>2, SameAccounts
<1> QED BY <1>2, <1>5, <1>11, <1>12, <1>13 DEF Accounted

\* Restoring the roots accounts for the tree again: below them it is as the hook found it but
\* for modes, and a directory left above a link that went with a root is above that root.
LEMMA RestoreAccounted ==
    ASSUME NotYetLinked, PhaseInv, TreeInv, prehook # <<>>, LateLinks, FoundThen(prehook),
           LinkedFiles(prehook) \subseteq LinkedFiles(tree)
    PROVE  Accounted(Restored)
<1> DEFINE t == Restored
<1>1. /\ IsTree(prehook) /\ GoodRoots(DOMAIN backups)
      /\ \A r \in DOMAIN backups : backups[r] = Saved(prehook, r)
  BY DEF PhaseInv, TreeInv
<1>2. /\ \A p : p \in DOMAIN t <=> IF BelowRoot(p) THEN p \in DOMAIN prehook ELSE p \in DOMAIN tree
      /\ \A p \in DOMAIN t : t[p] = IF BelowRoot(p) THEN Copied(prehook[p]) ELSE tree[p]
  BY <1>1, RestoredOf DEF LateLinks
<1> HIDE DEF t
<1>3. (\A p \in DOMAIN tree : IsPath(p)) /\ (\A p \in DOMAIN prehook : IsPath(p)) /\ \A p \in DOMAIN t : IsPath(p)
  BY <1>1, <1>2 DEF TreeInv, IsTree
\* No root is in the Cellar, so the linked files stay, and a path of the prefix that is
\* below no root is not reached.
<1>4. \A p : IsPath(p) /\ InCellar(p) => ~BelowRoot(p)
  <2>1. \A p, r : IsPath(p) /\ InCellar(p) /\ IsPath(r) /\ r # <<>> /\ r[1] # "Cellar" => ~Under(r, p)
    BY SameTop DEF InCellar
  <2> QED BY <1>1, <2>1 DEF GoodRoots, BelowRoot
<1>5. LinkedFiles(t) = LinkedFiles(tree)
  <2>1. \A p \in DOMAIN t \union DOMAIN tree :
          InCellar(p) => p \in DOMAIN t /\ p \in DOMAIN tree /\ t[p] = tree[p]
    BY <1>2, <1>3, <1>4
  <2> QED BY <1>3, <2>1, SameLinkedFiles
<1>6. \A p : IsPath(p) /\ ~InCellar(p) /\ ~BelowRoot(p) => ~Reached(p)
  BY KegInCellar DEF Reached, BelowRoot
<1>7. ASSUME NEW q \in LinkedFiles(tree)
      PROVE  LET p == LinkPath(q) IN
             /\ IsPath(p) /\ ~InCellar(p) /\ \A a \in Ancestors(p) : IsPath(a) /\ ~InCellar(a) /\ Under(a, p)
  <2>1. IsPath(q)
    BY <1>3 DEF LinkedFiles, Within
  <2>2. IsPath(LinkPath(q)) /\ ~InCellar(LinkPath(q)) /\ \A a \in Ancestors(LinkPath(q)) : ~InCellar(a)
    BY <2>1, LinkPathOf
  <2> QED BY <2>2, AncestorsBelow
\* The links of the keg: those that stay, those that come back, those the hook found.
<1>8. \A x : OurAt(tree, x) /\ ~BelowRoot(x) => x \in DOMAIN t /\ OurAt(t, x)
  BY <1>2, <1>5 DEF OurAt, OurLink, IsLink
<1>9. \A x : OurAt(prehook, x) /\ BelowRoot(x) => x \in DOMAIN t /\ OurAt(t, x)
  <2> SUFFICES ASSUME NEW x, OurAt(prehook, x), BelowRoot(x) PROVE x \in DOMAIN t /\ OurAt(t, x)
    OBVIOUS
  <2>1. x \in DOMAIN prehook /\ x \in DOMAIN t /\ t[x] = Copied(prehook[x]) /\ prehook[x].kind = "link"
    BY <1>2 DEF OurAt, OurLink, IsLink
  <2>2. t[x] = prehook[x]
    BY <2>1, CopiedNode
  <2> QED BY <1>5, <2>1, <2>2 DEF OurAt, OurLink, IsLink
<1>10. \A x : OurAt(prehook, x) => x \in DOMAIN t /\ OurAt(t, x)
  <2> SUFFICES ASSUME NEW x, OurAt(prehook, x), ~BelowRoot(x) PROVE x \in DOMAIN t /\ OurAt(t, x)
    BY <1>9
  <2>1. PICK q \in LinkedFiles(tree) : x = LinkPath(q)
    BY DEF OurAt
  <2>2. ~Reached(x) /\ x \in DOMAIN prehook
    BY <1>6, <1>7, <2>1 DEF OurAt, OurLink, IsLink
  <2>3. x \in DOMAIN tree /\ (tree[x] = prehook[x] \/ OurAt(tree, x))
    BY <2>2 DEF LateLinks
  <2>4. OurAt(tree, x)
    BY <2>1, <2>3 DEF OurAt, OurLink, IsLink
  <2> QED BY <1>8, <2>4
<1>11. ASSUME NEW p \in DOMAIN t, p \in DOMAIN prehook, t[p] = prehook[p] \/ t[p] = Copied(prehook[p])
       PROVE  Known(p) \/ OurAt(t, p) \/ LinkDir(t, p)
  <2>1. LinkDir(prehook, p) => t[p] = Dir
    BY <1>11, CopiedNode DEF LinkDir
  <2>2. LinkDir(prehook, p) => LinkDir(t, p)
    BY <1>10, <2>1 DEF LinkDir
  <2> QED BY <1>10, <1>11, <2>2 DEF FoundThen
<1>12. ASSUME NEW p \in DOMAIN t PROVE Known(p) \/ OurAt(t, p) \/ LinkDir(t, p) \/ Stray(t, p)
  <2>1. CASE BelowRoot(p)
    BY <1>2, <1>11, <1>12, <2>1
  <2>2. CASE InCellar(p)
    BY <2>2 DEF Known
  <2>3. CASE ~BelowRoot(p) /\ ~InCellar(p)
    <3>1. p \in DOMAIN tree /\ t[p] = tree[p] /\ ~Reached(p) /\ IsPath(p)
      BY <1>2, <1>3, <1>6, <1>12, <2>3
    <3>2. CASE p \in DOMAIN prehook
      <4>1. tree[p] = prehook[p] \/ OurAt(tree, p)
        BY <3>1, <3>2 DEF LateLinks
      <4> QED BY <1>8, <1>11, <2>3, <3>1, <3>2, <4>1
    <3>3. CASE p \notin DOMAIN prehook
      <4>1. OurAt(tree, p) \/ LinkDir(tree, p) \/ Stray(tree, p)
        BY <3>1, <3>3 DEF LateLinks
      <4>2. ASSUME LinkDir(tree, p) PROVE LinkDir(t, p) \/ Stray(t, p)
        <5>1. PICK x \in DOMAIN tree : OurAt(tree, x) /\ p \in Ancestors(x)
          BY <4>2 DEF LinkDir
        <5>2. PICK q \in LinkedFiles(tree) : x = LinkPath(q)
          BY <5>1 DEF OurAt
        <5>3. CASE BelowRoot(x)
          <6>1. PICK r \in DOMAIN backups : Under(r, x)
            BY <5>3 DEF BelowRoot
          <6>2. IsPath(r) /\ IsPath(x) /\ p \in Ancestors(x)
            BY <1>1, <1>7, <5>1, <5>2 DEF GoodRoots
          <6>3. Under(r, p) \/ p \in Ancestors(r)
            BY <6>1, <6>2, AncestorsChain
          <6>4. AboveRoot(p)
            BY <2>3, <6>3 DEF BelowRoot, AboveRoot
          <6> QED BY <3>1, <4>2, <6>4 DEF LinkDir, Stray, Abandoned
        <5>4. CASE ~BelowRoot(x)
          <6>1. x \in DOMAIN t /\ OurAt(t, x) /\ t[p] = Dir
            BY <1>8, <3>1, <4>2, <5>1, <5>4 DEF LinkDir
          <6> QED BY <5>1, <6>1 DEF LinkDir
        <5> QED BY <5>3, <5>4
      <4>3. Stray(tree, p) => Stray(t, p)
        BY <3>1 DEF Stray
      <4> QED BY <1>8, <2>3, <4>1, <4>2, <4>3
    <3> QED BY <3>2, <3>3
  <2> QED BY <2>1, <2>2, <2>3
<1>13. ASSUME NEW p \in DOMAIN before PROVE p \in DOMAIN t /\ CameBack(p, t[p], before[p])
  <2>1. p \in DOMAIN prehook /\ prehook[p] = before[p]
    BY DEF FoundThen
  <2>2. IsPath(p) /\ ~InCellar(p) /\ ~OurLink(prehook, p)
    BY <2>1, BeforeOf DEF OurLink, IsLink
  <2>3. CASE BelowRoot(p)
    BY <1>2, <2>1, <2>3 DEF CameBack
  <2>4. CASE ~BelowRoot(p)
    <3>1. p \in DOMAIN tree /\ tree[p] = prehook[p]
      BY <1>6, <2>1, <2>2, <2>4 DEF LateLinks
    <3> QED BY <1>2, <2>1, <2>4, <3>1 DEF CameBack
  <2> QED BY <2>3, <2>4
<1> QED BY <1>12, <1>13 DEF Accounted, t

\* What is above an abandoned directory is abandoned.
LEMMA AbandonedAbove ==
    ASSUME PhaseInv, prehook # <<>>, NEW y, IsPath(y), Abandoned(y), NEW p \in Ancestors(y)
    PROVE  Abandoned(p)
<1>1. CASE AboveRoot(y)
  <2>1. PICK r \in DOMAIN backups : y \in Ancestors(r)
    BY <1>1 DEF AboveRoot
  <2>2. IsPath(r)
    BY DEF PhaseInv, GoodRoots
  <2> QED BY <2>1, <2>2, AncestorsChain DEF Abandoned, AboveRoot
<1>2. CASE ForRefused(y)
  <2>1. PICK d \in RefusedDirs : IsPath(d) /\ (y = d \/ y \in Ancestors(d))
    BY <1>2 DEF ForRefused
  <2>2. p \in Ancestors(d)
    BY <2>1, AncestorsChain
  <2> QED BY <1>2, <2>1, <2>2 DEF Abandoned, ForRefused
<1> QED BY <1>1, <1>2 DEF Abandoned

\* Cleaning up a tree that is accounted for leaves the prefix as FailureLeavesPrefix says.
LEMMA CleanupPrefix ==
    ASSUME NotYetLinked, PhaseInv, TreeInv, Cleanup, created = <<>>, Accounted(tree)
    PROVE  FailureLeavesPrefix'
<1>1. \A p \in DOMAIN before :
        /\ p \in DOMAIN tree /\ CameBack(p, tree[p], before[p])
        /\ tree[p].kind = before[p].kind /\ (tree[p].kind = "link" => tree[p] = before[p])
  BY CameBackOf DEF Accounted
<1>2. \A p \in DOMAIN before : p \in Hollow(before) \/ p \in DOMAIN tree'
  BY <1>1, PrunedWasHollow
<1>3. before' = before /\ backups' = backups /\ hook' = hook /\ captured' = captured /\ prehook' = prehook
  BY DEF Cleanup
<1>4. \A p : p \notin Logs
  <2>1. DOMAIN <<>> = {}
    OBVIOUS
  <2> QED BY <2>1 DEF Logs
<1>5. ASSUME NEW p \in DOMAIN tree', ~InCellar(p), p \notin DOMAIN before
      PROVE  tree'[p] = Dir /\ (p \in {<<d>> : d \in LINKABLE_DIRS} \/ Abandoned(p))
  <2>1. p \in DOMAIN tree /\ tree'[p] = tree[p] /\ IsPath(p)
    BY <1>5, CleanupTakes DEF TreeInv
  <2>2. ~OurAt(tree, p)
    BY <1>5, <2>1, CleanupTakes
  <2> SUFFICES ASSUME ~Abandoned(p) PROVE tree'[p] = Dir /\ p \in {<<d>> : d \in LINKABLE_DIRS}
    <3>1. Stray(tree, p) => tree'[p] = Dir
      BY <2>1 DEF Stray
    <3>2. LinkDir(tree, p) => tree'[p] = Dir
      BY <2>1 DEF LinkDir
    <3> QED BY <1>4, <1>5, <2>1, <2>2, <3>1, <3>2 DEF Accounted, Known
  <2>3. LinkDir(tree, p)
    BY <1>4, <1>5, <2>1, <2>2 DEF Accounted, Known, Stray
  <2>4. PICK x \in DOMAIN tree : OurAt(tree, x) /\ p \in Ancestors(x)
    BY <2>3 DEF LinkDir
  <2>5. p \in AboveLinks(tree) /\ tree[p] = Dir
    BY <2>1, <2>3, DirNode DEF LinkDir, AboveLinks
  <2>6. PICK q \in LinkedFiles(tree) : x = LinkPath(q)
    BY <2>4 DEF OurAt
  <2>7. IsPath(x) /\ x[1] \in LINKABLE_DIRS
    <3>1. IsPath(q)
      BY DEF LinkedFiles, Within, TreeInv
    <3> QED BY <2>6, <3>1, LinkPathOf
  <2>8. p # <<>> /\ p[1] \in LINKABLE_DIRS /\ Len(p) >= 1 /\ Len(p) \in Nat
    BY <2>1, <2>4, <2>7, AncestorsChain, AncestorsBelow, PathIsSeq
  <2>9. ~(Len(p) > 1)
    <3> SUFFICES ASSUME NEW y \in Within(tree, p), ~OurAt(tree, y), y \notin AboveLinks(tree)
                 PROVE  FALSE
      BY <1>5, <2>1, <2>5, CleanupTakes
    <3>1. y \in DOMAIN tree /\ Under(p, y) /\ IsPath(y)
      BY DEF Within, TreeInv
    <3>2. ~InCellar(y)
      BY <1>5, <2>1, <2>8, <3>1, SameTop DEF InCellar
    <3>3. ~LinkDir(tree, y)
      BY <3>1, DirNode DEF LinkDir, AboveLinks
    <3>5. p = y \/ p \in Ancestors(y)
      <4>1. Len(y) \in Nat /\ Len(p) <= Len(y)
        BY <2>1, <3>1, PathIsSeq, UnderNames
      <4>2. CASE Len(p) = Len(y)
        BY <2>1, <3>1, <4>2, UnderOrder
      <4>3. CASE Len(p) < Len(y)
        BY <2>1, <2>8, <3>1, <4>3, AncestorsBelow
      <4> QED BY <2>8, <4>1, <4>2, <4>3
    <3>6. CASE y \in DOMAIN before
      BY <1>5, <3>5, <3>6, BeforeOf DEF IsTree
    <3>7. CASE Stray(tree, y)
      <4>1. prehook # <<>>
        <5>1. PhaseInv /\ prehook = <<>> => \A t : Accounted(t) => FoundThen(t)
          BY FoundAccounted
        <5>2. prehook = <<>> => y \in DOMAIN before
          BY <1>4, <3>1, <3>2, <3>3, <5>1 DEF FoundThen, Known
        <5> QED BY <1>5, <3>5, <5>2, BeforeOf DEF IsTree
      <4> QED BY <3>1, <3>5, <3>7, <4>1, AbandonedAbove DEF Stray
    <3> QED BY <1>4, <3>1, <3>2, <3>3, <3>6, <3>7 DEF Accounted, Known
  <2>10. p = <<p[1]>>
    <3>1. Len(p) = 1
      <4>1. \A k \in Nat : k >= 1 /\ ~(k > 1) => k = 1
        OBVIOUS
      <4> QED BY <2>8, <2>9, <4>1, Zenon
    <3> DEFINE s == <<p[1]>>
    <3>2. IsPath(s) /\ Len(s) = 1 /\ s[1] = p[1]
      BY DEF IsPath
    <3> HIDE DEF s
    <3>3. \A i \in 1 .. Len(p) : p[i] = s[i]
      BY <3>1, <3>2
    <3>4. p = s
      BY <2>1, <3>1, <3>2, <3>3, SameNames
    <3> QED BY <3>4 DEF s
  <2> QED BY <2>1, <2>5, <2>8, <2>10
<1> DEFINE now == InPrefix(tree')
<1>6. DOMAIN now = {p \in DOMAIN tree' : ~InCellar(p)} /\ \A p \in DOMAIN now : now[p] = tree'[p]
  BY DEF InPrefix, Restrict, InCellar
<1> HIDE DEF now
<1>7. ASSUME NEW p \in DOMAIN now
      PROVE  \/ p \in DOMAIN before /\ CameBack(p, now[p], before[p])
             \/ now[p] = Dir /\ (p \in {<<d>> : d \in LINKABLE_DIRS} \/ Abandoned(p))
  <2>1. p \in DOMAIN tree' /\ ~InCellar(p) /\ now[p] = tree'[p]
    BY <1>6
  <2>2. p \in DOMAIN before => CameBack(p, tree'[p], before[p])
    BY <1>1, <2>1, CleanupTakes
  <2> QED BY <1>5, <2>1, <2>2
<1>8. \A p \in DOMAIN before \ DOMAIN now : p \in Hollow(before)
  BY <1>2, <1>6, BeforeOf
<1>9. \A p : (Abandoned(p)' <=> Abandoned(p)) /\ (BelowRoot(p)' <=> BelowRoot(p))
  BY <1>3, SameAbandoned
<1>10. \A p : CameBack(p, InPrefix(tree)[p], before[p])' <=> CameBack(p, now[p], before[p])
  BY <1>3, <1>9 DEF CameBack, now
<1> QED BY <1>3, <1>7, <1>8, <1>9, <1>10 DEF FailureLeavesPrefix, now

LEMMA AccountInit == Init => AccountInv
<1> SUFFICES ASSUME Init PROVE AccountInv
  OBVIOUS
<1>1. PICK s \in Starts : before = s.tree /\ tree = Over(before, s.keg)
  BY DEF Init
<1>2. phase = "etcvar" /\ created = <<>> /\ DOMAIN <<>> = {}
  BY DEF Init
<1>3. LogClosed
  BY <1>2 DEF LogClosed
<1>4. \A p \in DOMAIN tree : Known(p)
  <2>1. \A p \in DOMAIN tree : p \in DOMAIN before \/ p \in DOMAIN s.keg
    BY <1>1 DEF Over
  <2>2. \A p \in DOMAIN s.keg : p = <<>> \/ InCellar(p)
    BY StartAssumption DEF InCellar
  <2>3. <<>> \in DOMAIN before
    BY <1>1, StartAssumption DEF IsDir, Exists, Target, IsLink
  <2> QED BY <2>1, <2>2, <2>3 DEF Known
<1> QED BY <1>2, <1>3, <1>4 DEF AccountInv, OnlyTheTree, HookPhase, FailureLeavesPrefix

LEMMA AccountStep ==
    ASSUME NotYetLinked, PlacesFree, UserInv, UserInv', HookInv, AccountInv, HookStays, KegStays, Next
    PROVE  AccountInv'
<1> SUFFICES ASSUME ~torn', ~other' PROVE AccountInv'
  BY DEF AccountInv
<1>0. /\ PhaseInv /\ TreeInv /\ LogInv /\ PlaceInv /\ KeepInv /\ OtherInv
      /\ PhaseInv' /\ TreeInv' /\ KeepInv'
  BY DEF UserInv
<1>1. ~torn /\ ~other
  <2>1. \A p \in DOMAIN left : InstallEntry(p) \/ EntryFails(p) => ~torn /\ ~other
    BY DEF InstallEntry, EntryFails
  <2>2. EtcVarDone \/ UndoLast \/ UndoStops \/ Undone \/ PreLink \/ Backup \/ BackupFails => ~torn /\ ~other
    BY DEF EtcVarDone, UndoLast, UndoStops, Undone, PreLink, Backup, BackupFails
  <2>3. PreLinkFails \/ FinalizeFails => ~torn /\ ~other
    <3>1. LinkFails => torn' = torn \/ torn'
      BY DEF LinkFails
    <3> QED BY <3>1 DEF PreLinkFails, FinalizeFails
  <2>4. RunStatement \/ StatementFails => ~torn /\ ~other
    <3>1. RunStatement => torn' = torn /\ other' = other
      BY DEF RunStatement
    <3>2. StatementFails => (torn => torn') /\ other' = other
      BY DEF StatementFails
    <3> QED BY <3>1, <3>2
  <2>5. HookDone \/ RestoreBackups \/ RestoreFails \/ Finalize \/ Cleanup \/ Other => ~torn /\ ~other
    BY DEF HookDone, RestoreBackups, RestoreFails, Finalize, Cleanup, Other
  <2> QED BY <2>1, <2>2, <2>3, <2>4, <2>5 DEF Next
<1>2. /\ LogClosed
      /\ phase = "cleanup" => created = <<>>
      /\ phase = "etcvar" => \A p \in DOMAIN tree : Known(p)
      /\ OnlyTheTree => Accounted(tree)
      /\ HookPhase \/ phase = "undo_late" =>
           FoundThen(prehook) /\ LinkedFiles(prehook) \subseteq LinkedFiles(tree)
      /\ phase = "undo_late" => LateLinks
  BY <1>1 DEF AccountInv
\* The steps that leave the log alone.
<1>3. ASSUME created' = created, before' = before
      PROVE  /\ LogClosed'
             /\ hook' = hook /\ prehook' = prehook /\ backups' = backups /\ captured' = captured =>
                  (Accounted(tree') => Accounted(tree)')
             /\ FoundThen(tree') => FoundThen(tree)'
             /\ prehook' = prehook /\ FoundThen(prehook) => FoundThen(prehook)'
  <2>1. LogClosed' /\ \A p : Known(p)' <=> Known(p)
    BY <1>2, <1>3 DEF LogClosed, Known, Logs
  <2>2. ASSUME hook' = hook, prehook' = prehook, backups' = backups, captured' = captured, Accounted(tree')
        PROVE  Accounted(tree)'
    BY <1>3, <2>1, <2>2, SameAccounts DEF Accounted
  <2>3. FoundThen(tree') => FoundThen(tree)'
    BY <1>3, <2>1 DEF FoundThen, LinkDir, OurAt
  <2>4. prehook' = prehook /\ FoundThen(prehook) => FoundThen(prehook)'
    BY <1>3, <2>1 DEF FoundThen, LinkDir, OurAt
  <2> QED BY <2>1, <2>2, <2>3, <2>4
<1>4. ASSUME phase' \in {"link", "backup", "undo_etcvar", "undo_strict"}, LogClosed', Accounted(tree)' PROVE AccountInv'
  BY <1>4 DEF AccountInv, OnlyTheTree, HookPhase, FailureLeavesPrefix
<1>5. CASE \E p \in DOMAIN left : InstallEntry(p) \/ EntryFails(p)
  <2>1. PICK p \in DOMAIN left : InstallEntry(p) \/ EntryFails(p)
    BY <1>5
  <2>2. phase' \in {"etcvar", "undo_etcvar"} /\ prehook' = <<>>
    BY <1>0, <2>1, EntryStarts
  <2>3. LogClosed' /\ (\A q \in DOMAIN tree : Known(q))' /\ Accounted(tree)'
    BY <1>0, <2>1, EntryAccounted
  <2> QED BY <2>2, <2>3 DEF AccountInv, OnlyTheTree, HookPhase, FailureLeavesPrefix
<1>6. CASE EtcVarDone
  <2>1. /\ phase = "etcvar" /\ phase' \in {"link", "finalize"} /\ prehook' = prehook /\ prehook = <<>> /\ tree' = tree
        /\ created' = created /\ before' = before /\ hook' = hook /\ backups' = backups /\ captured' = captured
    BY <1>0, <1>6 DEF EtcVarDone, PhaseInv, Goto
  <2>2. Accounted(tree)
    BY <1>0, <1>2, <2>1, FoundAccounted DEF FoundThen, KeepInv, Untouched
  <2>3. LogClosed' /\ Accounted(tree)'
    BY <1>3, <2>1, <2>2
  <2> QED BY <2>1, <2>3 DEF AccountInv, OnlyTheTree, HookPhase, FailureLeavesPrefix
<1>7. CASE UndoLast
  <2>1. phase' = phase /\ phase \in {"undo_etcvar", "undo_strict"}
    BY <1>7 DEF UndoLast
  <2>2. LogClosed' /\ Accounted(tree)'
    BY <1>0, <1>2, <1>7, <2>1, UndoAccounted DEF OnlyTheTree
  <2> QED BY <1>4, <2>1, <2>2
<1>8. CASE Undone
  <2>1. /\ phase \in {"undo_etcvar", "undo_strict"} /\ phase' = "cleanup" /\ created = <<>>
        /\ created' = created /\ before' = before /\ tree' = tree
        /\ hook' = hook /\ prehook' = prehook /\ backups' = backups /\ captured' = captured
    BY <1>8 DEF Undone, Goto
  <2>2. LogClosed' /\ Accounted(tree)'
    BY <1>2, <1>3, <2>1 DEF OnlyTheTree
  <2> QED BY <2>1, <2>2 DEF AccountInv, OnlyTheTree, HookPhase, FailureLeavesPrefix
<1>9. CASE Linking
  <2>1. /\ created' = created /\ before' = before /\ prehook' = prehook /\ backups' = backups
        /\ hook' = hook /\ captured' = captured
    BY <1>9 DEF Linking, PreLink, PreLinkFails, Finalize, FinalizeFails
  <2>2. PICK S \in SUBSET LinkedFiles(tree) : (\A q \in S : CanLink(tree, q)) /\ tree' = Linked(tree, S)
    BY <1>9 DEF Linking, PreLink, PreLinkFails, Finalize, FinalizeFails, LinkFails, ToLink
  <2>3. \A p \in DOMAIN tree : IsPath(p)
    BY <1>0 DEF TreeInv
  <2>4. CASE OnlyTheTree /\ phase' \in {"backup", "undo_etcvar", "undo_strict"}
    <3>1. Accounted(tree')
      BY <1>0, <1>2, <2>2, <2>3, <2>4, LinkedAccounted
    <3> QED BY <1>3, <1>4, <2>1, <2>4, <3>1
  <2>5. CASE phase' = "installed"
    BY <1>3, <2>1, <2>5 DEF AccountInv, OnlyTheTree, HookPhase, FailureLeavesPrefix
  <2>6. CASE phase = "finalize" /\ prehook # <<>> /\ phase' = "undo_late"
    <3>1. /\ LinkedFiles(tree') = LinkedFiles(tree)
          /\ \A p \in DOMAIN tree : p \in DOMAIN tree' /\ (tree'[p] # tree[p] => OurLink(tree, p) /\ OurAt(tree', p))
          /\ \A p \in DOMAIN tree' \ DOMAIN tree : OurAt(tree', p) \/ LinkDir(tree', p)
      BY <2>2, <2>3, LinkedOurs
    <3>2. \A p \in DOMAIN tree \union DOMAIN prehook : ~Reached(p) =>
            /\ p \in DOMAIN tree
            /\ p \in DOMAIN prehook => tree[p] = prehook[p]
            /\ p \notin DOMAIN prehook => Stray(tree, p)
      BY <1>1, <2>6 DEF HookInv, HookPhase, Stray, Abandoned
    <3>3. ASSUME NEW p \in DOMAIN tree' \union DOMAIN prehook, ~Reached(p)
          PROVE  /\ p \in DOMAIN tree'
                 /\ p \in DOMAIN prehook => tree'[p] = prehook[p] \/ (OurLink(prehook, p) /\ OurAt(tree', p))
                 /\ p \notin DOMAIN prehook => OurAt(tree', p) \/ LinkDir(tree', p) \/ Stray(tree', p)
      <4>1. CASE p \in DOMAIN prehook
        <5>1. p \in DOMAIN tree /\ tree[p] = prehook[p]
          BY <3>2, <3>3, <4>1
        <5>2. OurLink(tree, p) => OurLink(prehook, p)
          BY <4>1, <5>1 DEF OurLink, IsLink
        <5> QED BY <3>1, <4>1, <5>1, <5>2
      <4>2. CASE p \notin DOMAIN prehook /\ p \in DOMAIN tree
        BY <3>1, <3>2, <3>3, <4>2 DEF Stray
      <4>3. CASE p \notin DOMAIN prehook /\ p \notin DOMAIN tree
        BY <3>1, <3>3, <4>3
      <4> QED BY <4>1, <4>2, <4>3
    <3>4. \A p : (Reached(p)' <=> Reached(p)) /\ (OurAt(tree, p)' <=> OurAt(tree', p))
                 /\ (LinkDir(tree, p)' <=> LinkDir(tree', p)) /\ (OurLink(prehook, p)' <=> OurLink(prehook, p))
                 /\ (Stray(tree, p)' <=> Stray(tree', p))
      BY <2>1, SameAbandoned, SameAccounts DEF OurLink, IsLink
    <3>5. LateLinks'
      BY <2>1, <3>3, <3>4 DEF LateLinks
    <3>6. (LinkedFiles(prehook) \subseteq LinkedFiles(tree))'
      BY <1>2, <2>1, <2>6, <3>1 DEF HookPhase
    <3>7. FoundThen(prehook)' /\ LogClosed'
      BY <1>2, <1>3, <2>1, <2>6 DEF HookPhase
    <3> QED BY <2>6, <3>5, <3>6, <3>7 DEF AccountInv, OnlyTheTree, HookPhase, FailureLeavesPrefix
  <2>7. \/ OnlyTheTree /\ phase' \in {"backup", "undo_etcvar", "undo_strict"}
        \/ phase' = "installed"
        \/ phase = "finalize" /\ prehook # <<>> /\ phase' = "undo_late"
    BY <1>0, <1>9 DEF Linking, PreLink, PreLinkFails, Finalize, FinalizeFails, OnlyTheTree, Goto, PhaseInv
  <2> QED BY <2>4, <2>5, <2>6, <2>7
<1>10. CASE Backup
  <2>1. /\ phase = "backup" /\ phase' = "run" /\ prehook' = tree /\ tree' = tree
        /\ created' = created /\ before' = before
    BY <1>10 DEF Backup, Goto
  <2>2. FoundThen(tree')
    <3>1. PhaseInv /\ prehook = <<>> => \A u : Accounted(u) => FoundThen(u)
      BY FoundAccounted
    <3>2. prehook = <<>>
      BY <1>0, <2>1 DEF PhaseInv
    <3> QED BY <1>0, <1>2, <2>1, <3>1, <3>2 DEF OnlyTheTree
  <2>3. FoundThen(tree)' /\ LogClosed'
    BY <1>3, <2>1, <2>2
  <2>4. FoundThen(prehook)'
    BY <2>1, <2>3 DEF FoundThen, LinkDir, OurAt
  <2> QED BY <2>1, <2>3, <2>4 DEF AccountInv, OnlyTheTree, HookPhase, FailureLeavesPrefix
<1>11. CASE BackupFails
  <2>1. /\ phase = "backup" /\ phase' = "undo_etcvar" /\ tree' = tree /\ created' = created /\ before' = before
        /\ hook' = hook /\ prehook' = prehook /\ backups' = backups /\ captured' = captured
    BY <1>11 DEF BackupFails, Goto
  <2> QED BY <1>2, <1>3, <1>4, <2>1 DEF OnlyTheTree
<1>12. CASE RunStatement \/ StatementFails
  <2>1. /\ phase = "run" /\ phase' \in {"run", "undo_hook"} /\ prehook' = prehook
        /\ created' = created /\ before' = before /\ backups' = backups
    BY <1>12 DEF RunStatement, StatementFails, Goto
  <2>2. FoundThen(prehook)' /\ LogClosed'
    BY <1>2, <1>3, <2>1 DEF HookPhase
  <2>3. (LinkedFiles(prehook) \subseteq LinkedFiles(tree))'
    <3>1. CASE RunStatement
      BY <2>1, <3>1 DEF KegStays
    <3>2. CASE StatementFails
      BY <2>1, <3>2 DEF StatementFails
    <3> QED BY <1>12, <3>1, <3>2
  <2> QED BY <2>1, <2>2, <2>3 DEF AccountInv, OnlyTheTree, HookPhase, FailureLeavesPrefix
<1>13. CASE HookDone
  <2>1. /\ phase = "run" /\ phase' = "finalize" /\ prehook' = prehook /\ prehook # <<>> /\ tree' = tree
        /\ created' = created /\ before' = before /\ backups' = backups
    BY <1>0, <1>13 DEF HookDone, Goto, PhaseInv
  <2>2. FoundThen(prehook)' /\ LogClosed'
    BY <1>2, <1>3, <2>1 DEF HookPhase
  <2>3. (LinkedFiles(prehook) \subseteq LinkedFiles(tree))'
    BY <1>2, <2>1 DEF HookPhase
  <2> QED BY <2>1, <2>2, <2>3 DEF AccountInv, OnlyTheTree, HookPhase, FailureLeavesPrefix
<1>14. CASE RestoreBackups
  <2>1. /\ phase \in {"undo_hook", "undo_late"} /\ phase' \in {"undo_etcvar", "undo_strict"} /\ tree' = Restored
        /\ created' = created /\ before' = before /\ prehook # <<>>
        /\ hook' = hook /\ prehook' = prehook /\ backups' = backups /\ captured' = captured
    BY <1>0, <1>14 DEF RestoreBackups, Goto, AfterRestore, Restored, PhaseInv
  <2>2. LateLinks
    BY <1>1, <1>2, <2>1 DEF LateLinks, HookInv, HookPhase, Stray, Abandoned
  <2>3. FoundThen(prehook) /\ LinkedFiles(prehook) \subseteq LinkedFiles(tree)
    BY <1>2, <2>1 DEF HookPhase
  <2>4. Accounted(tree')
    BY <1>0, <2>1, <2>2, <2>3, RestoreAccounted
  <2> QED BY <1>3, <1>4, <2>1, <2>4
<1>15. CASE Cleanup
  <2>1. phase = "cleanup" /\ phase' = "failed" /\ created' = created /\ before' = before
    BY <1>15 DEF Cleanup, Goto
  <2>2. FailureLeavesPrefix'
    BY <1>0, <1>2, <1>15, <2>1, CleanupPrefix DEF OnlyTheTree
  <2> QED BY <1>3, <2>1, <2>2 DEF AccountInv, OnlyTheTree, HookPhase
<1>16. CASE UndoStops \/ RestoreFails \/ Other
  BY <1>16 DEF UndoStops, RestoreFails, Other
<1>17. \/ \E p \in DOMAIN left : InstallEntry(p) \/ EntryFails(p)
       \/ EtcVarDone \/ UndoLast \/ Undone \/ Linking \/ Backup \/ BackupFails \/ RunStatement \/ StatementFails
       \/ HookDone \/ RestoreBackups \/ Cleanup \/ UndoStops \/ RestoreFails \/ Other
  BY DEF Next, Linking
<1> QED BY <1>5, <1>6, <1>7, <1>8, <1>9, <1>10, <1>11, <1>12, <1>13, <1>14, <1>15, <1>16, <1>17

\* FailureLeavesPrefix, whatever the prefix and the keg hold and .bottle brings, for the
\* starts of UserFilesKeptHolds and hooks that leave the linked files of the keg alone: no file
\* or link is lost, changed or new, and of directories only those differ that the property names.
THEOREM FailureLeavesPrefixHolds ==
    ASSUME NotYetLinked, PlacesFree
    PROVE  Spec /\ [][HookStays]_vars /\ [][KegStays]_vars => []FailureLeavesPrefix
<1>1. Init => UserInv /\ HookInv /\ AccountInv
  BY UserInit, AccountInit DEF Init, HookInv, HookPhase
<1>2. UserInv /\ HookInv /\ AccountInv /\ [HookStays]_vars /\ [KegStays]_vars /\ [Next]_vars =>
        (UserInv /\ HookInv /\ AccountInv)'
  <2> SUFFICES ASSUME UserInv, HookInv, AccountInv, [HookStays]_vars, [KegStays]_vars, [Next]_vars
               PROVE  UserInv' /\ HookInv' /\ AccountInv'
    OBVIOUS
  <2>1. UserInv'
    BY UserStep
  <2>2. CASE HookStays /\ KegStays /\ Next
    <3>1. HookInv'
      BY <2>2, HookStep DEF UserInv
    <3>2. AccountInv'
      BY <2>1, <2>2, AccountStep
    <3> QED BY <2>1, <3>1, <3>2
  <2>3. CASE UNCHANGED vars
    <3>0. /\ \A p : (Reached(p)' <=> Reached(p)) /\ (AboveRoot(p)' <=> AboveRoot(p)) /\ (ForRefused(p)' <=> ForRefused(p))
          /\ \A p : (BelowRoot(p)' <=> BelowRoot(p)) /\ (Abandoned(p)' <=> Abandoned(p))
      BY <2>3, SameAbandoned DEF vars
    <3>1. HookInv'
      BY <2>3, <3>0 DEF vars, HookInv, HookPhase
    <3>2. LogClosed <=> LogClosed'
      BY <2>3 DEF vars, LogClosed
    <3>3. (Accounted(tree) <=> Accounted(tree)') /\ (FoundThen(prehook) <=> FoundThen(prehook)')
          /\ ((\A p \in DOMAIN tree : Known(p)) <=> (\A p \in DOMAIN tree : Known(p))')
      BY <2>3, <3>0 DEF vars, Accounted, FoundThen, Known, Logs, LinkDir, OurAt, Stray, CameBack
    <3>4. LateLinks <=> LateLinks'
      BY <2>3, <3>0 DEF vars, LateLinks, LinkDir, OurAt, Stray
    <3>5. (FailureLeavesPrefix <=> FailureLeavesPrefix') /\ (HookPhase <=> HookPhase') /\ (OnlyTheTree <=> OnlyTheTree')
      BY <2>3, <3>0 DEF vars, FailureLeavesPrefix, HookPhase, OnlyTheTree, CameBack
    <3>6. AccountInv'
      BY <2>3, <3>2, <3>3, <3>4, <3>5 DEF vars, AccountInv
    <3> QED BY <2>1, <3>1, <3>6
  <2> QED BY <2>2, <2>3
<1>3. UserInv /\ AccountInv => FailureLeavesPrefix
  BY DEF AccountInv, FailureLeavesPrefix
<1> QED BY <1>1, <1>2, <1>3, PTL DEF Spec
=============================================================================
