------------------------- MODULE ResolveOrder_proofs -------------------------
(***************************************************************************)
(* For every index and every request: the order has dependencies first and *)
(* nothing twice, the walk never meets a name that was not fetched, a      *)
(* cycle that is reported is one, the plan is complete, and a planned      *)
(* bottle fits.  The argument: what fetch_with_deps has fetched is closed  *)
(* under dependencies once its queue is empty, whatever index each formula *)
(* came from; the names in progress are those on the path; and a           *)
(* dependency of a name on the path is done, still to visit, or the next   *)
(* on the path, and so is a name that was asked for.                       *)
(***************************************************************************)
EXTENDS ResolveOrder, TLAPS

Cached == \A n \in DOMAIN cache : cache[n].dependencies \in NameSeq /\ cache[n].build_dependencies \in NameSeq
Closed == \A n \in DOMAIN cache : Elements(Deps(n)) \subseteq DOMAIN cache \union queue
Asked  == Elements(requested) \subseteq DOMAIN cache \union queue
Drained == pc \in {"check", "visit", "filter", "done"} => queue = {}
FetchInv == Cached /\ Closed /\ Asked /\ Drained

Unstarted ==
    pc \in {"fetch", "check"} =>
        path = <<>> /\ todo = <<requested>> /\ result = <<>> /\ state = [n \in Names |-> "None"]
TodoCached == pc = "visit" => \A i \in DOMAIN todo : Elements(todo[i]) \subseteq DOMAIN cache
Reasons    == (error # "" => pc = "failed") /\ NeverMissing

PathMarked  == \A i \in DOMAIN path : path[i] \in DOMAIN cache /\ state[path[i]] = "InProgress"
PathOnce    == \A i, j \in DOMAIN path : path[i] = path[j] => i = j
OpenOnPath  == \A n \in Names : state[n] = "InProgress" => n \in Elements(path)
OrderMarked == \A i \in DOMAIN result : result[i] \in DOMAIN cache /\ state[result[i]] = "Done"
DoneOrdered == \A n \in Names : state[n] = "Done" => n \in Elements(result)
Chain       == \A i \in 1 .. Len(path) - 1 : path[i + 1] \in Elements(Deps(path[i]))
TodoIsDeps  == \A i \in DOMAIN path : Elements(todo[i + 1]) \subseteq Elements(Deps(path[i]))
Covered     ==
    \A i \in DOMAIN path : \A d \in Elements(Deps(path[i])) :
        state[d] = "Done" \/ d \in Elements(todo[i + 1]) \/ (i < Len(path) /\ d = path[i + 1])

Marks  == PathMarked /\ PathOnce /\ OpenOnPath /\ OrderMarked /\ DoneOrdered
Frames == Chain /\ TodoIsDeps /\ Covered

RInv == TypeOK /\ FetchInv /\ Unstarted /\ TodoCached /\ Reasons /\ Marks /\ Frames /\ InstallOrder /\ CycleIsReal

-----------------------------------------------------------------------------
(***************************************************************************)
(* Sequences.                                                              *)
(***************************************************************************)
LEMMA EmptyFacts ==
  /\ DOMAIN <<>> = {} /\ Len(<<>>) = 0 /\ 1 .. 0 - 1 = {}
  /\ \A S : <<>> \in Seq(S)
  OBVIOUS

LEMMA OneFacts ==
  ASSUME NEW S, NEW e \in S
  PROVE  <<e>> \in Seq(S) /\ Len(<<e>>) = 1 /\ DOMAIN <<e>> = {1} /\ <<e>>[1] = e
  OBVIOUS

LEMMA AppendFacts ==
  ASSUME NEW S, NEW s \in Seq(S), NEW e \in S
  PROVE  /\ Append(s, e) \in Seq(S) /\ Len(Append(s, e)) = Len(s) + 1
         /\ DOMAIN Append(s, e) = 1 .. Len(s) + 1
         /\ \A i \in DOMAIN s : Append(s, e)[i] = s[i]
         /\ Append(s, e)[Len(s) + 1] = e
  OBVIOUS

LEMMA PoppedFacts ==
  ASSUME NEW S, NEW s \in Seq(S), s # <<>>
  PROVE  /\ Popped(s) \in Seq(S) /\ Len(Popped(s)) = Len(s) - 1
         /\ DOMAIN Popped(s) = 1 .. Len(s) - 1
         /\ \A i \in 1 .. Len(s) - 1 : Popped(s)[i] = s[i]
         /\ Len(s) \in DOMAIN s
<1>1. Len(s) \in Nat \ {0} /\ DOMAIN s = 1 .. Len(s)
  OBVIOUS
<1>2. 1 .. Len(s) - 1 \subseteq 1 .. Len(s)
  BY <1>1
<1>3. Popped(s) = [i \in 1 .. Len(s) - 1 |-> s[i]]
  BY <1>1 DEF Popped
<1> QED
  BY <1>1, <1>2, <1>3

LEMMA ElementsTyped ==
  ASSUME NEW s \in NameSeq
  PROVE  Elements(s) \subseteq Names
  BY DEF NameSeq, Elements

LEMMA ElementsAppend ==
  ASSUME NEW S, NEW s \in Seq(S), NEW e \in S
  PROVE  Elements(Append(s, e)) = Elements(s) \union {e}
<1>1. Elements(Append(s, e)) \subseteq Elements(s) \union {e}
  BY AppendFacts DEF Elements
<1>2. Elements(s) \union {e} \subseteq Elements(Append(s, e))
  <2>1. DOMAIN s \subseteq DOMAIN Append(s, e) /\ Len(s) + 1 \in DOMAIN Append(s, e)
    BY AppendFacts
  <2> QED
    BY <2>1, AppendFacts DEF Elements
<1> QED
  BY <1>1, <1>2

LEMMA ElementsHeadTail ==
  ASSUME NEW s \in NameSeq, s # <<>>
  PROVE  Elements(s) = {Head(s)} \union Elements(Tail(s)) /\ Head(s) \in Names /\ Tail(s) \in NameSeq
<1>1. Head(s) = s[1] /\ 1 \in DOMAIN s /\ Head(s) \in Names /\ Tail(s) \in NameSeq
  BY DEF NameSeq
<1>2. Elements(s) \subseteq {Head(s)} \union Elements(Tail(s))
  <2> SUFFICES ASSUME NEW i \in DOMAIN s PROVE s[i] \in {Head(s)} \union Elements(Tail(s))
    BY DEF Elements
  <2>1. CASE i = 1
    BY <2>1, <1>1
  <2>2. CASE i # 1
    <3>1. i - 1 \in DOMAIN Tail(s) /\ Tail(s)[i - 1] = s[i]
      BY <2>2 DEF NameSeq
    <3> QED
      BY <3>1 DEF Elements
  <2> QED
    BY <2>1, <2>2
<1>3. Elements(Tail(s)) \subseteq Elements(s)
  <2> SUFFICES ASSUME NEW i \in DOMAIN Tail(s) PROVE Tail(s)[i] \in Elements(s)
    BY DEF Elements
  <2>1. i + 1 \in DOMAIN s /\ Tail(s)[i] = s[i + 1]
    BY DEF NameSeq
  <2> QED
    BY <2>1 DEF Elements
<1> QED
  BY <1>1, <1>2, <1>3 DEF Elements

-----------------------------------------------------------------------------
(***************************************************************************)
(* Facts about a state.                                                    *)
(***************************************************************************)
LEMMA DepsTyped ==
  ASSUME Cached, NEW n \in DOMAIN cache
  PROVE  Deps(n) \in NameSeq
  BY DEF Cached, Deps, plan_dependencies, NameSeq

LEMMA LevelIsOne ==
  ASSUME TypeOK
  PROVE  Level \in DOMAIN todo /\ Level = Len(path) + 1 /\ todo[Level] \in NameSeq
  BY DEF TypeOK, Level, NameSeq

LEMMA RestFacts ==
  ASSUME TypeOK, Visiting
  PROVE  /\ Rest \in Seq(NameSeq) /\ Len(Rest) = Len(todo) /\ DOMAIN Rest = DOMAIN todo
         /\ \A i \in DOMAIN todo : i # Level => Rest[i] = todo[i]
         /\ Name \in Names /\ Elements(todo[Level]) = {Name} \union Elements(Rest[Level])
<1>1. todo \in Seq(NameSeq) /\ Level \in DOMAIN todo /\ todo[Level] \in NameSeq /\ todo[Level] # <<>>
  BY LevelIsOne DEF TypeOK, Visiting
<1>2. Tail(todo[Level]) \in NameSeq /\ Name \in Names
      /\ Elements(todo[Level]) = {Name} \union Elements(Tail(todo[Level]))
  BY <1>1, ElementsHeadTail DEF Name
<1>3. Rest \in Seq(NameSeq) /\ Len(Rest) = Len(todo) /\ DOMAIN Rest = DOMAIN todo
  BY <1>1, <1>2 DEF Rest
<1>4. Rest[Level] = Tail(todo[Level]) /\ \A i \in DOMAIN todo : i # Level => Rest[i] = todo[i]
  BY <1>1 DEF Rest
<1> QED
  BY <1>2, <1>3, <1>4

LEMMA FormulaTyped ==
  ASSUME NEW c, WellFormed(c), NEW n \in DOMAIN c
  PROVE  /\ n \in Names /\ c[n].dependencies \in NameSeq /\ c[n].build_dependencies \in NameSeq
         /\ plan_dependencies(c[n]) \in NameSeq
  BY DEF WellFormed, NameSeq, plan_dependencies

-----------------------------------------------------------------------------
(***************************************************************************)
(* The initial states.                                                     *)
(***************************************************************************)
LEMMA InitRInv == Init => RInv
<1> SUFFICES ASSUME Init PROVE RInv
  OBVIOUS
<1>1. catalog \in Catalogs /\ requested \in Requests /\ queue = Elements(requested) /\ pc = "fetch"
      /\ cache = <<>> /\ installed = {} /\ updates = 0 /\ looked = 0 /\ plan = <<>>
  BY DEF Init
<1>2. path = <<>> /\ todo = <<requested>> /\ result = <<>> /\ cycle = <<>> /\ error = ""
      /\ state = [n \in Names |-> "None"]
  BY DEF Init
<1>3. requested \in NameSeq /\ 0 \in 0 .. MaxUpdates
  BY <1>1, RequestAssumption DEF NameSeq
<1>4. queue \subseteq Names
  BY <1>1, <1>3, ElementsTyped
<1>5. TypeOK
  <2>1. path \in NameSeq /\ todo \in Seq(NameSeq) /\ Len(todo) = Len(path) + 1 /\ result \in NameSeq /\ cycle \in NameSeq
    <3>1. <<>> \in NameSeq
      BY EmptyFacts DEF NameSeq
    <3>2. todo \in Seq(NameSeq) /\ Len(todo) = 1
      BY <1>2, <1>3, OneFacts
    <3>3. Len(path) = 0
      BY <1>2, EmptyFacts
    <3>4. Len(todo) = Len(path) + 1
      BY <3>2, <3>3
    <3> QED
      BY <1>2, <3>1, <3>2, <3>4
  <2>2. state \in [Names -> {"None", "InProgress", "Done"}] /\ DOMAIN cache \subseteq Names
    BY <1>1, <1>2, EmptyFacts
  <2> QED
    BY <1>1, <1>3, <1>4, <2>1, <2>2, EmptyFacts, CatalogAssumption DEF TypeOK, NameSeq
<1>6. FetchInv
  BY <1>1 DEF FetchInv, Cached, Closed, Asked, Drained
<1>7. Unstarted /\ TodoCached /\ Reasons /\ CycleIsReal
  BY <1>1, <1>2 DEF Unstarted, TodoCached, Reasons, NeverMissing, CycleIsReal
<1>8. Marks
  BY <1>2, EmptyFacts DEF Marks, PathMarked, PathOnce, OpenOnPath, OrderMarked, DoneOrdered
<1>9. Frames /\ InstallOrder
  BY <1>2, EmptyFacts DEF Frames, Chain, TodoIsDeps, Covered, InstallOrder, DepsFirst, EachOnce
<1> QED
  BY <1>5, <1>6, <1>7, <1>8, <1>9 DEF RInv

-----------------------------------------------------------------------------
(***************************************************************************)
(* Steps that leave the search alone.                                      *)
(***************************************************************************)
LEMMA SearchKept ==
  ASSUME RInv, UNCHANGED <<cache, state, path, todo, result>>
  PROVE  Marks' /\ Frames' /\ InstallOrder'
<1>0. \A n : Deps(n)' = Deps(n)
  BY DEF Deps
<1>1. Marks'
  BY DEF RInv, Marks, PathMarked, PathOnce, OpenOnPath, OrderMarked, DoneOrdered
<1>2. Frames'
  BY <1>0 DEF RInv, Frames, Chain, TodoIsDeps, Covered
<1>3. InstallOrder'
  BY <1>0 DEF RInv, InstallOrder, DepsFirst, EachOnce
<1> QED
  BY <1>1, <1>2, <1>3

LEMMA FetchKept ==
  ASSUME RInv, UNCHANGED <<cache, queue, requested>>, pc' = "failed" \/ pc' = pc \/ queue = {}
  PROVE  FetchInv'
  BY DEF RInv, FetchInv, Cached, Closed, Asked, Drained, Deps, Elements

LEMMA CycleKept ==
  ASSUME RInv, UNCHANGED <<cache, cycle, error>>
  PROVE  CycleIsReal'
  BY DEF RInv, CycleIsReal, Deps

\* A step that fails for another reason than a cycle, or a name that was not fetched.
LEMMA FailKeeps ==
  ASSUME RInv, NEW reason, Fail(reason), reason \notin {"Cyclic", "Missing"}, cycle' = cycle
  PROVE  RInv'
<1>1. UNCHANGED <<cache, queue, requested, state, path, todo, result>> /\ pc' = "failed" /\ error' = reason
  BY DEF Fail, search, given
<1>2. TypeOK'
  BY DEF RInv, TypeOK, Fail, search, given
<1>3. FetchInv'
  BY <1>1, FetchKept
<1>4. Marks' /\ Frames' /\ InstallOrder'
  BY <1>1, SearchKept
<1>5. Unstarted' /\ TodoCached' /\ Reasons' /\ CycleIsReal'
  BY <1>1 DEF Unstarted, TodoCached, Reasons, NeverMissing, CycleIsReal
<1> QED
  BY <1>2, <1>3, <1>4, <1>5 DEF RInv

\* A step of the control alone.
LEMMA ControlKeeps ==
  ASSUME RInv, UNCHANGED <<cache, queue, requested, state, path, todo, result, cycle, error>>,
         TypeOK', pc # "failed", pc' = pc \/ queue = {},
         pc' \in {"fetch", "check"} => pc \in {"fetch", "check"},
         pc' = "visit" => pc = "visit"
  PROVE  RInv'
<1>1. FetchInv'
  BY FetchKept
<1>2. Marks' /\ Frames' /\ InstallOrder'
  BY SearchKept
<1>3. CycleIsReal'
  BY CycleKept
<1>4. Unstarted' /\ TodoCached' /\ Reasons'
  BY DEF RInv, Unstarted, TodoCached, Reasons, NeverMissing, Elements
<1> QED
  BY <1>1, <1>2, <1>3, <1>4 DEF RInv

-----------------------------------------------------------------------------
(***************************************************************************)
(* Fetching.                                                               *)
(***************************************************************************)
LEMMA UpdateKeeps == ASSUME RInv, Update PROVE RInv'
<1>1. WellFormed(catalog')
  <2>1. catalog' \in Replacements
    BY DEF Update
  <2> QED
    BY <2>1, CatalogAssumption
<1>2. TypeOK'
  BY <1>1, RequestAssumption DEF RInv, TypeOK, Update, given, search
<1> QED
  BY <1>2, ControlKeeps DEF Update, given, search

LEMMA FetchAgainKeeps == ASSUME RInv, FetchAgain PROVE RInv'
<1> PICK n \in queue \intersect DOMAIN cache : queue' = queue \ {n}
  BY DEF FetchAgain
<1>1. pc = "fetch" /\ UNCHANGED <<requested, pc, cache, state, path, todo, result, cycle, error>>
  BY DEF FetchAgain, given, search
<1>2. TypeOK'
  BY DEF RInv, TypeOK, FetchAgain, given, search
<1>3. DOMAIN cache \union queue = DOMAIN cache \union queue'
  OBVIOUS
<1>4. FetchInv'
  BY <1>1, <1>3 DEF RInv, FetchInv, Cached, Closed, Asked, Drained, Deps, Elements
<1>5. Marks' /\ Frames' /\ InstallOrder'
  BY <1>1, SearchKept
<1>6. Unstarted' /\ TodoCached' /\ Reasons' /\ CycleIsReal'
  BY <1>1, CycleKept DEF RInv, Unstarted, TodoCached, Reasons, NeverMissing
<1> QED
  BY <1>2, <1>4, <1>5, <1>6 DEF RInv

\* The formula and what it depends on: fetched, or in the queue.
LEMMA FetchKeeps == ASSUME RInv, Fetch PROVE RInv'
<1> PICK n \in (queue \intersect DOMAIN catalog) \ DOMAIN cache :
      /\ queue' = (queue \ {n}) \union (Elements(plan_dependencies(catalog[n])) \ DOMAIN cache)
      /\ cache' = [m \in DOMAIN cache \union {n} |-> IF m = n THEN catalog[n] ELSE cache[m]]
  BY DEF Fetch
<1>1. pc = "fetch" /\ UNCHANGED <<requested, pc, state, path, todo, result, cycle, error>>
  BY DEF Fetch, given, search
<1>2. path = <<>> /\ todo = <<requested>> /\ result = <<>> /\ state = [m \in Names |-> "None"] /\ error = ""
  BY <1>1 DEF RInv, Unstarted, Reasons
<1>3. n \in Names /\ plan_dependencies(catalog[n]) \in NameSeq
      /\ catalog[n].dependencies \in NameSeq /\ catalog[n].build_dependencies \in NameSeq
  BY FormulaTyped DEF RInv, TypeOK
<1>4. DOMAIN cache' = DOMAIN cache \union {n} /\ cache'[n] = catalog[n] /\ \A m \in DOMAIN cache : cache'[m] = cache[m]
  OBVIOUS
<1>5. DOMAIN cache \union queue \subseteq DOMAIN cache' \union queue'
  BY <1>4
<1>6. Elements(plan_dependencies(catalog[n])) \subseteq DOMAIN cache' \union queue'
  BY <1>4
<1>7. TypeOK'
  <2>1. queue' \subseteq Names /\ DOMAIN cache' \subseteq Names
    BY <1>3, <1>4, ElementsTyped DEF RInv, TypeOK
  <2> QED
    BY <2>1 DEF RInv, TypeOK, Fetch, given, search
<1>8. Cached'
  BY <1>3, <1>4 DEF RInv, FetchInv, Cached
<1>9. Closed'
  <2> SUFFICES ASSUME NEW m \in DOMAIN cache' PROVE Elements(Deps(m))' \subseteq DOMAIN cache' \union queue'
    BY DEF Closed
  <2>1. CASE m = n
    BY <2>1, <1>4, <1>6 DEF Deps, Elements
  <2>2. CASE m \in DOMAIN cache
    <3>1. Elements(Deps(m))' = Elements(Deps(m))
      BY <2>2, <1>4 DEF Deps, Elements
    <3> QED
      BY <2>2, <3>1, <1>5 DEF RInv, FetchInv, Closed
  <2> QED
    BY <2>1, <2>2, <1>4
<1>10. Asked' /\ Drained'
  BY <1>1, <1>5 DEF RInv, FetchInv, Asked, Drained, Elements
<1>11. Marks' /\ Frames' /\ InstallOrder'
  <2>1. DOMAIN path' = {} /\ 1 .. Len(path') - 1 = {} /\ DOMAIN result' = {} /\ \A m \in Names : state'[m] = "None"
    BY <1>1, <1>2, EmptyFacts
  <2>2. Marks'
    BY <2>1 DEF Marks, PathMarked, PathOnce, OpenOnPath, OrderMarked, DoneOrdered
  <2> QED
    BY <2>1, <2>2 DEF Frames, Chain, TodoIsDeps, Covered, InstallOrder, DepsFirst, EachOnce
<1>12. Unstarted' /\ TodoCached' /\ Reasons' /\ CycleIsReal'
  BY <1>1, <1>2 DEF RInv, Unstarted, TodoCached, Reasons, NeverMissing, CycleIsReal
<1> QED
  BY <1>7, <1>8, <1>9, <1>10, <1>11, <1>12 DEF RInv, FetchInv

LEMMA FetchFailsKeeps == ASSUME RInv, FetchFails PROVE RInv'
<1>1. Fail("NotFound") \/ Fail("Unsupported")
  BY DEF FetchFails
<1>2. cycle' = cycle
  BY DEF FetchFails
<1> QED
  BY <1>1, <1>2, FailKeeps

LEMMA FetchedKeeps == ASSUME RInv, Fetched PROVE RInv'
<1>1. TypeOK'
  BY DEF RInv, TypeOK, Fetched, given, search
<1> QED
  BY <1>1, ControlKeeps DEF Fetched, given, search

\* The walk starts with the names of the request, which are fetched.
LEMMA CheckKeeps == ASSUME RInv, Check PROVE RInv'
<1>1. pc = "check" /\ pc' = "visit"
      /\ UNCHANGED <<requested, queue, cache, state, path, todo, result, cycle, error>>
  BY DEF Check, given, search
<1>2. TypeOK'
  BY DEF RInv, TypeOK, Check, given, search
<1>3. queue = {} /\ todo = <<requested>>
  BY <1>1 DEF RInv, FetchInv, Drained, Unstarted
<1>4. FetchInv'
  BY <1>1, <1>3, FetchKept
<1>5. TodoCached'
  BY <1>1, <1>3 DEF RInv, FetchInv, Asked, TodoCached
<1>6. Unstarted' /\ Reasons' /\ CycleIsReal'
  BY <1>1, CycleKept DEF RInv, Unstarted, Reasons, NeverMissing
<1>7. Marks' /\ Frames' /\ InstallOrder'
  BY <1>1, SearchKept
<1> QED
  BY <1>2, <1>4, <1>5, <1>6, <1>7 DEF RInv

LEMMA CheckFailsKeeps == ASSUME RInv, CheckFails PROVE RInv'
  BY FailKeeps DEF CheckFails

-----------------------------------------------------------------------------
(***************************************************************************)
(* The walk.                                                               *)
(***************************************************************************)
\* The index of the list of a name on the path.
LEMMA ListOf ==
  ASSUME TypeOK, NEW i \in DOMAIN path
  PROVE  /\ i + 1 \in DOMAIN todo /\ todo[i + 1] \in NameSeq
         /\ DOMAIN path = 1 .. Len(path) /\ DOMAIN todo = 1 .. Len(path) + 1
         /\ i + 1 = Level <=> i = Len(path)
<1>1. DOMAIN path = 1 .. Len(path) /\ Len(path) \in Nat /\ DOMAIN todo = 1 .. Len(path) + 1
  BY DEF TypeOK, NameSeq
<1>2. i + 1 \in DOMAIN todo
  BY <1>1
<1> QED
  BY <1>1, <1>2, LevelIsOne DEF TypeOK

\* What VisitDone and Enter have in common: the next call is taken off its list.
RestCovered ==
    \A i \in DOMAIN path : \A d \in Elements(Deps(path[i])) :
        \/ state[d] = "Done" \/ d \in Elements(Rest[i + 1])
        \/ i < Len(path) /\ d = path[i + 1]
        \/ i = Len(path) /\ d = Name

LEMMA RestOfDeps ==
  ASSUME RInv, Visiting
  PROVE  /\ \A i \in DOMAIN todo : Elements(Rest[i]) \subseteq Elements(todo[i])
         /\ \A i \in DOMAIN path : Elements(Rest[i + 1]) \subseteq Elements(Deps(path[i]))
         /\ path # <<>> => Name \in Elements(Deps(path[Len(path)]))
         /\ RestCovered
<1> USE DEF RInv
<1>1. \A i \in DOMAIN todo : Elements(Rest[i]) \subseteq Elements(todo[i])
  BY RestFacts
<1>2. \A i \in DOMAIN path : Elements(Rest[i + 1]) \subseteq Elements(Deps(path[i]))
  BY <1>1, ListOf DEF Frames, TodoIsDeps
<1>3. ASSUME path # <<>> PROVE Name \in Elements(Deps(path[Len(path)]))
  <2>1. Len(path) \in DOMAIN path
    BY <1>3, PoppedFacts DEF TypeOK, NameSeq
  <2> QED
    BY <2>1, ListOf, RestFacts DEF Frames, TodoIsDeps
<1>4. RestCovered
  <2> SUFFICES ASSUME NEW i \in DOMAIN path, NEW d \in Elements(Deps(path[i])),
                      state[d] # "Done", ~(i < Len(path) /\ d = path[i + 1])
               PROVE  d \in Elements(Rest[i + 1]) \/ (i = Len(path) /\ d = Name)
    BY DEF RestCovered
  <2>1. d \in Elements(todo[i + 1])
    BY DEF Frames, Covered
  <2>2. CASE i = Len(path)
    BY <2>1, <2>2, ListOf, RestFacts
  <2>3. CASE i # Len(path)
    BY <2>1, <2>3, ListOf, RestFacts
  <2> QED
    BY <2>2, <2>3
<1> QED
  BY <1>1, <1>2, <1>3, <1>4

LEMMA VisitDoneKeeps == ASSUME RInv, VisitDone PROVE RInv'
<1>1. Visiting /\ pc = "visit" /\ todo' = Rest /\ state[Name] = "Done"
      /\ UNCHANGED <<requested, pc, queue, cache, state, path, result, cycle, error>>
  BY DEF VisitDone, Visiting, given
<1>2. \A n : Deps(n)' = Deps(n)
  BY <1>1 DEF Deps
<1>3. TypeOK'
  BY <1>1, RestFacts DEF RInv, TypeOK, VisitDone, given
<1>4. FetchInv'
  BY <1>1, FetchKept
<1>5. Unstarted' /\ Reasons' /\ CycleIsReal'
  BY <1>1, CycleKept DEF RInv, Unstarted, Reasons, NeverMissing
<1>6. TodoCached'
  BY <1>1, RestOfDeps, RestFacts DEF RInv, TodoCached
<1>7. Marks'
  BY <1>1 DEF RInv, Marks, PathMarked, PathOnce, OpenOnPath, OrderMarked, DoneOrdered
<1>8. Chain' /\ TodoIsDeps'
  BY <1>1, <1>2, RestOfDeps DEF RInv, Frames, Chain, TodoIsDeps
<1>9. Covered'
  BY <1>1, <1>2, RestOfDeps DEF RestCovered, Covered
<1>10. InstallOrder'
  BY <1>1, <1>2 DEF RInv, InstallOrder, DepsFirst, EachOnce
<1> QED
  BY <1>3, <1>4, <1>5, <1>6, <1>7, <1>8, <1>9, <1>10 DEF RInv, Frames

\* What visit of a name without a mark does to the path and the lists.
LEMMA EnterFacts ==
  ASSUME RInv, Enter
  PROVE  /\ Visiting /\ pc = "visit" /\ state[Name] = "None" /\ Name \in DOMAIN cache
         /\ Name \in Names /\ Deps(Name) \in NameSeq
         /\ UNCHANGED <<requested, pc, queue, cache, result, cycle, error>>
         /\ path' = Append(path, Name) /\ state' = [state EXCEPT ![Name] = "InProgress"]
         /\ path' \in NameSeq /\ Len(path') = Len(path) + 1 /\ DOMAIN path' = 1 .. Len(path) + 1
         /\ DOMAIN path = 1 .. Len(path) /\ Len(path) \in Nat
         /\ path'[Len(path) + 1] = Name /\ \A i \in DOMAIN path : path'[i] = path[i]
         /\ todo' \in Seq(NameSeq) /\ Len(todo') = Len(todo) + 1 /\ DOMAIN todo' = 1 .. Len(path) + 2
         /\ DOMAIN todo = 1 .. Len(path) + 1
         /\ todo'[Len(path) + 2] = Deps(Name) /\ \A i \in DOMAIN todo : todo'[i] = Rest[i]
         /\ state' \in [Names -> {"None", "InProgress", "Done"}] /\ state'[Name] = "InProgress"
         /\ \A n \in Names : n # Name => state'[n] = state[n]
<1> USE DEF RInv
<1>0. Visiting /\ Name \in DOMAIN cache
  BY LevelIsOne, RestFacts DEF Enter, Visiting, TodoCached
<1>1. Visiting /\ pc = "visit" /\ state[Name] = "None" /\ Name \in DOMAIN cache
      /\ state' = [state EXCEPT ![Name] = "InProgress"]
      /\ path' = Append(path, Name) /\ todo' = Append(Rest, Deps(Name))
      /\ UNCHANGED <<requested, pc, queue, cache, result, cycle, error>>
  BY <1>0 DEF Enter, Visiting, given
<1>3. Name \in Names /\ Deps(Name) \in NameSeq
  BY <1>1, RestFacts, DepsTyped DEF FetchInv
<1>4. /\ path' \in NameSeq /\ Len(path') = Len(path) + 1 /\ DOMAIN path' = 1 .. Len(path) + 1
      /\ DOMAIN path = 1 .. Len(path) /\ Len(path) \in Nat
      /\ path'[Len(path) + 1] = Name /\ \A i \in DOMAIN path : path'[i] = path[i]
  BY <1>1, <1>3, AppendFacts DEF TypeOK, NameSeq
<1>5. /\ todo' \in Seq(NameSeq) /\ Len(todo') = Len(todo) + 1 /\ DOMAIN todo' = 1 .. Len(path) + 2
      /\ DOMAIN todo = 1 .. Len(path) + 1
      /\ todo'[Len(path) + 2] = Deps(Name) /\ \A i \in DOMAIN todo : todo'[i] = Rest[i]
  <2>1. Rest \in Seq(NameSeq) /\ Len(Rest) = Len(todo) /\ DOMAIN Rest = DOMAIN todo /\ Len(todo) = Len(path) + 1
    BY <1>1, RestFacts DEF TypeOK
  <2>2. DOMAIN todo = 1 .. Len(path) + 1
    BY <2>1 DEF TypeOK
  <2> QED
    BY <1>1, <1>3, <1>4, <2>1, <2>2, AppendFacts
<1>6. /\ state' \in [Names -> {"None", "InProgress", "Done"}] /\ state'[Name] = "InProgress"
      /\ \A n \in Names : n # Name => state'[n] = state[n]
  BY <1>1, <1>3 DEF TypeOK
<1> QED
  BY <1>1, <1>3, <1>4, <1>5, <1>6

\* The name is the next on the path, and its own list holds all it depends on.
LEMMA EnterKeeps == ASSUME RInv, Enter PROVE RInv'
<1> USE DEF RInv
<1>1. Visiting /\ pc = "visit" /\ state[Name] = "None" /\ Name \in DOMAIN cache
      /\ path' = Append(path, Name) /\ state' = [state EXCEPT ![Name] = "InProgress"]
      /\ UNCHANGED <<requested, pc, queue, cache, result, cycle, error>>
  BY EnterFacts
<1>2. \A n : Deps(n)' = Deps(n)
  BY <1>1 DEF Deps
<1>3. Name \in Names /\ Deps(Name) \in NameSeq
  BY EnterFacts
<1>4. /\ path' \in NameSeq /\ Len(path') = Len(path) + 1 /\ DOMAIN path' = 1 .. Len(path) + 1
      /\ DOMAIN path = 1 .. Len(path) /\ Len(path) \in Nat
      /\ path'[Len(path) + 1] = Name /\ \A i \in DOMAIN path : path'[i] = path[i]
  BY EnterFacts
<1>5. /\ todo' \in Seq(NameSeq) /\ Len(todo') = Len(todo) + 1 /\ DOMAIN todo' = 1 .. Len(path) + 2
      /\ DOMAIN todo = 1 .. Len(path) + 1
      /\ todo'[Len(path) + 2] = Deps(Name) /\ \A i \in DOMAIN todo : todo'[i] = Rest[i]
  BY EnterFacts
<1>6. /\ state' \in [Names -> {"None", "InProgress", "Done"}] /\ state'[Name] = "InProgress"
      /\ \A n \in Names : n # Name => state'[n] = state[n]
  BY EnterFacts
<1>7. TypeOK'
  BY <1>1, <1>4, <1>5, <1>6 DEF TypeOK, Enter, given, Fail
<1>8. FetchInv'
  BY <1>1, FetchKept
<1>9. Unstarted' /\ Reasons' /\ CycleIsReal'
  BY <1>1, CycleKept DEF Unstarted, Reasons, NeverMissing
<1>10. TodoCached'
  <2> SUFFICES ASSUME NEW i \in DOMAIN todo' PROVE Elements(todo'[i]) \subseteq DOMAIN cache
    BY <1>1 DEF TodoCached
  <2>1. CASE i = Len(path) + 2
    BY <2>1, <1>1, <1>5 DEF FetchInv, Closed, Drained
  <2>2. CASE i \in DOMAIN todo
    BY <2>2, <1>1, <1>5, RestOfDeps DEF TodoCached
  <2> QED
    BY <2>1, <2>2, <1>4, <1>5
<1>11. \A i \in DOMAIN path : path[i] # Name /\ path[i] \in Names
  BY <1>1 DEF Marks, PathMarked, TypeOK
<1>12. \A i \in DOMAIN result : result[i] # Name /\ result[i] \in Names
  BY <1>1 DEF Marks, OrderMarked, TypeOK
<1>13. Marks'
  <2>1. PathMarked'
    BY <1>1, <1>4, <1>6, <1>11 DEF Marks, PathMarked
  <2>2. PathOnce'
    BY <1>4, <1>11 DEF Marks, PathOnce
  <2>3. OpenOnPath'
    <3>1. Elements(path') = Elements(path) \union {Name}
      BY <1>1, <1>3, ElementsAppend DEF TypeOK, NameSeq
    <3> QED
      BY <3>1, <1>6 DEF Marks, OpenOnPath
  <2>4. OrderMarked'
    BY <1>1, <1>6, <1>12 DEF Marks, OrderMarked
  <2>5. DoneOrdered'
    BY <1>1, <1>6 DEF Marks, DoneOrdered
  <2> QED
    BY <2>1, <2>2, <2>3, <2>4, <2>5 DEF Marks
<1>14. Chain'
  <2> SUFFICES ASSUME NEW i \in 1 .. Len(path') - 1 PROVE path'[i + 1] \in Elements(Deps(path'[i]))
    BY <1>2 DEF Chain
  <2>1. i \in DOMAIN path /\ path'[i] = path[i]
    BY <1>4
  <2>2. CASE i = Len(path)
    <3>1. path # <<>>
      BY <2>1, <2>2, EmptyFacts
    <3> QED
      BY <2>1, <2>2, <3>1, <1>1, <1>4, RestOfDeps
  <2>3. CASE i # Len(path)
    <3>1. i \in 1 .. Len(path) - 1 /\ i + 1 \in DOMAIN path
      BY <2>1, <2>3, <1>4
    <3> QED
      BY <2>1, <3>1, <1>4 DEF Frames, Chain
  <2> QED
    BY <2>2, <2>3
<1>15. TodoIsDeps'
  <2> SUFFICES ASSUME NEW i \in DOMAIN path' PROVE Elements(todo'[i + 1]) \subseteq Elements(Deps(path'[i]))
    BY <1>2 DEF TodoIsDeps
  <2>1. CASE i = Len(path) + 1
    BY <2>1, <1>4, <1>5
  <2>2. CASE i \in DOMAIN path
    BY <2>2, <1>1, <1>4, <1>5, RestOfDeps
  <2> QED
    BY <2>1, <2>2, <1>4
<1>16. Covered'
  <2> SUFFICES ASSUME NEW i \in DOMAIN path', NEW d \in Elements(Deps(path'[i]))
               PROVE  state'[d] = "Done" \/ d \in Elements(todo'[i + 1]) \/ (i < Len(path') /\ d = path'[i + 1])
    BY <1>2 DEF Covered
  <2>1. CASE i = Len(path) + 1
    BY <2>1, <1>4, <1>5
  <2>2. CASE i \in DOMAIN path
    <3>1. d \in Elements(Deps(path[i])) /\ i + 1 \in DOMAIN todo /\ todo'[i + 1] = Rest[i + 1]
      BY <2>2, <1>4, <1>5
    <3>2. \/ state[d] = "Done" \/ d \in Elements(Rest[i + 1])
          \/ i < Len(path) /\ d = path[i + 1]
          \/ i = Len(path) /\ d = Name
      BY <2>2, <3>1, <1>1, RestOfDeps DEF RestCovered
    <3>3. ASSUME state[d] = "Done" PROVE state'[d] = "Done"
      BY <3>3, <1>1 DEF TypeOK
    <3>4. ASSUME i < Len(path), d = path[i + 1] PROVE i < Len(path') /\ d = path'[i + 1]
      <4>1. i + 1 \in DOMAIN path
        BY <3>4, <2>2, <1>4
      <4> QED
        BY <3>4, <4>1, <2>2, <1>4
    <3>5. ASSUME i = Len(path), d = Name PROVE i < Len(path') /\ d = path'[i + 1]
      BY <3>5, <1>4
    <3> QED
      BY <3>1, <3>2, <3>3, <3>4, <3>5
  <2> QED
    BY <2>1, <2>2, <1>4
<1>17. InstallOrder'
  BY <1>1, <1>2 DEF InstallOrder, DepsFirst, EachOnce
<1> QED
  BY <1>7, <1>8, <1>9, <1>10, <1>13, <1>14, <1>15, <1>16, <1>17 DEF Frames

\* What leaving the last name of the path does to the path, the lists and the order.
LEMMA LeaveFacts ==
  ASSUME RInv, Leave
  PROVE  LET last == Len(path)  name == path[last] IN
         /\ pc = "visit" /\ todo[Level] = <<>>
         /\ state' = [state EXCEPT ![name] = "Done"] /\ result' = Append(result, name)
         /\ UNCHANGED <<requested, pc, queue, cache, cycle, error>>
         /\ path' \in NameSeq /\ Len(path') = last - 1 /\ DOMAIN path' = 1 .. last - 1
         /\ \A i \in 1 .. last - 1 : path'[i] = path[i]
         /\ last \in DOMAIN path /\ DOMAIN path = 1 .. last /\ last \in Nat \ {0} /\ name \in Names
         /\ todo' \in Seq(NameSeq) /\ Len(todo') = last /\ DOMAIN todo' = 1 .. last
         /\ \A i \in 1 .. last : todo'[i] = todo[i]
         /\ DOMAIN todo = 1 .. last + 1 /\ Level = last + 1
         /\ result' \in NameSeq /\ DOMAIN result' = 1 .. Len(result) + 1 /\ DOMAIN result = 1 .. Len(result)
         /\ Len(result) \in Nat
         /\ result'[Len(result) + 1] = name /\ \A i \in DOMAIN result : result'[i] = result[i]
         /\ state' \in [Names -> {"None", "InProgress", "Done"}] /\ state'[name] = "Done"
         /\ \A n \in Names : n # name => state'[n] = state[n]
<1> USE DEF RInv
<1> DEFINE last == Len(path)  name == path[last]
<1>1. /\ pc = "visit" /\ todo[Level] = <<>> /\ path # <<>>
      /\ state' = [state EXCEPT ![name] = "Done"] /\ result' = Append(result, name)
      /\ path' = Popped(path) /\ todo' = Popped(todo)
      /\ UNCHANGED <<requested, pc, queue, cache, cycle, error>>
  BY DEF Leave, given
<1>3. /\ path' \in NameSeq /\ Len(path') = last - 1 /\ DOMAIN path' = 1 .. last - 1
      /\ \A i \in 1 .. last - 1 : path'[i] = path[i]
      /\ last \in DOMAIN path /\ DOMAIN path = 1 .. last /\ last \in Nat \ {0}
      /\ name \in Names
  <2>1. path \in Seq(Names) /\ path # <<>>
    BY <1>1 DEF TypeOK, NameSeq
  <2>2. /\ Popped(path) \in Seq(Names) /\ Len(Popped(path)) = last - 1 /\ DOMAIN Popped(path) = 1 .. last - 1
        /\ \A i \in 1 .. last - 1 : Popped(path)[i] = path[i]
        /\ last \in DOMAIN path
    BY <2>1, PoppedFacts
  <2>3. DOMAIN path = 1 .. last /\ last \in Nat \ {0} /\ name \in Names
    BY <2>1, <2>2
  <2> QED
    BY <1>1, <2>2, <2>3 DEF NameSeq
<1>4. /\ todo' \in Seq(NameSeq) /\ Len(todo') = last /\ DOMAIN todo' = 1 .. last
      /\ \A i \in 1 .. last : todo'[i] = todo[i]
      /\ DOMAIN todo = 1 .. last + 1 /\ Level = last + 1
  <2>1. todo \in Seq(NameSeq) /\ Len(todo) = last + 1 /\ todo # <<>>
    BY <1>3, EmptyFacts DEF TypeOK
  <2> QED
    <3>1. /\ Popped(todo) \in Seq(NameSeq) /\ Len(Popped(todo)) = Len(todo) - 1
          /\ DOMAIN Popped(todo) = 1 .. Len(todo) - 1
          /\ \A i \in 1 .. Len(todo) - 1 : Popped(todo)[i] = todo[i]
      BY <2>1, PoppedFacts
    <3>2. Len(todo) - 1 = last /\ DOMAIN todo = 1 .. last + 1 /\ Level = last + 1
      BY <1>3, <2>1 DEF Level
    <3> QED
      BY <1>1, <3>1, <3>2
<1>5. /\ result' \in NameSeq /\ DOMAIN result' = 1 .. Len(result) + 1 /\ DOMAIN result = 1 .. Len(result)
      /\ Len(result) \in Nat
      /\ result'[Len(result) + 1] = name /\ \A i \in DOMAIN result : result'[i] = result[i]
  BY <1>1, <1>3, AppendFacts DEF TypeOK, NameSeq
<1>6. /\ state' \in [Names -> {"None", "InProgress", "Done"}] /\ state'[name] = "Done"
      /\ \A n \in Names : n # name => state'[n] = state[n]
  BY <1>1, <1>3 DEF TypeOK
<1> QED
  BY <1>1, <1>3, <1>4, <1>5, <1>6

\* The last name of the path is done, and all it depends on is in the order.
LEMMA LeaveKeeps == ASSUME RInv, Leave PROVE RInv'
<1> USE DEF RInv
<1> DEFINE last == Len(path)  name == path[last]
<1>1. /\ pc = "visit" /\ todo[Level] = <<>>
      /\ state' = [state EXCEPT ![name] = "Done"] /\ result' = Append(result, name)
      /\ UNCHANGED <<requested, pc, queue, cache, cycle, error>>
  BY LeaveFacts
<1>2. \A n : Deps(n)' = Deps(n)
  BY <1>1 DEF Deps
<1>3. /\ path' \in NameSeq /\ Len(path') = last - 1 /\ DOMAIN path' = 1 .. last - 1
      /\ \A i \in 1 .. last - 1 : path'[i] = path[i]
      /\ last \in DOMAIN path /\ DOMAIN path = 1 .. last /\ last \in Nat \ {0}
      /\ name \in Names
  BY LeaveFacts
<1>4. /\ todo' \in Seq(NameSeq) /\ Len(todo') = last /\ DOMAIN todo' = 1 .. last
      /\ \A i \in 1 .. last : todo'[i] = todo[i]
      /\ DOMAIN todo = 1 .. last + 1 /\ Level = last + 1
  BY LeaveFacts
<1>5. /\ result' \in NameSeq /\ DOMAIN result' = 1 .. Len(result) + 1 /\ DOMAIN result = 1 .. Len(result)
      /\ Len(result) \in Nat
      /\ result'[Len(result) + 1] = name /\ \A i \in DOMAIN result : result'[i] = result[i]
  BY LeaveFacts
<1>6. /\ state' \in [Names -> {"None", "InProgress", "Done"}] /\ state'[name] = "Done"
      /\ \A n \in Names : n # name => state'[n] = state[n]
  BY LeaveFacts
<1>7. /\ name \in DOMAIN cache /\ state[name] = "InProgress"
      /\ \A i \in DOMAIN path : path[i] \in Names /\ (i # last => path[i] # name)
      /\ \A i \in DOMAIN result : result[i] \in Names /\ result[i] # name
  BY <1>3 DEF Marks, PathMarked, PathOnce, OrderMarked, TypeOK
<1>8. TypeOK'
  <2>1. Len(todo') = Len(path') + 1
    BY <1>3, <1>4
  <2> QED
    BY <1>3, <1>4, <1>5, <1>6, <2>1 DEF TypeOK, Leave, given
<1>9. FetchInv'
  BY <1>1, FetchKept
<1>10. Unstarted' /\ Reasons' /\ CycleIsReal'
  BY <1>1, CycleKept DEF Unstarted, Reasons, NeverMissing
<1>11. TodoCached'
  BY <1>1, <1>3, <1>4 DEF TodoCached
<1>12. Elements(result') = Elements(result) \union {name}
  BY <1>1, <1>3, ElementsAppend DEF TypeOK, NameSeq
<1>13. Marks'
  <2>1. PathMarked' /\ PathOnce'
    <3>1. \A i \in 1 .. last - 1 : i \in DOMAIN path /\ i # last
      BY <1>3
    <3>2. PathMarked'
      <4> SUFFICES ASSUME NEW i \in 1 .. last - 1
                   PROVE  path'[i] \in DOMAIN cache' /\ state'[path'[i]] = "InProgress"
        BY <1>3 DEF PathMarked
      <4>1. i \in DOMAIN path /\ path'[i] = path[i] /\ path[i] \in Names /\ path[i] # name
        BY <3>1, <1>3, <1>7
      <4>2. path[i] \in DOMAIN cache /\ state[path[i]] = "InProgress"
        BY <4>1 DEF Marks, PathMarked
      <4> QED BY <4>1, <4>2, <1>1, <1>6
    <3>3. PathOnce'
      <4>1. PathOnce
        BY DEF Marks
      <4> QED BY <4>1, <3>1, <1>3 DEF PathOnce
    <3> QED
      BY <3>2, <3>3
  <2>2. OpenOnPath'
    <3> SUFFICES ASSUME NEW n \in Names, state'[n] = "InProgress" PROVE n \in Elements(path')
      BY DEF OpenOnPath
    <3>1. n # name /\ n \in Elements(path)
      BY <1>6 DEF Marks, OpenOnPath
    <3>2. PICK i \in DOMAIN path : path[i] = n
      BY <3>1 DEF Elements
    <3>3. i \in 1 .. last - 1
      BY <3>1, <3>2, <1>3
    <3> QED
      BY <3>2, <3>3, <1>3 DEF Elements
  <2>3. OrderMarked'
    <3> SUFFICES ASSUME NEW i \in DOMAIN result' PROVE result'[i] \in DOMAIN cache /\ state'[result'[i]] = "Done"
      BY <1>1 DEF OrderMarked
    <3>1. CASE i = Len(result) + 1
      BY <3>1, <1>5, <1>6, <1>7
    <3>2. CASE i \in DOMAIN result
      BY <3>2, <1>5, <1>6, <1>7 DEF Marks, OrderMarked
    <3> QED
      BY <3>1, <3>2, <1>5
  <2>4. DoneOrdered'
    BY <1>6, <1>12 DEF Marks, DoneOrdered
  <2> QED
    BY <2>1, <2>2, <2>3, <2>4 DEF Marks
<1>14. Chain' /\ TodoIsDeps'
  <2>1. Chain'
    <3> SUFFICES ASSUME NEW i \in 1 .. Len(path') - 1 PROVE path'[i + 1] \in Elements(Deps(path'[i]))
      BY <1>2 DEF Chain
    <3>1. i \in 1 .. last - 1 /\ i + 1 \in 1 .. last - 1
      BY <1>3
    <3> QED
      BY <3>1, <1>3 DEF Frames, Chain
  <2>2. TodoIsDeps'
    <3> SUFFICES ASSUME NEW i \in DOMAIN path' PROVE Elements(todo'[i + 1]) \subseteq Elements(Deps(path'[i]))
      BY <1>2 DEF TodoIsDeps
    <3>1. i \in 1 .. last - 1 /\ i + 1 \in 1 .. last /\ i \in DOMAIN path
      BY <1>3
    <3> QED
      BY <3>1, <1>3, <1>4 DEF Frames, TodoIsDeps
  <2> QED
    BY <2>1, <2>2
<1>15. Covered'
  <2> SUFFICES ASSUME NEW i \in DOMAIN path', NEW d \in Elements(Deps(path'[i]))
               PROVE  state'[d] = "Done" \/ d \in Elements(todo'[i + 1]) \/ (i < Len(path') /\ d = path'[i + 1])
    BY <1>2 DEF Covered
  <2>1. i \in 1 .. last - 1 /\ i + 1 \in 1 .. last /\ i \in DOMAIN path /\ path'[i] = path[i] /\ todo'[i + 1] = todo[i + 1]
    BY <1>3, <1>4
  <2>2. state[d] = "Done" \/ d \in Elements(todo[i + 1]) \/ (i < Len(path) /\ d = path[i + 1])
    BY <2>1 DEF Frames, Covered
  <2>3. ASSUME state[d] = "Done" PROVE state'[d] = "Done"
    BY <2>3, <1>1, <1>3 DEF TypeOK
  <2>4. CASE d = path[i + 1] /\ i + 1 = last
    BY <2>4, <1>6
  <2>5. CASE d = path[i + 1] /\ i + 1 # last
    <3>1. i + 1 \in 1 .. last - 1 /\ i < last - 1
      BY <2>1, <2>5, <1>3
    <3> QED
      BY <2>5, <3>1, <1>3
  <2> QED
    BY <2>1, <2>2, <2>3, <2>4, <2>5
<1>16. Elements(Deps(name)) \subseteq Elements(result)
  <2> SUFFICES ASSUME NEW d \in Elements(Deps(name)) PROVE d \in Elements(result)
    OBVIOUS
  <2>1. Elements(todo[last + 1]) = {}
    BY <1>1, <1>4, EmptyFacts DEF Elements
  <2>2. state[d] = "Done"
    <3>1. state[d] = "Done" \/ d \in Elements(todo[last + 1]) \/ last < last
      BY <1>3 DEF Frames, Covered
    <3> QED
      BY <1>3, <2>1, <3>1
  <2>3. d \in Names
    BY <1>7, DepsTyped, ElementsTyped DEF FetchInv
  <2> QED
    BY <2>2, <2>3 DEF Marks, DoneOrdered
<1>17. EachOnce'
  BY <1>5, <1>7 DEF InstallOrder, EachOnce
<1>18. DepsFirst'
  <2> SUFFICES ASSUME NEW j \in DOMAIN result', NEW k \in DOMAIN Deps(result'[j])
               PROVE  \E i \in 1 .. j - 1 : result'[i] = Deps(result'[j])[k]
    BY <1>2 DEF DepsFirst
  <2>1. CASE j = Len(result) + 1
    <3>1. Deps(name)[k] \in Elements(result)
      BY <2>1, <1>5, <1>16 DEF Elements
    <3>2. PICK i \in DOMAIN result : result[i] = Deps(name)[k]
      BY <3>1 DEF Elements
    <3>3. i \in 1 .. j - 1
      BY <2>1, <3>2, <1>5
    <3> QED
      BY <2>1, <3>2, <3>3, <1>5
  <2>2. CASE j \in DOMAIN result
    <3>1. PICK i \in 1 .. j - 1 : result[i] = Deps(result[j])[k]
      BY <2>2, <1>5 DEF InstallOrder, DepsFirst
    <3>2. i \in DOMAIN result
      BY <2>2, <3>1, <1>5
    <3> QED
      BY <2>2, <3>1, <3>2, <1>5
  <2> QED
    BY <2>1, <2>2, <1>5
<1> QED
  BY <1>8, <1>9, <1>10, <1>11, <1>13, <1>14, <1>15, <1>17, <1>18 DEF Frames, InstallOrder

\* The names of the path from some index on, and one more.
Suffix(s, m, e) == Append(SubSeq(s, m, Len(s)), e)

LEMMA SuffixFacts ==
  ASSUME NEW s \in NameSeq, NEW m \in DOMAIN s, NEW e \in Names
  PROVE  /\ Suffix(s, m, e) \in NameSeq
         /\ Len(Suffix(s, m, e)) = Len(s) - m + 2 /\ Len(Suffix(s, m, e)) \in Nat
         /\ \A i \in 1 .. Len(Suffix(s, m, e)) - 1 :
               m + i - 1 \in DOMAIN s /\ Suffix(s, m, e)[i] = s[m + i - 1]
         /\ Suffix(s, m, e)[Len(Suffix(s, m, e))] = e /\ DOMAIN s = 1 .. Len(s) /\ Len(s) \in Nat
<1> DEFINE t == SubSeq(s, m, Len(s))  c == Suffix(s, m, e)
<1>1. DOMAIN s = 1 .. Len(s) /\ Len(s) \in Nat /\ m \in 1 .. Len(s)
  BY DEF NameSeq
<1>2. t = [i \in 1 .. Len(s) - m + 1 |-> s[m + i - 1]] /\ t \in Seq(Names)
  BY <1>1 DEF NameSeq
<1>3. Len(t) = Len(s) - m + 1
  BY <1>1, <1>2
<1>4. c \in Seq(Names) /\ Len(c) = Len(t) + 1 /\ c[Len(t) + 1] = e /\ \A i \in 1 .. Len(t) : c[i] = t[i]
  BY <1>2, <1>3 DEF Suffix
<1> HIDE DEF t, c
<1>5. \A i \in 1 .. Len(t) : t[i] = s[m + i - 1] /\ m + i - 1 \in DOMAIN s
  BY <1>1, <1>2, <1>3
<1>6. Len(c) - 1 = Len(t) /\ Len(c) = Len(s) - m + 2 /\ Len(c) \in Nat
  BY <1>1, <1>3, <1>4
<1> QED
  BY <1>1, <1>3, <1>4, <1>5, <1>6 DEF NameSeq, c

\* The name in progress is on the path, and the last of the path needs it.
LEMMA VisitCycleKeeps == ASSUME RInv, VisitCycle PROVE RInv'
<1> USE DEF RInv
<1> DEFINE start == CHOOSE i \in DOMAIN path : path[i] = Name
<1>1. /\ Visiting /\ state[Name] = "InProgress" /\ pc' = "failed" /\ error' = "Cyclic"
      /\ cycle' = Append(SubSeq(path, start, Len(path)), Name)
      /\ UNCHANGED <<requested, queue, cache, state, path, todo, result>>
  BY DEF VisitCycle, Fail, given, search
<1>2. \A n : Deps(n)' = Deps(n)
  BY <1>1 DEF Deps
<1>3. Name \in Names /\ Name \in Elements(path)
  BY <1>1, RestFacts DEF Marks, OpenOnPath
<1>4. start \in DOMAIN path /\ path[start] = Name
  BY <1>3 DEF Elements
<1> HIDE DEF start
<1>5. /\ cycle' \in NameSeq /\ Len(cycle') = Len(path) - start + 2 /\ Len(cycle') \in Nat
      /\ \A i \in 1 .. Len(cycle') - 1 : start + i - 1 \in DOMAIN path /\ cycle'[i] = path[start + i - 1]
      /\ cycle'[Len(cycle')] = Name /\ DOMAIN path = 1 .. Len(path) /\ Len(path) \in Nat
  <2>1. path \in NameSeq
    BY DEF TypeOK
  <2>2. cycle' = Suffix(path, start, Name)
    BY <1>1 DEF Suffix
  <2> QED
    BY <1>3, <1>4, <2>1, <2>2, SuffixFacts
<1>6. Name \in Elements(Deps(path[Len(path)]))
  <2>1. path # <<>>
    BY <1>4, EmptyFacts
  <2> QED
    BY <1>1, <2>1, RestOfDeps
<1>7. Len(cycle') > 1 /\ cycle'[1] = Name
  <2>1. 1 \in 1 .. Len(cycle') - 1 /\ start + 1 - 1 = start
    BY <1>4, <1>5
  <2> QED
    BY <2>1, <1>4, <1>5
<1>8. \A i \in 1 .. Len(cycle') - 1 : cycle'[i + 1] \in Elements(Deps(cycle'[i]))
  <2> SUFFICES ASSUME NEW i \in 1 .. Len(cycle') - 1 PROVE cycle'[i + 1] \in Elements(Deps(cycle'[i]))
    OBVIOUS
  <2>1. CASE i = Len(cycle') - 1
    <3>1. start + i - 1 = Len(path) /\ i + 1 = Len(cycle')
      BY <2>1, <1>4, <1>5
    <3> QED
      BY <3>1, <1>5, <1>6
  <2>2. CASE i # Len(cycle') - 1
    <3>1. i + 1 \in 1 .. Len(cycle') - 1 /\ start + i - 1 \in 1 .. Len(path) - 1 /\ start + (i + 1) - 1 = (start + i - 1) + 1
      <4> DEFINE l == Len(cycle')  p == Len(path)
      <4>1. l \in Nat /\ p \in Nat /\ l = p - start + 2 /\ start \in 1 .. p /\ i \in 1 .. l - 1 /\ i # l - 1
        BY <2>2, <1>4, <1>5
      <4> HIDE DEF l, p
      <4>2. i + 1 \in 1 .. l - 1 /\ start + i - 1 \in 1 .. p - 1 /\ start + (i + 1) - 1 = (start + i - 1) + 1
        BY <4>1
      <4> QED
        BY <4>2 DEF l, p
    <3>2. cycle'[i] = path[start + i - 1] /\ cycle'[i + 1] = path[(start + i - 1) + 1]
      BY <3>1, <1>5
    <3> QED
      BY <3>1, <3>2 DEF Frames, Chain
  <2> QED
    BY <2>1, <2>2
<1>9. CycleIsReal'
  BY <1>2, <1>5, <1>7, <1>8 DEF CycleIsReal, Elements
<1>10. TypeOK'
  BY <1>1, <1>5 DEF TypeOK, VisitCycle, Fail, given, search
<1>11. FetchInv' /\ Marks' /\ Frames' /\ InstallOrder'
  BY <1>1, FetchKept, SearchKept
<1>12. Unstarted' /\ TodoCached' /\ Reasons'
  BY <1>1 DEF Unstarted, TodoCached, Reasons, NeverMissing
<1> QED
  BY <1>9, <1>10, <1>11, <1>12

LEMMA VisitedKeeps == ASSUME RInv, Visited PROVE RInv'
<1>1. TypeOK'
  BY DEF RInv, TypeOK, Visited, given, search
<1>2. queue = {}
  BY DEF RInv, FetchInv, Drained, Visited
<1> QED
  BY <1>1, <1>2, ControlKeeps DEF Visited, given, search

LEMMA FilterKeeps == ASSUME RInv, Filter PROVE RInv'
<1> DEFINE n == result[looked + 1]
<1>1. pc = "filter" /\ looked < Len(result) /\ looked' = looked + 1
      /\ UNCHANGED <<catalog, requested, updates, pc, queue, cache, state, path, todo, result, cycle, error>>
  BY DEF Filter
<1>2. n \in Names
  BY <1>1 DEF RInv, TypeOK, NameSeq
<1>3. installed' \subseteq Names /\ plan' \in NameSeq /\ looked' \in Nat
  <2>1. CASE plan' = Append(plan, n) /\ installed' = installed
    BY <2>1, <1>1, <1>2, AppendFacts DEF RInv, TypeOK, NameSeq
  <2>2. CASE installed' = installed \union {n} /\ plan' = plan
    BY <2>2, <1>1, <1>2 DEF RInv, TypeOK
  <2> QED
    BY <2>1, <2>2 DEF Filter
<1>4. TypeOK'
  BY <1>1, <1>3 DEF RInv, TypeOK
<1> QED
  BY <1>1, <1>4, ControlKeeps

LEMMA FilterFailsKeeps == ASSUME RInv, FilterFails PROVE RInv'
  BY FailKeeps DEF FilterFails

LEMMA FilteredKeeps == ASSUME RInv, Filtered PROVE RInv'
<1>1. TypeOK'
  BY DEF RInv, TypeOK, Filtered, given, search
<1>2. queue = {}
  BY DEF RInv, FetchInv, Drained, Filtered
<1> QED
  BY <1>1, <1>2, ControlKeeps DEF Filtered, given, search

-----------------------------------------------------------------------------
(***************************************************************************)
(* The theorems.                                                           *)
(***************************************************************************)
LEMMA StutterKeeps == ASSUME RInv, UNCHANGED vars PROVE RInv'
<1>1. TypeOK'
  BY DEF RInv, TypeOK, vars
<1>2. UNCHANGED <<requested, pc, queue, cache, state, path, todo, result, cycle, error>>
  BY DEF vars
<1>3. FetchInv' /\ Marks' /\ Frames' /\ InstallOrder' /\ CycleIsReal'
  BY <1>2, FetchKept, SearchKept, CycleKept
<1>4. Unstarted' /\ TodoCached' /\ Reasons'
  BY <1>2 DEF RInv, Unstarted, TodoCached, Reasons, NeverMissing
<1> QED
  BY <1>1, <1>3, <1>4 DEF RInv

LEMMA NextRInv == RInv /\ [Next]_vars => RInv'
<1> SUFFICES ASSUME RInv, [Next]_vars PROVE RInv'
  OBVIOUS
<1>1. CASE Update \/ FetchAgain \/ Fetch \/ FetchFails \/ Fetched
  BY <1>1, UpdateKeeps, FetchAgainKeeps, FetchKeeps, FetchFailsKeeps, FetchedKeeps
<1>2. CASE Check \/ CheckFails
  BY <1>2, CheckKeeps, CheckFailsKeeps
<1>3. CASE VisitDone \/ VisitCycle \/ Enter \/ Leave
  BY <1>3, VisitDoneKeeps, VisitCycleKeeps, EnterKeeps, LeaveKeeps
<1>4. CASE Visited \/ Filter \/ FilterFails \/ Filtered
  BY <1>4, VisitedKeeps, FilterKeeps, FilterFailsKeeps, FilteredKeeps
<1>5. CASE UNCHANGED vars
  BY <1>5, StutterKeeps
<1> QED
  BY <1>1, <1>2, <1>3, <1>4, <1>5 DEF Next

LEMMA RInvHolds == Spec => []RInv
  BY InitRInv, NextRInv, PTL DEF Spec

\* Every variable has its type and the lists left to visit match the path
\* (resolve_install_order and visit of core/src/resolve.rs).
THEOREM TypeCorrect == Spec => []TypeOK
<1>1. RInv => TypeOK
  BY DEF RInv
<1> QED
  BY <1>1, RInvHolds, PTL

\* In the order of visit what a formula needs stands before it, and no formula is in it
\* twice, for every graph.
THEOREM OrderOfInstall == Spec => []InstallOrder
<1>1. RInv => InstallOrder
  BY DEF RInv
<1> QED
  BY <1>1, RInvHolds, PTL

\* visit finds every formula in the cache that fetch_with_deps filled, even when the index
\* was replaced between two of its loads.
THEOREM NoneMissing == Spec => []NeverMissing
<1>1. RInv => NeverMissing
  BY DEF RInv, Reasons
<1> QED
  BY <1>1, RInvHolds, PTL

\* The cycle of a CyclicDependency error is a cycle of the graph.
THEOREM CyclesAreReal == Spec => []CycleIsReal
<1>1. RInv => CycleIsReal
  BY DEF RInv
<1> QED
  BY <1>1, RInvHolds, PTL

-----------------------------------------------------------------------------
(***************************************************************************)
(* The bottle that is chosen.                                              *)
(***************************************************************************)
Codenames == APPLE_SILICON_CODENAMES
Majors    == <<26, 15, 14, 13, 12, 11>>

\* The two tables agree: the candidates are in the order of the versions, the newest first.
LEMMA CodenameMajor ==
  ASSUME NEW i \in 1 .. 6, NEW t, t.codename = Codenames[i]
  PROVE  macos_major(t) = Majors[i]
<1>1. i \in {1, 2, 3, 4, 5, 6}
  OBVIOUS
<1>2. \E v \in MACOS_VERSIONS : v[2] = t.codename
  BY <1>1 DEF MACOS_VERSIONS, Codenames, APPLE_SILICON_CODENAMES
<1>3. ASSUME NEW v \in MACOS_VERSIONS, v[2] = t.codename PROVE v[1] = Majors[i]
  BY <1>1, <1>3 DEF MACOS_VERSIONS, Codenames, APPLE_SILICON_CODENAMES, Majors
<1> QED
  BY <1>2, <1>3 DEF macos_major

LEMMA MajorCodename ==
  ASSUME NEW t, macos_major(t) # 0
  PROVE  \E i \in 1 .. 6 : t.codename = Codenames[i]
<1>1. PICK v \in MACOS_VERSIONS : v[2] = t.codename
  BY DEF macos_major
<1>2. \E i \in {1, 2, 3, 4, 5, 6} : v[2] = Codenames[i]
  BY DEF MACOS_VERSIONS, Codenames, APPLE_SILICON_CODENAMES
<1> QED
  BY <1>1, <1>2

LEMMA CodenameOnce ==
  ASSUME NEW i \in 1 .. 6, NEW j \in 1 .. 6, Codenames[i] = Codenames[j]
  PROVE  i = j
<1>1. i \in {1, 2, 3, 4, 5, 6} /\ j \in {1, 2, 3, 4, 5, 6}
  OBVIOUS
<1> QED
  BY <1>1 DEF Codenames, APPLE_SILICON_CODENAMES

LEMMA MajorsFall ==
  /\ \A i \in 1 .. 6 : Majors[i] \in Nat \ {0}
  /\ \A i, j \in 1 .. 6 : i <= j <=> Majors[j] <= Majors[i]
<1>1. 1 .. 6 = {1, 2, 3, 4, 5, 6}
  OBVIOUS
<1> QED
  BY <1>1 DEF Majors

LEMMA HostCodename ==
  /\ \E k \in 1 .. 6 : host_tag = Tag("arm64", Codenames[k])
<1>1. PICK v \in MACOS_VERSIONS : host_tag = Tag("arm64", v[2])
  BY HostTagAssumption
<1>2. \E k \in {1, 2, 3, 4, 5, 6} : v[2] = Codenames[k]
  BY DEF MACOS_VERSIONS, Codenames, APPLE_SILICON_CODENAMES
<1> QED
  BY <1>1, <1>2

\* The host's codename and the older ones, the newest first, and then "all".
LEMMA CandidatesAre ==
  ASSUME NEW k \in 1 .. 6, host_tag = Tag("arm64", Codenames[k])
  PROVE  /\ DOMAIN Candidates = 1 .. 8 - k
         /\ \A i \in 1 .. 7 - k : Candidates[i] = Tag("arm64", Codenames[k + i - 1])
         /\ Candidates[8 - k] = All
<1> DEFINE older == [i \in 1 .. 7 - k |-> Tag("arm64", Codenames[k + i - 1])]
<1>1. host_tag.arch = "arm64" /\ host_tag.codename = Codenames[k]
  BY DEF Tag
<1>2. DOMAIN Codenames = 1 .. 6 /\ Len(Codenames) = 6
  BY DEF Codenames, APPLE_SILICON_CODENAMES
<1>3. Position(host_tag.codename) = k
  BY <1>1, <1>2, CodenameOnce DEF Position, Codenames
<1>4. Candidates = Append(older, All)
  <2>1. \E i \in DOMAIN APPLE_SILICON_CODENAMES : APPLE_SILICON_CODENAMES[i] = host_tag.codename
    BY <1>1, <1>2 DEF Codenames
  <2>2. Len(APPLE_SILICON_CODENAMES) - Position(host_tag.codename) + 1 = 7 - k
    BY <1>2, <1>3 DEF Codenames
  <2> QED
    BY <1>1, <1>3, <2>1, <2>2 DEF Candidates, bottle_candidates, Codenames
<1>5. older \in Seq({Tag("arm64", Codenames[i]) : i \in 1 .. 6} \union {All}) /\ Len(older) = 7 - k
  <2>1. \A i \in 1 .. 7 - k : k + i - 1 \in 1 .. 6
    OBVIOUS
  <2>2. 7 - k \in Nat
    OBVIOUS
  <2> QED
    BY <2>1, <2>2
<1> HIDE DEF older
<1>6. /\ DOMAIN Candidates = 1 .. 7 - k + 1
      /\ \A i \in DOMAIN older : Candidates[i] = older[i]
      /\ Candidates[7 - k + 1] = All
  BY <1>4, <1>5, AppendFacts
<1>7. DOMAIN older = 1 .. 7 - k /\ \A i \in 1 .. 7 - k : older[i] = Tag("arm64", Codenames[k + i - 1])
  BY DEF older
<1>8. 7 - k + 1 = 8 - k
  OBVIOUS
<1> QED
  BY <1>6, <1>7, <1>8

LEMMA LeastBelowEight ==
  ASSUME NEW S \in SUBSET (1 .. 7), S # {}
  PROVE  \E i \in S : \A j \in S : i <= j
<1>1. \A j \in S : j \in {1, 2, 3, 4, 5, 6, 7}
  OBVIOUS
<1>2. CASE 1 \in S
  BY <1>1, <1>2
<1>3. CASE 1 \notin S /\ 2 \in S
  BY <1>1, <1>3
<1>4. CASE 1 \notin S /\ 2 \notin S /\ 3 \in S
  BY <1>1, <1>4
<1>5. CASE 1 \notin S /\ 2 \notin S /\ 3 \notin S /\ 4 \in S
  BY <1>1, <1>5
<1>6. CASE 1 \notin S /\ 2 \notin S /\ 3 \notin S /\ 4 \notin S
  <2>1. CASE 5 \in S
    BY <1>1, <1>6, <2>1
  <2>2. CASE 5 \notin S /\ 6 \in S
    BY <1>1, <1>6, <2>2
  <2>3. CASE 5 \notin S /\ 6 \notin S
    <3> PICK i \in S : TRUE
      OBVIOUS
    <3>1. i \in 1 .. 7 /\ \A j \in S : j = 7
      BY <1>1, <1>6, <2>3
    <3> QED
      BY <3>1
  <2> QED
    BY <2>1, <2>2, <2>3
<1> QED
  BY <1>2, <1>3, <1>4, <1>5, <1>6

\* A bottle is planned only when one was selected and may be poured into this cellar.
LEMMA MethodOf ==
  ASSUME NEW found \in BOOLEAN, NEW fits \in BOOLEAN, NEW sourceless \in BOOLEAN, NEW other, other # "Bottle",
         (CASE found /\ fits -> "Bottle"
            [] found /\ ~fits /\ sourceless -> "IncompatibleCellar"
            [] ~found /\ sourceless -> "NoBottleForTag"
            [] OTHER -> other) = "Bottle"
  PROVE  found /\ fits
  OBVIOUS

LEMMA PlannedBottle ==
  ASSUME NEW f, resolve_install_method(f) = "Bottle"
  PROVE  select_bottle(f) # NoBottle /\ is_compatible(f.files[select_bottle(f)])
<1> DEFINE tag == select_bottle(f)  found == tag # NoBottle  fits == is_compatible(f.files[tag])
<1>1. build_source_plan(f) # "Bottle"
  BY DEF build_source_plan
<1>2. found \in BOOLEAN /\ (f.source = "") \in BOOLEAN
  OBVIOUS
<1>3. fits \in BOOLEAN
  BY DEF is_compatible
<1>4. (CASE found /\ fits -> "Bottle"
         [] found /\ ~fits /\ f.source = "" -> "IncompatibleCellar"
         [] ~found /\ f.source = "" -> "NoBottleForTag"
         [] OTHER -> build_source_plan(f)) = "Bottle"
  BY Zenon DEF resolve_install_method
<1> HIDE DEF found, fits
<1>5. found /\ fits
  BY <1>1, <1>2, <1>3, <1>4, MethodOf, Zenon
<1> QED
  BY <1>5 DEF found, fits

\* The first candidate with a file.
LEMMA SelectedFirst ==
  ASSUME NEW f, select_bottle(f) # NoBottle
  PROVE  \E i \in DOMAIN Candidates :
            /\ Candidates[i] = select_bottle(f) /\ Candidates[i] \in DOMAIN f.files
            /\ \A j \in DOMAIN Candidates : Candidates[j] \in DOMAIN f.files => i <= j
<1> DEFINE fits == {i \in DOMAIN Candidates : Candidates[i] \in DOMAIN f.files}
<1>1. PICK k \in 1 .. 6 : host_tag = Tag("arm64", Codenames[k])
  BY HostCodename
<1>2. DOMAIN Candidates \subseteq 1 .. 7
  BY <1>1, CandidatesAre
<1>3. fits # {}
  BY DEF select_bottle
<1>4. \E i \in fits : \A j \in fits : i <= j
  BY <1>2, <1>3, LeastBelowEight
<1> DEFINE first == CHOOSE i \in fits : \A j \in fits : i <= j
<1>5. first \in fits /\ \A j \in fits : first <= j
  BY <1>4
<1>6. select_bottle(f) = Candidates[first]
  BY <1>3 DEF select_bottle
<1> QED
  BY <1>5, <1>6

Runs(f) == {t \in DOMAIN f.files : t.arch = host_tag.arch /\ macos_major(t) \in 1 .. macos_major(host_tag)}

LEMMA SelectedFits ==
  ASSUME NEW f, DOMAIN f.files \subseteq TagSet, select_bottle(f) # NoBottle
  PROVE  /\ select_bottle(f) \in Runs(f) \union {All}
         /\ \A t \in Runs(f) : select_bottle(f) # All /\ macos_major(t) <= macos_major(select_bottle(f))
<1> DEFINE tag == select_bottle(f)
<1>1. PICK k \in 1 .. 6 : host_tag = Tag("arm64", Codenames[k])
  BY HostCodename
<1>2. /\ DOMAIN Candidates = 1 .. 8 - k
      /\ \A i \in 1 .. 7 - k : Candidates[i] = Tag("arm64", Codenames[k + i - 1])
      /\ Candidates[8 - k] = All
  BY <1>1, CandidatesAre
<1>3. PICK s \in 1 .. 8 - k :
        /\ Candidates[s] = tag /\ Candidates[s] \in DOMAIN f.files
        /\ \A j \in 1 .. 8 - k : Candidates[j] \in DOMAIN f.files => s <= j
  BY <1>2, SelectedFirst
<1>4. \A i \in 1 .. 6 : macos_major(Tag("arm64", Codenames[i])) = Majors[i]
  <2> SUFFICES ASSUME NEW i \in 1 .. 6 PROVE macos_major(Tag("arm64", Codenames[i])) = Majors[i]
    OBVIOUS
  <2>1. Tag("arm64", Codenames[i]).codename = Codenames[i]
    BY DEF Tag
  <2> QED
    BY <2>1, CodenameMajor
<1>5. macos_major(host_tag) = Majors[k] /\ host_tag.arch = "arm64"
  BY <1>1, <1>4 DEF Tag
<1>6. tag \in Runs(f) \union {All}
  <2>1. CASE s = 8 - k
    BY <2>1, <1>2, <1>3
  <2>2. CASE s # 8 - k
    <3>1. s \in 1 .. 7 - k /\ k + s - 1 \in 1 .. 6 /\ k <= k + s - 1
      BY <2>2
    <3>2. tag = Tag("arm64", Codenames[k + s - 1]) /\ tag.arch = "arm64"
      <4>1. tag = Tag("arm64", Codenames[k + s - 1])
        BY <3>1, <1>2, <1>3
      <4>2. Tag("arm64", Codenames[k + s - 1]).arch = "arm64"
        BY DEF Tag
      <4> QED
        BY <4>1, <4>2
    <3>3. macos_major(tag) = Majors[k + s - 1] /\ Majors[k + s - 1] \in Nat \ {0}
      BY <3>1, <3>2, <1>4, MajorsFall
    <3>4. Majors[k + s - 1] <= Majors[k] /\ Majors[k] \in Nat
      BY <3>1, MajorsFall
    <3> QED
      BY <3>2, <3>3, <3>4, <1>3, <1>5 DEF Runs
  <2> QED
    BY <2>1, <2>2
<1>7. ASSUME NEW t \in Runs(f) PROVE tag # All /\ macos_major(t) <= macos_major(tag)
  <2>1. t \in DOMAIN f.files /\ t.arch = "arm64" /\ macos_major(t) \in 1 .. Majors[k]
    BY <1>5 DEF Runs
  <2>2. Majors[k] \in Nat
    BY MajorsFall
  <2>3. PICK i \in 1 .. 6 : t.codename = Codenames[i]
    BY <2>1, <2>2, MajorCodename
  <2>4. t = Tag("arm64", Codenames[i])
    BY <2>1, <2>3 DEF TagSet, Tag
  <2>5. macos_major(t) = Majors[i] /\ k <= i
    BY <2>1, <2>2, <2>4, <1>4, MajorsFall
  <2>6. i - k + 1 \in 1 .. 7 - k /\ k + (i - k + 1) - 1 = i
    BY <2>5
  <2>7. Candidates[i - k + 1] = t
    BY <2>4, <2>6, <1>2
  <2>8. s <= i - k + 1
    BY <2>1, <2>6, <2>7, <1>3
  <2>9. s \in 1 .. 7 - k /\ k + s - 1 \in 1 .. 6 /\ k + s - 1 <= i
    BY <2>6, <2>8
  <2>10. tag = Tag("arm64", Codenames[k + s - 1])
    BY <2>9, <1>2, <1>3
  <2>11. macos_major(tag) = Majors[k + s - 1] /\ Majors[i] <= Majors[k + s - 1]
    BY <2>9, <2>10, <1>4, MajorsFall
  <2>12. tag # All
    <3>1. Tag("arm64", Codenames[k + s - 1]).arch = "arm64" /\ All.arch = ""
      BY DEF Tag, All
    <3> QED
      BY <2>10, <3>1, Zenon
  <2> QED
    BY <2>5, <2>11, <2>12
<1> QED
  BY <1>6, <1>7

Tagged == \A n \in DOMAIN cache : DOMAIN cache[n].files \subseteq TagSet

LEMMA FetchTagged == ASSUME TypeOK, Tagged, Fetch PROVE Tagged'
<1> PICK n \in DOMAIN catalog :
      cache' = [m \in DOMAIN cache \union {n} |-> IF m = n THEN catalog[n] ELSE cache[m]]
  BY DEF Fetch
<1>1. DOMAIN catalog[n].files \subseteq TagSet
  BY DEF TypeOK, WellFormed
<1> QED
  BY <1>1 DEF Tagged

LEMMA StepTagged == RInv /\ Tagged /\ [Next]_vars => Tagged'
<1> SUFFICES ASSUME RInv, Tagged, [Next]_vars PROVE Tagged'
  OBVIOUS
<1>1. CASE Fetch
  BY <1>1, FetchTagged DEF RInv
<1>2. CASE UNCHANGED cache
  BY <1>2 DEF Tagged
<1>3. \/ Fetch \/ UNCHANGED cache
  <2>1. CASE Update \/ FetchAgain \/ Fetched \/ Check
    BY <2>1 DEF Update, FetchAgain, Fetched, Check
  <2>2. CASE FetchFails \/ CheckFails \/ FilterFails
    BY <2>2 DEF FetchFails, CheckFails, FilterFails, Fail
  <2>3. CASE VisitDone \/ VisitCycle \/ Enter
    BY <2>3 DEF VisitDone, VisitCycle, Enter, Fail
  <2>4. CASE Leave \/ Visited \/ Filter \/ Filtered
    BY <2>4 DEF Leave, Visited, Filter, Filtered
  <2> QED
    BY <2>1, <2>2, <2>3, <2>4 DEF Next, vars
<1> QED
  BY <1>1, <1>2, <1>3

\* A planned bottle is for this macOS or an older one, the newest there is, and for this
\* cellar: the order of APPLE_SILICON_CODENAMES and the versions of MACOS_VERSIONS agree
\* (select_bottle and resolve_install_method), whatever tags an index names.
THEOREM BottlesFit == Spec => []BottleFits
<1>1. Init => Tagged
  <2>1. Init => cache = <<>>
    BY Zenon DEF Init
  <2>2. cache = <<>> => Tagged
    <3> SUFFICES ASSUME cache = <<>>, NEW n \in DOMAIN cache PROVE FALSE
      BY DEF Tagged
    <3> QED
      BY EmptyFacts
  <2> QED
    BY <2>1, <2>2, Zenon
<1>2. Tagged => BottleFits
  <2> SUFFICES ASSUME Tagged, NEW n \in DOMAIN cache, resolve_install_method(cache[n]) = "Bottle"
               PROVE  LET f == cache[n]  tag == select_bottle(f)
                          runs == {t \in DOMAIN f.files : t.arch = host_tag.arch /\ macos_major(t) \in 1 .. macos_major(host_tag)}
                      IN  /\ tag \in runs \union {All} /\ is_compatible(f.files[tag])
                          /\ \A t \in runs : tag # All /\ macos_major(t) <= macos_major(tag)
    BY DEF BottleFits
  <2>1. DOMAIN cache[n].files \subseteq TagSet
    BY DEF Tagged
  <2>2. select_bottle(cache[n]) # NoBottle /\ is_compatible(cache[n].files[select_bottle(cache[n])])
    BY PlannedBottle
  <2>3. /\ select_bottle(cache[n]) \in Runs(cache[n]) \union {All}
        /\ \A t \in Runs(cache[n]) : select_bottle(cache[n]) # All /\ macos_major(t) <= macos_major(select_bottle(cache[n]))
    BY <2>1, <2>2, SelectedFits
  <2> QED
    BY <2>2, <2>3 DEF Runs
<1>3. Spec => []Tagged
  BY <1>1, RInvHolds, StepTagged, PTL DEF Spec
<1> QED
  BY <1>2, <1>3, PTL

-----------------------------------------------------------------------------
(***************************************************************************)
(* The plan: visit enters no name that the request does not reach and      *)
(* leaves none out, and the filter divides the order into the plan and     *)
(* what is installed.                                                      *)
(***************************************************************************)
Reach == Reachable(Elements(requested))

\* Nothing is entered that the request does not come to.
Inside ==
    /\ Elements(path) \union Elements(result) \subseteq Reach
    /\ \A i \in DOMAIN todo : Elements(todo[i]) \subseteq Reach
\* A name that was asked for is done, still to visit, or the first on the path.
RequestCovered ==
    \A d \in Elements(requested) :
        state[d] = "Done" \/ d \in Elements(todo[1]) \/ (path # <<>> /\ d = path[1])
Whole == pc \in {"filter", "done"} => Elements(result) = Reach

Seen       == {result[i] : i \in 1 .. looked}
Unfiltered == pc \in {"fetch", "check", "visit"} => looked = 0 /\ plan = <<>> /\ installed = {}
Divided    == installed \subseteq Seen \ {keep} /\ Elements(plan) = Seen \ installed
InOrder    ==
    \A i, j \in DOMAIN plan : i < j =>
        \E k, l \in 1 .. looked : k < l /\ result[k] = plan[i] /\ result[l] = plan[j]
Reached    == looked <= Len(result) /\ (pc = "done" => looked = Len(result))

Walk     == Inside /\ RequestCovered /\ Whole
Filtering == Unfiltered /\ Divided /\ InOrder /\ Reached
PlanInv  == Walk /\ Filtering

LEMMA ReachIs ==
  ASSUME NEW n
  PROVE  n \in Reach <=>
           /\ n \in Names
           /\ \A R \in SUBSET Names :
                (Elements(requested) \subseteq R /\ \A m \in R \intersect DOMAIN cache : Elements(Deps(m)) \subseteq R)
                => n \in R
  BY Zenon DEF Reach, Reachable

LEMMA ReachHolds ==
  ASSUME TypeOK
  PROVE  Elements(requested) \subseteq Reach
<1>1. Elements(requested) \subseteq Names
  BY ElementsTyped DEF TypeOK
<1> QED
  BY <1>1, ReachIs

LEMMA ReachClosed ==
  ASSUME Cached, NEW n \in Reach, n \in DOMAIN cache
  PROVE  Elements(Deps(n)) \subseteq Reach
<1>1. Elements(Deps(n)) \subseteq Names
  BY DepsTyped, ElementsTyped
<1>2. ASSUME NEW R \in SUBSET Names, Elements(requested) \subseteq R,
             \A m \in R \intersect DOMAIN cache : Elements(Deps(m)) \subseteq R
      PROVE  Elements(Deps(n)) \subseteq R
  <2>1. n \in R
    BY <1>2, ReachIs
  <2> QED
    BY <1>2, <2>1
<1> QED
  BY <1>1, <1>2, ReachIs

LEMMA ReachLeast ==
  ASSUME NEW R \in SUBSET Names, Elements(requested) \subseteq R,
         \A m \in R \intersect DOMAIN cache : Elements(Deps(m)) \subseteq R
  PROVE  Reach \subseteq R
  BY ReachIs

LEMMA ReachKept ==
  ASSUME UNCHANGED <<requested, cache>>
  PROVE  Reach' = Reach
  BY DEF Reach, Reachable, Deps, Elements

LEMMA EmptyElements == Elements(<<>>) = {}
  BY EmptyFacts DEF Elements

-----------------------------------------------------------------------------
\* The states of a fetch: nothing was entered.
LEMMA UnstartedWalk ==
  ASSUME TypeOK, pc = "fetch", path = <<>>, todo = <<requested>>, result = <<>>
  PROVE  Walk
<1>1. requested \in NameSeq
  BY DEF TypeOK
<1>2. DOMAIN todo = {1} /\ todo[1] = requested
  BY <1>1, OneFacts
<1>3. Elements(requested) \subseteq Reach
  BY ReachHolds
<1>4. Inside
  BY <1>2, <1>3, EmptyElements DEF Inside
<1>5. RequestCovered
  BY <1>2 DEF RequestCovered
<1> QED
  BY <1>4, <1>5 DEF Walk, Whole

LEMMA EmptyFiltering ==
  ASSUME looked = 0, plan = <<>>, installed = {}, result \in NameSeq, pc # "done"
  PROVE  Filtering
<1>1. Seen = {} /\ Len(result) \in Nat
  BY DEF Seen, NameSeq
<1>2. Elements(plan) = {} /\ DOMAIN plan = {}
  BY EmptyElements, EmptyFacts
<1>3. Unfiltered /\ Divided /\ InOrder
  BY <1>1, <1>2 DEF Unfiltered, Divided, InOrder
<1>4. Reached
  BY <1>1 DEF Reached
<1> QED
  BY <1>3, <1>4 DEF Filtering

LEMMA InitPlanInv == Init => PlanInv
<1> SUFFICES ASSUME Init PROVE PlanInv
  OBVIOUS
<1>1. TypeOK
  BY InitRInv DEF RInv
<1>2. pc = "fetch" /\ path = <<>> /\ todo = <<requested>> /\ result = <<>> /\ looked = 0 /\ plan = <<>> /\ installed = {}
  BY Zenon DEF Init
<1>3. Walk
  BY <1>1, <1>2, UnstartedWalk
<1>4. Filtering
  BY <1>1, <1>2, EmptyFiltering DEF TypeOK
<1> QED
  BY <1>3, <1>4 DEF PlanInv

-----------------------------------------------------------------------------
(***************************************************************************)
(* The walk.                                                               *)
(***************************************************************************)
\* When the walk is over, the order is closed under dependencies and holds the request.
LEMMA OverIsWhole ==
  ASSUME RInv, Inside, RequestCovered, path = <<>>, todo[Level] = <<>>
  PROVE  Elements(result) = Reach
<1>1. Level = 1
  BY LevelIsOne, EmptyFacts DEF RInv
<1>2. Elements(requested) \subseteq Elements(result)
  <2> SUFFICES ASSUME NEW d \in Elements(requested) PROVE d \in Elements(result)
    OBVIOUS
  <2>1. state[d] = "Done"
    BY <1>1, EmptyElements DEF RequestCovered
  <2>2. d \in Names
    BY ElementsTyped DEF RInv, TypeOK
  <2> QED
    BY <2>1, <2>2 DEF RInv, Marks, DoneOrdered
<1>3. \A m \in Elements(result) \intersect DOMAIN cache : Elements(Deps(m)) \subseteq Elements(result)
  <2> SUFFICES ASSUME NEW j \in DOMAIN result, NEW k \in DOMAIN Deps(result[j])
               PROVE  Deps(result[j])[k] \in Elements(result)
    BY DEF Elements
  <2>1. PICK i \in 1 .. j - 1 : result[i] = Deps(result[j])[k]
    BY DEF RInv, InstallOrder, DepsFirst
  <2>2. DOMAIN result = 1 .. Len(result) /\ Len(result) \in Nat
    BY DEF RInv, TypeOK, NameSeq
  <2>3. i \in DOMAIN result
    BY <2>2
  <2> QED
    BY <2>1, <2>3 DEF Elements
<1>4. Elements(result) \subseteq Names
  BY ElementsTyped DEF RInv, TypeOK
<1>5. Reach \subseteq Elements(result)
  BY <1>2, <1>3, <1>4, ReachLeast
<1> QED
  BY <1>5 DEF Inside

\* A step that leaves the walk as it is; it may end it.
LEMMA WalkKept ==
  ASSUME RInv, Walk, UNCHANGED <<requested, cache, state, path, todo, result>>,
         pc' \in {"filter", "done"} => pc \in {"filter", "done"} \/ Visited
  PROVE  Walk'
<1>1. Reach' = Reach
  BY ReachKept
<1>2. Inside'
  BY <1>1 DEF Walk, Inside, Elements
<1>3. RequestCovered'
  BY DEF Walk, RequestCovered, Elements
<1>4. Whole'
  <2>1. CASE Visited
    <3>1. path = <<>> /\ todo[Level] = <<>>
      BY <2>1 DEF Visited
    <3>2. Elements(result) = Reach
      BY <3>1, OverIsWhole DEF Walk
    <3> QED
      BY <3>2, <1>1 DEF Whole, Elements
  <2>2. CASE pc \in {"filter", "done"}
    BY <2>2, <1>1 DEF Walk, Whole, Elements
  <2>3. CASE pc' \notin {"filter", "done"}
    BY <2>3 DEF Whole
  <2> QED
    BY <2>1, <2>2, <2>3
<1> QED
  BY <1>2, <1>3, <1>4 DEF Walk

LEMMA FetchWalk == ASSUME RInv, Fetch PROVE Walk'
<1>1. pc = "fetch" /\ UNCHANGED <<requested, pc, state, path, todo, result>>
  BY DEF Fetch, given, search
<1>2. path = <<>> /\ todo = <<requested>> /\ result = <<>>
  BY <1>1 DEF RInv, Unstarted
<1>3. TypeOK'
  BY FetchKeeps DEF RInv
<1>4. requested' \in NameSeq
  BY <1>3 DEF TypeOK
<1>5. DOMAIN todo' = {1} /\ todo'[1] = requested'
  BY <1>1, <1>2, <1>4, OneFacts
<1>6. Elements(requested') \subseteq Reach'
  <2>1. Elements(requested') \subseteq Names
    BY <1>4, ElementsTyped
  <2> QED
    BY <2>1, Zenon DEF Reach, Reachable, Elements
<1>7. Inside'
  BY <1>1, <1>2, <1>5, <1>6, EmptyElements DEF Inside
<1>8. RequestCovered'
  BY <1>5 DEF RequestCovered
<1>9. Whole'
  BY <1>1 DEF Whole
<1> QED
  BY <1>7, <1>8, <1>9 DEF Walk

LEMMA VisitDoneWalk == ASSUME RInv, Walk, VisitDone PROVE Walk'
<1>1. Visiting /\ pc = "visit" /\ todo' = Rest /\ state[Name] = "Done"
      /\ UNCHANGED <<requested, pc, cache, state, path, result>>
  BY DEF VisitDone, Visiting, given
<1>2. Reach' = Reach
  BY <1>1, ReachKept
<1>3. DOMAIN todo' = DOMAIN todo /\ 1 \in DOMAIN todo
  BY <1>1, RestFacts DEF RInv, TypeOK
<1>4. Inside'
  <2>1. \A i \in DOMAIN todo' : Elements(todo'[i]) \subseteq Reach
    BY <1>1, <1>3, RestOfDeps DEF Walk, Inside
  <2> QED
    BY <1>1, <1>2, <2>1 DEF Walk, Inside, Elements
<1>5. RequestCovered'
  <2> SUFFICES ASSUME NEW d \in Elements(requested)
               PROVE  state[d] = "Done" \/ d \in Elements(Rest[1]) \/ (path # <<>> /\ d = path[1])
    BY <1>1 DEF RequestCovered, Elements
  <2>1. state[d] = "Done" \/ d \in Elements(todo[1]) \/ (path # <<>> /\ d = path[1])
    BY DEF Walk, RequestCovered
  <2>2. ASSUME d \in Elements(todo[1]) PROVE d = Name \/ d \in Elements(Rest[1])
    <3>1. CASE Level = 1
      BY <3>1, <2>2, <1>1, RestFacts DEF RInv
    <3>2. CASE Level # 1
      BY <3>2, <2>2, <1>1, <1>3, RestFacts DEF RInv
    <3> QED
      BY <3>1, <3>2
  <2> QED
    BY <2>1, <2>2, <1>1
<1>6. Whole'
  BY <1>1 DEF Whole
<1> QED
  BY <1>4, <1>5, <1>6 DEF Walk

\* The name was in a list inside, and so is what it depends on.
LEMMA EnterWalk == ASSUME RInv, Walk, Enter PROVE Walk'
<1> DEFINE last == Len(path)
<1>1. Visiting /\ pc = "visit" /\ state[Name] = "None" /\ Name \in DOMAIN cache
      /\ Name \in Names /\ UNCHANGED <<requested, pc, cache, result>>
  BY EnterFacts
<1>2. /\ path' = Append(path, Name) /\ path \in Seq(Names) /\ DOMAIN path' = 1 .. last + 1 /\ last \in Nat
      /\ DOMAIN path = 1 .. last /\ path'[last + 1] = Name /\ \A i \in DOMAIN path : path'[i] = path[i]
  BY EnterFacts DEF RInv, TypeOK, NameSeq
<1>3. /\ DOMAIN todo' = 1 .. last + 2 /\ DOMAIN todo = 1 .. last + 1 /\ todo'[last + 2] = Deps(Name)
      /\ \A i \in DOMAIN todo : todo'[i] = Rest[i]
  BY EnterFacts
<1>4. \A n \in Names : n # Name => state'[n] = state[n]
  BY EnterFacts
<1>5. Reach' = Reach
  BY <1>1, ReachKept
<1>6. Level \in DOMAIN todo /\ Level = last + 1
  BY LevelIsOne DEF RInv
<1>7. Name \in Reach
  <2>1. Name \in Elements(todo[Level])
    BY <1>1, RestFacts DEF RInv
  <2> QED
    BY <2>1, <1>6 DEF Walk, Inside
<1>8. Elements(Deps(Name)) \subseteq Reach
  BY <1>1, <1>7, ReachClosed DEF RInv, FetchInv
<1>9. Inside'
  <2>1. Elements(path') = Elements(path) \union {Name}
    BY <1>1, <1>2, ElementsAppend
  <2>2. ASSUME NEW i \in DOMAIN todo' PROVE Elements(todo'[i]) \subseteq Reach
    <3>1. CASE i = last + 2
      BY <3>1, <1>3, <1>8
    <3>2. CASE i \in DOMAIN todo
      BY <3>2, <1>1, <1>3, RestOfDeps DEF Walk, Inside
    <3> QED
      BY <3>1, <3>2, <1>2, <1>3
  <2>3. Elements(result') = Elements(result)
    BY <1>1
  <2>4. (Elements(path) \union Elements(result))' \subseteq Reach
    BY <2>1, <2>3, <1>7 DEF Walk, Inside, Elements
  <2> QED
    BY <2>2, <2>4, <1>5 DEF Inside, Elements
<1>10. RequestCovered'
  <2> SUFFICES ASSUME NEW d \in Elements(requested)
               PROVE  state'[d] = "Done" \/ d \in Elements(todo'[1]) \/ (path' # <<>> /\ d = path'[1])
    BY <1>1 DEF RequestCovered, Elements
  <2>1. state[d] = "Done" \/ d \in Elements(todo[1]) \/ (path # <<>> /\ d = path[1])
    BY DEF Walk, RequestCovered
  <2>2. d \in Names /\ path' # <<>>
    <3>1. d \in Names
      BY ElementsTyped DEF RInv, TypeOK
    <3>2. 1 \in DOMAIN path'
      BY <1>2
    <3> QED
      BY <3>1, <3>2, EmptyFacts
  <2>3. CASE state[d] = "Done"
    BY <2>2, <2>3, <1>1, <1>4
  <2>4. CASE path # <<>> /\ d = path[1]
    <3>1. 1 \in DOMAIN path
      BY <2>4, <1>2, EmptyFacts
    <3> QED
      BY <2>2, <2>4, <3>1, <1>2
  <2>5. CASE d \in Elements(todo[1])
    <3>1. CASE Level = 1
      <4>1. d = Name \/ d \in Elements(Rest[1])
        BY <2>5, <3>1, <1>1, RestFacts DEF RInv
      <4> QED
        BY <2>2, <3>1, <4>1, <1>2, <1>3, <1>6
    <3>2. CASE Level # 1
      <4>1. 1 \in DOMAIN todo
        BY <1>2, <1>3
      <4>2. Rest[1] = todo[1]
        BY <3>2, <4>1, <1>1, RestFacts DEF RInv
      <4> QED
        BY <2>5, <4>1, <4>2, <1>3
    <3> QED
      BY <3>1, <3>2
  <2> QED
    BY <2>1, <2>3, <2>4, <2>5
<1>11. Whole'
  BY <1>1 DEF Whole
<1> QED
  BY <1>9, <1>10, <1>11 DEF Walk

LEMMA LeaveWalk == ASSUME RInv, Walk, Leave PROVE Walk'
<1> DEFINE last == Len(path)  name == path[last]
<1>1. /\ pc = "visit" /\ result' = Append(result, name) /\ UNCHANGED <<requested, pc, cache>>
      /\ DOMAIN path' = 1 .. last - 1 /\ \A i \in 1 .. last - 1 : path'[i] = path[i]
      /\ last \in DOMAIN path /\ DOMAIN path = 1 .. last /\ last \in Nat \ {0} /\ name \in Names
      /\ result \in Seq(Names)
  BY LeaveFacts DEF RInv, TypeOK, NameSeq
<1>2. /\ DOMAIN todo' = 1 .. last /\ \A i \in 1 .. last : todo'[i] = todo[i]
      /\ DOMAIN todo = 1 .. last + 1
  BY LeaveFacts
<1>3. state'[name] = "Done" /\ \A n \in Names : n # name => state'[n] = state[n]
  BY LeaveFacts
<1>4. Reach' = Reach
  BY <1>1, ReachKept
<1>5. Inside'
  <2>1. Elements(result') = Elements(result) \union {name} /\ name \in Elements(path)
    BY <1>1, ElementsAppend DEF Elements
  <2>2. Elements(path') \subseteq Elements(path)
    <3>1. \A i \in 1 .. last - 1 : i \in DOMAIN path
      BY <1>1
    <3> QED
      BY <3>1, <1>1 DEF Elements
  <2>3. \A i \in DOMAIN todo' : Elements(todo'[i]) \subseteq Reach
    <3>1. \A i \in 1 .. last : i \in DOMAIN todo
      BY <1>1, <1>2
    <3> QED
      BY <3>1, <1>2 DEF Walk, Inside
  <2> QED
    BY <2>1, <2>2, <2>3, <1>4 DEF Walk, Inside, Elements
<1>6. RequestCovered'
  <2> SUFFICES ASSUME NEW d \in Elements(requested)
               PROVE  state'[d] = "Done" \/ d \in Elements(todo'[1]) \/ (path' # <<>> /\ d = path'[1])
    BY <1>1 DEF RequestCovered, Elements
  <2>1. state[d] = "Done" \/ d \in Elements(todo[1]) \/ (path # <<>> /\ d = path[1])
    BY DEF Walk, RequestCovered
  <2>2. d \in Names
    BY ElementsTyped DEF RInv, TypeOK
  <2>3. CASE state[d] = "Done"
    BY <2>2, <2>3, <1>3
  <2>4. CASE d \in Elements(todo[1])
    <3>1. 1 \in 1 .. last
      BY <1>1
    <3> QED
      BY <2>4, <3>1, <1>2
  <2>5. CASE d = path[1] /\ last = 1
    BY <2>5, <1>3
  <2>6. CASE d = path[1] /\ last # 1
    <3>1. 1 \in 1 .. last - 1
      BY <2>6, <1>1
    <3> QED
      BY <2>6, <3>1, <1>1, EmptyFacts
  <2> QED
    BY <2>1, <2>3, <2>4, <2>5, <2>6
<1>7. Whole'
  BY <1>1 DEF Whole
<1> QED
  BY <1>5, <1>6, <1>7 DEF Walk

-----------------------------------------------------------------------------
(***************************************************************************)
(* The filter.                                                             *)
(***************************************************************************)
\* A step that looks at no name; it may end the filter.
LEMMA FilteringKept ==
  ASSUME Filtering, UNCHANGED <<installed, keep, result, looked, plan>>,
         pc' \in {"fetch", "check", "visit"} => pc \in {"fetch", "check", "visit"},
         pc' = "done" => pc = "done" \/ looked = Len(result)
  PROVE  Filtering'
<1>1. Seen' = Seen /\ Elements(plan)' = Elements(plan)
  BY DEF Seen, Elements
<1>2. Unfiltered' /\ Divided' /\ InOrder' /\ Reached'
  BY <1>1 DEF Filtering, Unfiltered, Divided, InOrder, Reached
<1> QED
  BY <1>2 DEF Filtering

\* A step of the walk, which may add to the order.
LEMMA FilteringEmpty ==
  ASSUME Filtering, pc = "visit", UNCHANGED <<pc, installed, keep, looked, plan>>, result' \in NameSeq
  PROVE  Filtering'
<1>1. looked' = 0 /\ plan' = <<>> /\ installed' = {} /\ pc' # "done"
  BY DEF Filtering, Unfiltered
<1>2. Seen' = {} /\ Len(result') \in Nat
  BY <1>1 DEF Seen, NameSeq
<1>3. DOMAIN plan' = {} /\ Elements(plan') = {}
  BY <1>1, EmptyFacts, EmptyElements
<1>4. Unfiltered' /\ InOrder' /\ Reached'
  BY <1>1, <1>2, <1>3 DEF Unfiltered, InOrder, Reached
<1>5. Divided'
  BY <1>1, <1>2, <1>3 DEF Divided, Elements
<1> QED
  BY <1>4, <1>5 DEF Filtering

\* The next name was not seen before, for nothing is in the order twice.
LEMMA FilterDivides == ASSUME RInv, Filtering, Filter PROVE Filtering'
<1> DEFINE n == result[looked + 1]
<1>1. pc = "filter" /\ looked < Len(result) /\ looked' = looked + 1 /\ UNCHANGED <<pc, keep, result>>
  BY DEF Filter
<1>2. \/ plan' = Append(plan, n) /\ installed' = installed
      \/ n # keep /\ installed' = installed \union {n} /\ plan' = plan
  BY Zenon DEF Filter
<1>3. looked \in Nat /\ Len(result) \in Nat /\ DOMAIN result = 1 .. Len(result) /\ plan \in Seq(Names)
  BY DEF RInv, TypeOK, NameSeq
<1>4. looked + 1 \in DOMAIN result /\ n \in Names
  BY <1>1, <1>3 DEF RInv, TypeOK, NameSeq
<1>5. Seen' = Seen \union {n}
  <2>1. 1 .. looked + 1 = 1 .. looked \union {looked + 1}
    BY <1>3
  <2> QED
    BY <2>1, <1>1 DEF Seen
<1>6. n \notin Seen
  <2> SUFFICES ASSUME NEW i \in 1 .. looked, result[i] = n PROVE FALSE
    BY DEF Seen
  <2>1. i \in DOMAIN result /\ i # looked + 1
    BY <1>1, <1>3
  <2> QED
    BY <2>1, <1>4 DEF RInv, InstallOrder, EachOnce
<1>7. Unfiltered' /\ Reached'
  BY <1>1, <1>3 DEF Unfiltered, Reached
<1>8. CASE plan' = Append(plan, n) /\ installed' = installed
  <2>1. /\ DOMAIN plan' = 1 .. Len(plan) + 1 /\ DOMAIN plan = 1 .. Len(plan) /\ Len(plan) \in Nat
        /\ \A i \in DOMAIN plan : plan'[i] = plan[i]
        /\ plan'[Len(plan) + 1] = n
    BY <1>3, <1>4, <1>8, AppendFacts
  <2>2. Elements(plan') = Elements(plan) \union {n}
    BY <1>3, <1>4, <1>8, ElementsAppend
  <2>3. Elements(plan') = (Seen \union {n}) \ installed
    BY <1>6, <2>2 DEF Filtering, Divided
  <2>4. Divided'
    BY <1>1, <1>5, <1>8, <2>3 DEF Filtering, Divided, Elements
  <2>5. InOrder'
    <3> SUFFICES ASSUME NEW i \in DOMAIN plan', NEW j \in DOMAIN plan', i < j
                 PROVE  \E k, l \in 1 .. looked + 1 : k < l /\ result[k] = plan'[i] /\ result[l] = plan'[j]
      BY <1>1 DEF InOrder
    <3>1. i \in DOMAIN plan /\ plan'[i] = plan[i]
      BY <2>1
    <3>2. CASE j \in DOMAIN plan
      <4>1. PICK k \in 1 .. looked, l \in 1 .. looked : k < l /\ result[k] = plan[i] /\ result[l] = plan[j]
        BY <3>1, <3>2 DEF Filtering, InOrder
      <4>2. k \in 1 .. looked + 1 /\ l \in 1 .. looked + 1 /\ plan'[j] = plan[j]
        BY <1>3, <2>1, <3>2
      <4> QED
        BY <3>1, <4>1, <4>2
    <3>3. CASE j \notin DOMAIN plan
      <4>1. plan'[j] = n
        BY <2>1, <3>3
      <4>2. plan[i] \in Seen
        BY <3>1 DEF Filtering, Divided, Elements
      <4>3. PICK k \in 1 .. looked : result[k] = plan[i]
        BY <4>2 DEF Seen
      <4>4. k \in 1 .. looked + 1 /\ looked + 1 \in 1 .. looked + 1 /\ k < looked + 1
        BY <1>3
      <4> QED
        BY <3>1, <4>1, <4>3, <4>4
    <3> QED
      BY <3>2, <3>3
  <2> QED
    BY <1>7, <2>4, <2>5 DEF Filtering
<1>9. CASE n # keep /\ installed' = installed \union {n} /\ plan' = plan
  <2>1. Elements(plan) = (Seen \union {n}) \ (installed \union {n})
    BY <1>6 DEF Filtering, Divided
  <2>2. Divided'
    BY <1>1, <1>5, <1>9, <2>1 DEF Filtering, Divided, Elements
  <2>3. InOrder'
    <3> SUFFICES ASSUME NEW i \in DOMAIN plan, NEW j \in DOMAIN plan, i < j
                 PROVE  \E k, l \in 1 .. looked + 1 : k < l /\ result[k] = plan[i] /\ result[l] = plan[j]
      BY <1>1, <1>9 DEF InOrder
    <3>1. PICK k \in 1 .. looked, l \in 1 .. looked : k < l /\ result[k] = plan[i] /\ result[l] = plan[j]
      BY DEF Filtering, InOrder
    <3>2. k \in 1 .. looked + 1 /\ l \in 1 .. looked + 1
      BY <1>3
    <3> QED
      BY <3>1, <3>2
  <2> QED
    BY <1>7, <2>2, <2>3 DEF Filtering
<1> QED
  BY <1>2, <1>8, <1>9

-----------------------------------------------------------------------------
\* A step of neither the walk nor the filter.
ControlStep ==
    \/ Update \/ FetchAgain \/ FetchFails \/ Fetched \/ Check \/ CheckFails
    \/ VisitCycle \/ Visited \/ FilterFails \/ Filtered \/ UNCHANGED vars

LEMMA ControlStepIs ==
  ASSUME ControlStep
  PROVE  /\ UNCHANGED <<requested, installed, keep, cache, state, path, todo, result, looked, plan>>
         /\ pc' \in {"fetch", "check", "visit"} => pc \in {"fetch", "check", "visit"}
         /\ pc' = "done" => pc = "done" \/ looked = Len(result)
         /\ pc' \in {"filter", "done"} => pc \in {"filter", "done"} \/ Visited
<1>1. CASE Update \/ FetchAgain
  BY <1>1 DEF Update, FetchAgain, given, search
<1>2. CASE Fetched \/ Check
  BY <1>2 DEF Fetched, Check, given, search
<1>3. CASE FetchFails \/ CheckFails \/ VisitCycle \/ FilterFails
  BY <1>3 DEF FetchFails, CheckFails, VisitCycle, FilterFails, Fail, given, search
<1>4. CASE Visited \/ Filtered
  BY <1>4 DEF Visited, Filtered, given, search
<1>5. CASE UNCHANGED vars
  BY <1>5 DEF vars
<1> QED
  BY <1>1, <1>2, <1>3, <1>4, <1>5 DEF ControlStep

LEMMA StepPlanInv == RInv /\ PlanInv /\ [Next]_vars => PlanInv'
<1> SUFFICES ASSUME RInv, PlanInv, [Next]_vars PROVE PlanInv'
  OBVIOUS
<1> USE DEF PlanInv
<1>1. CASE ControlStep
  BY <1>1, ControlStepIs, WalkKept, FilteringKept
<1>2. CASE Fetch
  <2>1. UNCHANGED <<pc, installed, keep, result, looked, plan>>
    BY <1>2 DEF Fetch, given, search
  <2>2. Filtering'
    BY <2>1, FilteringKept
  <2> QED
    BY <1>2, <2>2, FetchWalk
<1>3. CASE VisitDone \/ Enter \/ Leave
  <2>1. pc = "visit" /\ UNCHANGED <<pc, installed, keep, looked, plan>>
    <3>1. CASE VisitDone
      BY <3>1 DEF VisitDone, Visiting, given
    <3>2. CASE Enter
      <4>1. Visiting /\ Name \in DOMAIN cache
        BY <3>2, EnterFacts
      <4> QED
        BY <3>2, <4>1 DEF Enter, Visiting, given
    <3>3. CASE Leave
      BY <3>3 DEF Leave, given
    <3> QED
      BY <1>3, <3>1, <3>2, <3>3
  <2>2. result' \in NameSeq
    <3>1. RInv'
      BY <1>3, VisitDoneKeeps, EnterKeeps, LeaveKeeps
    <3> QED
      BY <3>1 DEF RInv, TypeOK
  <2>3. Filtering'
    BY <2>1, <2>2, FilteringEmpty
  <2> QED
    BY <1>3, <2>3, VisitDoneWalk, EnterWalk, LeaveWalk
<1>4. CASE Filter
  <2>1. UNCHANGED <<requested, pc, cache, state, path, todo, result>>
    BY <1>4 DEF Filter
  <2>2. pc' \in {"filter", "done"} => pc \in {"filter", "done"} \/ Visited
    BY <2>1
  <2>3. Walk'
    BY <2>1, <2>2, WalkKept
  <2> QED
    BY <1>4, <2>3, FilterDivides
<1> QED
  BY <1>1, <1>2, <1>3, <1>4 DEF Next, ControlStep

\* The plan of a request is all that it needs and is not installed, and nothing else, in the
\* order of visit; an upgrade keeps its own formula (resolve_install_order and
\* filter_pending_formulae of core/src/orchestrate/planning.rs).
THEOREM PlanComplete == Spec => []PlanIsComplete
<1>1. RInv /\ PlanInv => PlanIsComplete
  <2> SUFFICES ASSUME RInv, PlanInv, pc = "done"
               PROVE  /\ Elements(plan) = Reachable(Elements(requested)) \ (installed \ {keep})
                      /\ \A i, j \in DOMAIN plan : i < j =>
                            \E k, l \in DOMAIN result : k < l /\ result[k] = plan[i] /\ result[l] = plan[j]
    BY DEF PlanIsComplete
  <2>1. looked = Len(result) /\ DOMAIN result = 1 .. Len(result)
    BY DEF PlanInv, Filtering, Reached, RInv, TypeOK, NameSeq
  <2>2. Seen = Elements(result) /\ Elements(result) = Reach
    BY <2>1 DEF Seen, Elements, PlanInv, Walk, Whole
  <2>3. installed \ {keep} = installed
    BY DEF PlanInv, Filtering, Divided
  <2>4. Elements(plan) = Reach \ (installed \ {keep})
    BY <2>2, <2>3 DEF PlanInv, Filtering, Divided
  <2>5. InOrder
    BY DEF PlanInv, Filtering
  <2> QED
    BY <2>1, <2>4, <2>5 DEF InOrder, Reach
<1>2. Spec => []PlanInv
  BY InitPlanInv, RInvHolds, StepPlanInv, PTL DEF Spec
<1> QED
  BY <1>1, <1>2, RInvHolds, PTL
=============================================================================
