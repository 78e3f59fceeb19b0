---------------------------- MODULE ResolveOrder ----------------------------
(***************************************************************************)
(* From the names of a request to the formulae to install, in order:       *)
(* fetch_with_deps collects them from an index that another process may    *)
(* replace meanwhile (in what order is left open), check_cache_supportability *)
(* looks at each, resolve_install_order walks them depth first,            *)
(* filter_pending_formulae drops what is installed.  The recursion of visit *)
(* is a stack of the dependencies still to visit.                          *)
(***************************************************************************)
EXTENDS InstallMethod

CONSTANTS
    Names,      \* the names of formulae
    Catalogs,   \* the indexes: names |-> formulae
    Replacements, \* the indexes another process may put in its place
    Requests,   \* the sequences of names asked for
    NoName,     \* the request is no upgrade
    MaxUpdates  \* bound: how often the index is replaced

WellFormed(c) ==
    /\ DOMAIN c \subseteq Names
    /\ \A n \in DOMAIN c : /\ c[n].dependencies \in Seq(Names) /\ c[n].build_dependencies \in Seq(Names)
                          /\ DOMAIN c[n].files \subseteq TagSet

ASSUME CatalogAssumption == \A c \in Catalogs \union Replacements : WellFormed(c)
ASSUME RequestAssumption == Requests \subseteq Seq(Names) /\ MaxUpdates \in Nat

VARIABLES
    catalog,    \* the index (and the network behind it)
    requested,  \* the names asked for
    installed,  \* the names found installed so far
    keep,       \* the name an upgrade reinstalls, or NoName
    updates,    \* how often the index was replaced
    pc,         \* "fetch", "check", "visit", "filter", "done" or "failed"
    queue,      \* the names to fetch
    cache,      \* what was fetched: names |-> formulae
    state,      \* the marks of visit
    path,       \* the names being visited, outermost first
    todo,       \* for the request and each name in path, what is left to visit
    result,     \* the order so far
    looked,     \* how many names of the order were looked at
    plan,       \* what of them is to install
    cycle,      \* the cycle of an error
    error       \* the error, or ""

given  == <<requested, installed, keep>>
search == <<state, path, todo, result, looked, plan>>
vars   == <<catalog, requested, installed, keep, updates, pc, queue, cache, state, path, todo, result, looked, plan,
            cycle, error>>

Elements(s) == {s[i] : i \in DOMAIN s}
Popped(s)   == SubSeq(s, 1, Len(s) - 1)
Deps(n) == plan_dependencies(cache[n])

----------------------------------------------------------------------------
Init ==
    /\ catalog \in Catalogs /\ requested \in Requests /\ installed = {}
    /\ keep \in {NoName} \union {requested[i] : i \in DOMAIN requested} /\ (keep = NoName \/ Len(requested) = 1)
    /\ updates = 0 /\ pc = "fetch" /\ queue = Elements(requested) /\ cache = <<>>
    /\ state = [n \in Names |-> "None"] /\ path = <<>> /\ todo = <<requested>> /\ result = <<>> /\ looked = 0 /\ plan = <<>>
    /\ cycle = <<>> /\ error = ""

Fail(reason) ==
    /\ pc' = "failed" /\ error' = reason
    /\ UNCHANGED <<catalog, given, updates, queue, cache, search>>

\* bd update in another process.
Update ==
    /\ updates < MaxUpdates /\ pc = "fetch"
    /\ catalog' \in Replacements \ {catalog} /\ updates' = updates + 1
    /\ UNCHANGED <<given, pc, queue, cache, search, cycle, error>>

FetchAgain ==
    /\ pc = "fetch"
    /\ \E n \in queue \intersect DOMAIN cache : queue' = queue \ {n}
    /\ UNCHANGED <<catalog, given, updates, pc, cache, search, cycle, error>>

\* Mutant: build dependencies are not fetched.
FetchRuntime ==
    /\ pc = "fetch"
    /\ \E n \in (queue \intersect DOMAIN catalog) \ DOMAIN cache :
       LET f == catalog[n] IN
       /\ Installable(f)
       /\ queue' = (queue \ {n}) \union (Elements(f.dependencies) \ DOMAIN cache)
       /\ cache' = [m \in DOMAIN cache \union {n} |-> IF m = n THEN f ELSE cache[m]]
    /\ UNCHANGED <<catalog, given, updates, pc, search, cycle, error>>

\* The formula itself is not in the cache yet when its dependencies are looked at.
Fetch ==
    /\ pc = "fetch"
    /\ \E n \in (queue \intersect DOMAIN catalog) \ DOMAIN cache :
       LET f == catalog[n] IN
       /\ Installable(f)
       /\ queue' = (queue \ {n}) \union (Elements(plan_dependencies(f)) \ DOMAIN cache)
       /\ cache' = [m \in DOMAIN cache \union {n} |-> IF m = n THEN f ELSE cache[m]]
    /\ UNCHANGED <<catalog, given, updates, pc, search, cycle, error>>

FetchFails ==
    /\ pc = "fetch"
    /\ UNCHANGED cycle
    /\ \E n \in queue \ DOMAIN cache :
          \/ n \notin DOMAIN catalog /\ Fail("NotFound")
          \/ n \in DOMAIN catalog /\ ~Installable(catalog[n]) /\ Fail("Unsupported")

Fetched ==
    /\ pc = "fetch" /\ queue = {}
    /\ pc' = "check"
    /\ UNCHANGED <<catalog, given, updates, queue, cache, search, cycle, error>>

Check ==
    /\ pc = "check" /\ \A n \in DOMAIN cache : check_supportability(cache[n]) = Supported
    /\ pc' = "visit"
    /\ UNCHANGED <<catalog, given, updates, queue, cache, search, cycle, error>>

CheckFails ==
    /\ pc = "check" /\ \E n \in DOMAIN cache : check_supportability(cache[n]) # Supported
    /\ UNCHANGED cycle
    /\ Fail("Unsupported")

Level   == Len(todo)
Visiting == pc = "visit" /\ todo[Level] # <<>>
Name     == Head(todo[Level])
\* The calls left once visit has been called for Name.
Rest     == [todo EXCEPT ![Level] = Tail(@)]

VisitDone ==
    /\ Visiting /\ state[Name] = "Done"
    /\ todo' = Rest
    /\ UNCHANGED <<catalog, given, updates, pc, queue, cache, state, path, result, looked, plan, cycle, error>>

\* Mutant: the whole path is reported.
VisitCyclePath ==
    /\ Visiting /\ state[Name] = "InProgress"
    /\ cycle' = Append(path, Name)
    /\ Fail("Cyclic")

\* The part of the path from Name on, and Name again.
VisitCycle ==
    /\ Visiting /\ state[Name] = "InProgress"
    /\ LET start == CHOOSE i \in DOMAIN path : path[i] = Name
       IN  cycle' = Append(SubSeq(path, start, Len(path)), Name)
    /\ Fail("Cyclic")

\* Mutant: a name is in the order before what it depends on.
EnterFirst ==
    /\ Visiting /\ state[Name] = "None" /\ Name \in DOMAIN cache
    /\ state' = [state EXCEPT ![Name] = "Done"]
    /\ path' = path /\ todo' = [Rest EXCEPT ![Level] = @ \o Deps(Name)]
    /\ result' = Append(result, Name)
    /\ UNCHANGED <<catalog, given, updates, pc, queue, cache, looked, plan, cycle, error>>

\* Mutant: a mark of the path is not set.
EnterUnmarked ==
    /\ Visiting /\ state[Name] = "None" /\ Name \in DOMAIN cache
    /\ Len(path) <= Cardinality(Names)
    /\ path' = Append(path, Name) /\ todo' = Append(Rest, Deps(Name))
    /\ UNCHANGED <<catalog, given, updates, pc, queue, cache, state, result, looked, plan, cycle, error>>

\* visit of a name without a mark; the cache holds every formula that is reachable.
Enter ==
    /\ Visiting /\ state[Name] = "None"
    /\ IF Name \in DOMAIN cache
       THEN /\ state' = [state EXCEPT ![Name] = "InProgress"]
            /\ path' = Append(path, Name) /\ todo' = Append(Rest, Deps(Name))
            /\ UNCHANGED <<catalog, given, updates, pc, queue, cache, result, looked, plan, cycle, error>>
       ELSE Fail("Missing") /\ UNCHANGED cycle

Leave ==
    /\ pc = "visit" /\ todo[Level] = <<>> /\ path # <<>>
    /\ LET name == path[Len(path)] IN
       /\ state' = [state EXCEPT ![name] = "Done"]
       /\ result' = Append(result, name)
    /\ path' = Popped(path) /\ todo' = Popped(todo)
    /\ UNCHANGED <<catalog, given, updates, pc, queue, cache, looked, plan, cycle, error>>

Visited ==
    /\ pc = "visit" /\ todo[Level] = <<>> /\ path = <<>>
    /\ pc' = "filter"
    /\ UNCHANGED <<catalog, given, updates, queue, cache, search, cycle, error>>

\* Mutant: the formula to upgrade is dropped with what is installed.
FilterInstalled ==
    /\ pc = "filter" /\ looked < Len(result)
    /\ LET n == result[looked + 1] IN
       \/ plan' = Append(plan, n) /\ UNCHANGED installed
       \/ installed' = installed \union {n} /\ UNCHANGED plan
    /\ looked' = looked + 1
    /\ UNCHANGED <<catalog, requested, keep, updates, pc, queue, cache, state, path, todo, result, cycle, error>>

\* filter_pending_formulae at its next name, which is kept or not found installed, or is
\* dropped; an upgrade keeps its formula and does not look for it.
Filter ==
    /\ pc = "filter" /\ looked < Len(result)
    /\ LET n == result[looked + 1] IN
       \/ plan' = Append(plan, n) /\ UNCHANGED installed
       \/ n # keep /\ installed' = installed \union {n} /\ UNCHANGED plan
    /\ looked' = looked + 1
    /\ UNCHANGED <<catalog, requested, keep, updates, pc, queue, cache, state, path, todo, result, cycle, error>>

\* The receipt of the next name does not parse.
FilterFails ==
    /\ pc = "filter" /\ looked < Len(result) /\ result[looked + 1] # keep
    /\ UNCHANGED cycle
    /\ Fail("Unreadable")

Filtered ==
    /\ pc = "filter" /\ looked = Len(result)
    /\ pc' = "done"
    /\ UNCHANGED <<catalog, given, updates, queue, cache, search, cycle, error>>

Next ==
    \/ Update \/ FetchAgain \/ Fetch \/ FetchFails \/ Fetched \/ Check \/ CheckFails
    \/ VisitDone \/ VisitCycle \/ Enter \/ Leave \/ Visited
    \/ Filter \/ FilterFails \/ Filtered

Spec == Init /\ [][Next]_vars /\ WF_vars(Next)

----------------------------------------------------------------------------
(***************************************************************************)
(* Properties.                                                             *)
(***************************************************************************)
NameSeq == Seq(Names)

\* Every variable has its type, and there is one list of names left for each name in path.
TypeOK ==
    /\ WellFormed(catalog) /\ requested \in NameSeq /\ installed \subseteq Names
    /\ updates \in 0 .. MaxUpdates
    /\ pc \in {"fetch", "check", "visit", "filter", "done", "failed"}
    /\ queue \subseteq Names /\ DOMAIN cache \subseteq Names
    /\ state \in [Names -> {"None", "InProgress", "Done"}]
    /\ path \in NameSeq /\ todo \in Seq(NameSeq) /\ Len(todo) = Len(path) + 1
    /\ result \in NameSeq /\ looked \in Nat /\ plan \in NameSeq /\ cycle \in NameSeq

\* What a formula needs, build dependencies of a source build included, stands before it.
DepsFirst ==
    \A j \in DOMAIN result : \A k \in DOMAIN Deps(result[j]) :
        \E i \in 1 .. j - 1 : result[i] = Deps(result[j])[k]

\* Nothing is installed twice.
EachOnce == \A i, j \in DOMAIN result : result[i] = result[j] => i = j

\* Dependencies first: the order of visit is a topological order of the graph, without repeats.
InstallOrder == DepsFirst /\ EachOnce

\* The walk never meets a name that was not fetched, even when the index is replaced meanwhile.
NeverMissing == error # "Missing"

\* A cycle that is reported is one: each name needs the next, and the last is the first.
CycleIsReal ==
    error = "Cyclic" =>
        /\ Len(cycle) > 1 /\ cycle[1] = cycle[Len(cycle)]
        /\ \A i \in 1 .. Len(cycle) - 1 : \E k \in DOMAIN Deps(cycle[i]) : Deps(cycle[i])[k] = cycle[i + 1]

\* What a request comes to: the least set that holds it and is closed in the cache.
Reachable(S) ==
    LET closed == {R \in SUBSET Names : /\ S \subseteq R
                                        /\ \A n \in R \intersect DOMAIN cache : Elements(Deps(n)) \subseteq R}
    IN  {n \in Names : \A R \in closed : n \in R}

\* The plan is what the request needs and is not installed, in the order found, and nothing
\* else; an upgrade keeps its formula.
PlanIsComplete ==
    pc = "done" =>
        /\ Elements(plan) = Reachable(Elements(requested)) \ (installed \ {keep})
        /\ \A i, j \in DOMAIN plan : i < j =>
              \E k, l \in DOMAIN result : k < l /\ result[k] = plan[i] /\ result[l] = plan[j]

\* Every request is decided.
Terminates == <>(pc \in {"done", "failed"})

\* A planned bottle was built for this macOS or an older one, for the newest of them
\* that there is, and may be poured into this cellar.
BottleFits ==
    pc = "done" => \A n \in DOMAIN cache :
        resolve_install_method(cache[n]) = "Bottle" =>
            LET f == cache[n]  tag == select_bottle(f)
                runs == {t \in DOMAIN f.files : t.arch = host_tag.arch /\ macos_major(t) \in 1 .. macos_major(host_tag)}
            IN  /\ tag \in runs \union {All} /\ is_compatible(f.files[tag])
                /\ \A t \in runs : tag # All /\ macos_major(t) <= macos_major(tag)
=============================================================================
