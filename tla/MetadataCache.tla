---------------------------- MODULE MetadataCache ----------------------------
(***************************************************************************)
(* The formula index: what upstream publishes, the local SQLite copy, and  *)
(* the commands of several bd processes that refresh it or answer from it  *)
(* (formula/src/api, update, ensure_fresh_cache and resolve_formula of     *)
(* core/src/orchestrate.rs, core/src/orchestrate/query.rs).  None of them  *)
(* takes the operation lock.  An index is its number upstream; its ETag is *)
(* that number.                                                            *)
(***************************************************************************)
EXTENDS Naturals, FiniteSets

CONSTANTS
    Procs,       \* processes of bd
    Commands,    \* what they run, of update, search, outdated, plan and doctor
    Names,       \* names of formulae
    Listed,      \* per index the names in it
    Last,        \* bound: the last index upstream publishes
    MaxTime,     \* bound: the last tick of the clock
    MaxAge,      \* CACHE_MAX_AGE_SECS, in ticks
    DoctorAge,   \* the 24 hours of doctor, in ticks
    Faults,      \* what may go wrong: "load", "network", "save", "crash"
    NoFile,      \* the database does not exist
    Bare,        \* there is a file without tables
    Unreadable,  \* a read of the database failed
    NoEtag

ASSUME CacheAssumption ==
    /\ Last \in Nat /\ MaxTime \in Nat /\ MaxAge \in Nat /\ DoctorAge \in Nat
    /\ Listed \in [0 .. Last -> SUBSET Names] /\ IsFiniteSet(Names) /\ NoEtag \notin 0 .. Last
    /\ Commands \subseteq {"update", "search", "outdated", "plan", "doctor"}

VARIABLES
    now,        \* the clock
    upstream,   \* the index upstream serves
    until,      \* history: when an index was replaced by the next
    db,         \* the local database: NoFile, Bare or an index with its metadata
    pc, command, \* per process what it does
    etag,       \* the ETag it has loaded
    answer,     \* the index it has downloaded, with its ETag
    left,       \* the names it still has to resolve
    read,       \* what it has found: names with the index they are from
    outcome,    \* how its command ended
    checked,    \* history: when it began to answer
    wanted      \* history: what upstream served at its last request

world == <<now, upstream, until>>
mine  == <<command, etag, answer, left, read, outcome, checked, wanted>>
vars  == <<now, upstream, until, db, pc, command, etag, answer, left, read, outcome, checked, wanted>>

Versions == 0 .. Last
Index    == [version : Versions, etag : Versions \union {NoEtag}, fetched_at : 0 .. MaxTime, count : Nat]
Answer   == [version : Versions, etag : Versions \union {NoEtag}]
Saved    == db \notin {NoFile, Bare}

ASSUME NoIndexAssumption == \A other \in {NoFile, Bare, Unreadable} : other \notin Index

----------------------------------------------------------------------------
Init ==
    /\ now = 0 /\ upstream = 0 /\ until = [v \in Versions |-> 0] /\ db = NoFile
    /\ pc = [p \in Procs |-> "idle"] /\ command = [p \in Procs |-> "update"]
    /\ etag = [p \in Procs |-> NoEtag] /\ answer = [p \in Procs |-> NoFile]
    /\ left = [p \in Procs |-> {}] /\ read = [p \in Procs |-> {}] /\ outcome = [p \in Procs |-> "running"]
    /\ checked = [p \in Procs |-> 0] /\ wanted = [p \in Procs |-> 0]

\* A fetch and the save of what it brought take less than a tick.
Tick ==
    /\ now < MaxTime /\ \A p \in Procs : pc[p] # "save"
    /\ now' = now + 1
    /\ UNCHANGED <<upstream, until, db, pc, mine>>

Publish ==
    /\ upstream < Last
    /\ upstream' = upstream + 1 /\ until' = [until EXCEPT ![upstream] = now]
    /\ UNCHANGED <<now, db, pc, mine>>

\* The kegs outdated looks at and the names of a plan are any.
Start(p, c, names) ==
    /\ pc[p] \in {"idle", "done"}
    /\ names # {} => c \in {"outdated", "plan"}
    /\ pc' = [pc EXCEPT ![p] = CASE c = "update" -> "load" [] c \in {"search", "outdated"} -> "ensure"
                                 [] c = "plan" -> "resolve" [] c = "doctor" -> "doctor"]
    /\ command' = [command EXCEPT ![p] = c] /\ left' = [left EXCEPT ![p] = names]
    /\ read' = [read EXCEPT ![p] = {}] /\ outcome' = [outcome EXCEPT ![p] = "running"]
    /\ checked' = [checked EXCEPT ![p] = now]
    /\ etag' = [etag EXCEPT ![p] = NoEtag] /\ answer' = [answer EXCEPT ![p] = NoFile]
    /\ wanted' = [wanted EXCEPT ![p] = 0]
    /\ UNCHANGED <<world, db>>

Done(p, how) == pc' = [pc EXCEPT ![p] = "done"] /\ outcome' = [outcome EXCEPT ![p] = how]

\* load_metadata: a missing file is no metadata, a file without tables an error.
Loads == (IF db = Bare THEN {Unreadable} ELSE {db}) \union (IF "load" \in Faults THEN {Unreadable} ELSE {})
Known(m) == m \notin {NoFile, Bare, Unreadable}

\* Mutant: an index that is there is good enough.
needs_refreshEmpty(m) == ~Known(m) \/ m.count = 0

needs_refresh(m) == ~Known(m) \/ m.count = 0 \/ now > m.fetched_at + MaxAge

Answers(p) == IF command[p] = "search" THEN "read" ELSE "resolve"

ensure_fresh_cache(p) ==
    /\ pc[p] = "ensure"
    /\ \E m \in Loads :
          pc' = [pc EXCEPT ![p] = IF needs_refresh(m) THEN "load" ELSE Answers(p)]
    /\ checked' = [checked EXCEPT ![p] = now]
    /\ UNCHANGED <<world, db, command, etag, answer, left, read, outcome, wanted>>

existing_etag(m) == IF Known(m) /\ m.count > 0 THEN m.etag ELSE NoEtag

Load(p) ==
    /\ pc[p] = "load"
    /\ \E m \in Loads : etag' = [etag EXCEPT ![p] = existing_etag(m)]
    /\ pc' = [pc EXCEPT ![p] = "request"]
    /\ UNCHANGED <<world, db, command, answer, left, read, outcome, checked, wanted>>

\* update is done: bd update ends, the others go on to answer.
Updated(p) ==
    IF command[p] = "update"
    THEN Done(p, "ok")
    ELSE pc' = [pc EXCEPT ![p] = Answers(p)] /\ UNCHANGED outcome

\* 304: nothing is saved, fetched_at included.
NotModified(p) ==
    /\ pc[p] = "request" /\ etag[p] = upstream
    /\ Updated(p)
    /\ wanted' = [wanted EXCEPT ![p] = upstream]
    /\ UNCHANGED <<world, db, command, etag, answer, left, read, checked>>

\* The server may leave out the ETag.
Modified(p) ==
    /\ pc[p] = "request" /\ etag[p] # upstream
    /\ \E e \in {upstream, NoEtag} : answer' = [answer EXCEPT ![p] = [version |-> upstream, etag |-> e]]
    /\ wanted' = [wanted EXCEPT ![p] = upstream]
    /\ pc' = [pc EXCEPT ![p] = "save"]
    /\ UNCHANGED <<world, db, command, etag, left, read, outcome, checked>>

RequestFails(p) ==
    /\ "network" \in Faults /\ pc[p] = "request"
    /\ Done(p, "failed")
    /\ UNCHANGED <<world, db, command, etag, answer, left, read, checked, wanted>>

\* Mutant: the metadata are committed before the formulae.
persist_in_two(p) ==
    /\ pc[p] = "save"
    /\ \/ /\ db' = [version |-> answer[p].version, etag |-> answer[p].etag, fetched_at |-> now,
                    count |-> Cardinality(Listed[answer[p].version])]
          /\ Updated(p)
       \/ /\ "crash" \in Faults /\ Saved
          /\ db' = [db EXCEPT !.etag = answer[p].etag, !.fetched_at = now]
          /\ Done(p, "crashed")
    /\ UNCHANGED <<world, command, etag, answer, left, read, checked, wanted>>

\* One transaction replaces the formulae and the metadata.
persist_formula_index(p) ==
    /\ pc[p] = "save"
    /\ db' = [version |-> answer[p].version, etag |-> answer[p].etag, fetched_at |-> now,
              count |-> Cardinality(Listed[answer[p].version])]
    /\ Updated(p)
    /\ UNCHANGED <<world, command, etag, answer, left, read, checked, wanted>>

\* Mutant: the error of the save is dropped.
persist_fails_silently(p) ==
    /\ "save" \in Faults /\ pc[p] = "save"
    /\ db' \in IF db = NoFile THEN {NoFile, Bare} ELSE {db}
    /\ Updated(p)
    /\ UNCHANGED <<world, command, etag, answer, left, read, checked, wanted>>

\* The file may have been made before the error.
persist_fails(p) ==
    /\ "save" \in Faults /\ pc[p] = "save"
    /\ db' \in IF db = NoFile THEN {NoFile, Bare} ELSE {db}
    /\ Done(p, "failed")
    /\ UNCHANGED <<world, command, etag, answer, left, read, checked, wanted>>

Crash(p) ==
    /\ "crash" \in Faults /\ pc[p] \notin {"idle", "done"}
    /\ db' \in IF pc[p] = "save" /\ db = NoFile THEN {NoFile, Bare} ELSE {db}
    /\ Done(p, "crashed")
    /\ UNCHANGED <<world, command, etag, answer, left, read, checked, wanted>>

----------------------------------------------------------------------------
Found(p, names, v) == read' = [read EXCEPT ![p] = @ \union [name : names, version : {v}]]

search_cached_formulae(p) ==
    /\ pc[p] = "read"
    /\ \/ Saved /\ Found(p, Listed[db.version], db.version) /\ Done(p, "ok")
       \/ db = NoFile /\ Done(p, "ok") /\ UNCHANGED read
       \/ (db = Bare \/ "load" \in Faults) /\ Done(p, "failed") /\ UNCHANGED read
    /\ UNCHANGED <<world, db, command, etag, answer, left, checked, wanted>>

Cached(n) == Saved /\ n \in Listed[db.version]
Misses(n) == ~Cached(n) \/ "load" \in Faults

\* The database first; the network when the name is not there or the read fails.
resolve_formula(p, n) ==
    /\ pc[p] = "resolve" /\ n \in left[p]
    /\ \/ Cached(n) /\ Found(p, {n}, db.version)
       \/ Misses(n) /\ n \in Listed[upstream] /\ Found(p, {n}, upstream)
    /\ left' = [left EXCEPT ![p] = @ \ {n}]
    /\ UNCHANGED <<world, db, pc, command, etag, answer, outcome, checked, wanted>>

\* outdated skips a keg it cannot resolve, a plan fails.
resolve_fails(p, n) ==
    /\ pc[p] = "resolve" /\ n \in left[p] /\ Misses(n)
    /\ n \notin Listed[upstream] \/ "network" \in Faults
    /\ IF command[p] = "outdated"
       THEN left' = [left EXCEPT ![p] = @ \ {n}] /\ UNCHANGED <<pc, outcome>>
       ELSE Done(p, "failed") /\ UNCHANGED left
    /\ UNCHANGED <<world, db, command, etag, answer, read, checked, wanted>>

Resolved(p) ==
    /\ pc[p] = "resolve" /\ left[p] = {}
    /\ Done(p, "ok")
    /\ UNCHANGED <<world, db, command, etag, answer, left, read, checked, wanted>>

\* Reports "old" with the advice to run bd update; what it calls good counts as read.
doctor(p) ==
    /\ pc[p] = "doctor"
    /\ \E m \in Loads :
         LET old == now > m.fetched_at + DoctorAge IN
         \/ m = NoFile /\ Done(p, "none") /\ UNCHANGED read
         \/ m \in {Bare, Unreadable} /\ Done(p, "unreadable") /\ UNCHANGED read
         \/ Known(m) /\ old /\ Done(p, "old") /\ UNCHANGED read
         \/ Known(m) /\ ~old /\ Done(p, "ok") /\ Found(p, Names, m.version)
    /\ UNCHANGED <<world, db, command, etag, answer, left, checked, wanted>>

Run(p) ==
    \/ ensure_fresh_cache(p) \/ Load(p) \/ NotModified(p) \/ Modified(p) \/ RequestFails(p)
    \/ persist_formula_index(p) \/ persist_fails(p) \/ search_cached_formulae(p)
    \/ \E n \in Names : resolve_formula(p, n) \/ resolve_fails(p, n)
    \/ Resolved(p) \/ doctor(p)

Next ==
    \/ Tick \/ Publish
    \/ \E p \in Procs : Run(p) \/ Crash(p) \/ \E c \in Commands, names \in SUBSET Names : Start(p, c, names)

Spec == Init /\ [][Next]_vars /\ \A p \in Procs : WF_vars(Run(p))

----------------------------------------------------------------------------
(***************************************************************************)
(* Properties.                                                             *)
(***************************************************************************)
\* Index v was still served some ticks before time t.
ServedWithin(age, v, t) == v = upstream \/ until[v] + age >= t

\* search and outdated answer from an index, and doctor approves of one, that upstream served
\* at most so long before they began, whatever other processes save meanwhile.
ReadIsFresh ==
    \A p \in Procs : \A r \in read[p] :
        /\ command[p] \in {"search", "outdated"} => ServedWithin(MaxAge, r.version, checked[p])
        /\ command[p] = "doctor" => ServedWithin(DoctorAge, r.version, checked[p])

Succeeds(p) == pc[p] = "done" /\ command[p] = "update" /\ outcome[p] = "ok"

\* A bd update that succeeds leaves the index that upstream served when it asked, if no other
\* process ever ran: of two updates at once the older answer may be saved last.
UpdateBrings ==
    \A p \in Procs :
        Succeeds(p) /\ (\A q \in Procs \ {p} : pc[q] = "idle") => Saved /\ db.version = wanted[p]

\* Where some process runs bd update again and again and succeeds, the local index ends up
\* as the last one, whatever fails, crashes or is saved by others in between.
Retries(p)  == pc[p] = "load" /\ command[p] = "update"
CatchesUp ==
    \A p \in Procs : []<>Succeeds(p) /\ []<>Retries(p) => <>[](Saved /\ db.version = upstream)
=============================================================================
