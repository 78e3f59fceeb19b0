------------------------ MODULE MetadataCache_proofs ------------------------
(***************************************************************************)
(* For any number of processes, indexes and ticks: what search, outdated   *)
(* and doctor call current was served by upstream within their limit, and  *)
(* a bd update that runs alone leaves what it asked for.  The argument: an *)
(* index in the database was still served when it was saved, so its age is *)
(* a bound on how long it is out of date, and a save by another process    *)
(* can only put one there that was served after a reader began.            *)
(***************************************************************************)
EXTENDS MetadataCache, FiniteSetTheorems, TLAPS

Pcs      == {"idle", "ensure", "load", "request", "save", "read", "resolve", "doctor", "done"}
Outcomes == {"running", "ok", "failed", "none", "unreadable", "old", "crashed"}
Hit      == [name : Names, version : Versions]

Typed ==
    /\ now \in 0 .. MaxTime /\ upstream \in Versions /\ until \in [Versions -> 0 .. MaxTime]
    /\ db \in {NoFile, Bare} \union Index
    /\ pc \in [Procs -> Pcs] /\ outcome \in [Procs -> Outcomes]
    /\ command \in [Procs -> {"update", "search", "outdated", "plan", "doctor"}]
    /\ etag \in [Procs -> Versions \union {NoEtag}]
    /\ answer \in [Procs -> {NoFile} \union Answer]
    /\ read \in [Procs -> SUBSET Hit]
    /\ checked \in [Procs -> 0 .. MaxTime] /\ wanted \in [Procs -> Versions]

\* What is saved was served when it was saved.
DbInv ==
    Saved => /\ db.etag \in {db.version, NoEtag} /\ db.fetched_at <= now
             /\ ServedWithin(0, db.version, db.fetched_at)

\* Each command keeps to its own steps.
Roles(p) ==
    /\ command[p] = "doctor" => pc[p] \in {"idle", "doctor", "done"}
    /\ command[p] = "update" => pc[p] \in {"idle", "load", "request", "save", "done"}
    /\ pc[p] = "doctor" => command[p] = "doctor"

\* What is about to be saved is still served in this tick.
Downloaded(p) ==
    pc[p] = "save" =>
        /\ answer[p] \in Answer /\ answer[p].etag \in {answer[p].version, NoEtag}
        /\ answer[p].version = wanted[p] /\ ServedWithin(0, answer[p].version, now)

\* While it waits for a 304 the database is what its ETag names, or newer than its start.
Requested(p) ==
    pc[p] = "request" /\ etag[p] # NoEtag /\ Saved =>
        db.version = etag[p] \/ ServedWithin(0, db.version, checked[p])

Answering(p)  == pc[p] \in {"read", "resolve"} /\ command[p] \in {"search", "outdated"}
Answerable(p) == Answering(p) /\ Saved => ServedWithin(MaxAge, db.version, checked[p])

FreshBy(p) ==
    \A r \in read[p] :
        /\ command[p] \in {"search", "outdated"} => ServedWithin(MaxAge, r.version, checked[p])
        /\ command[p] = "doctor" => ServedWithin(DoctorAge, r.version, checked[p])

\* Without others the database stays what the ETag was read from.
Alone(p)  == \A q \in Procs \ {p} : pc[q] = "idle"
Brings(p) ==
    Alone(p) =>
        /\ pc[p] = "request" /\ etag[p] # NoEtag => Saved /\ db.version = etag[p]
        /\ Succeeds(p) => Saved /\ db.version = wanted[p]

Local(p) ==
    /\ checked[p] <= now /\ (pc[p] = "ensure" => read[p] = {}) /\ Roles(p)
    /\ Downloaded(p) /\ Requested(p) /\ Answerable(p) /\ FreshBy(p) /\ Brings(p)

CInv == Typed /\ DbInv /\ \A p \in Procs : Local(p)

-----------------------------------------------------------------------------
(***************************************************************************)
(* What a step of one process does to the others and to the database.      *)
(***************************************************************************)
Quiet(q) ==
    /\ pc'[q] = pc[q] /\ command'[q] = command[q] /\ etag'[q] = etag[q] /\ answer'[q] = answer[q]
    /\ read'[q] = read[q] /\ checked'[q] = checked[q] /\ wanted'[q] = wanted[q]
    /\ outcome'[q] = outcome[q]

\* The index a process saves.
Saving(p) == [version |-> answer[p].version, etag |-> answer[p].etag, fetched_at |-> now,
              count |-> Cardinality(Listed[answer[p].version])]

DbEffect ==
    \/ db' = db
    \/ db' \in {NoFile, Bare}
    \/ \E p \in Procs : pc[p] = "save" /\ db' = Saving(p)

Step(p) ==
    /\ Typed' /\ UNCHANGED world /\ DbEffect
    /\ \A q \in Procs \ {p} : Quiet(q)
    /\ pc'[p] # "idle" /\ Local(p)'

LEMMA CountIsNat ==
  ASSUME NEW v \in Versions PROVE Cardinality(Listed[v]) \in Nat
<1>1. Listed[v] \subseteq Names /\ IsFiniteSet(Names)
  BY CacheAssumption DEF Versions
<1>2. IsFiniteSet(Listed[v])
  BY <1>1, FS_Subset
<1> QED
  BY <1>2, FS_CardinalityType

LEMMA SavingIsIndex ==
  ASSUME Typed, NEW p \in Procs, answer[p] \in Answer PROVE Saving(p) \in Index
<1>1. answer[p].version \in Versions /\ answer[p].etag \in Versions \union {NoEtag}
  BY DEF Answer
<1>2. Cardinality(Listed[answer[p].version]) \in Nat
  BY <1>1, CountIsNat
<1>3. now \in 0 .. MaxTime
  BY DEF Typed
<1> QED
  BY <1>1, <1>2, <1>3 DEF Saving, Index

LEMMA SavingFields ==
  ASSUME NEW p
  PROVE  /\ Saving(p).version = answer[p].version /\ Saving(p).etag = answer[p].etag
         /\ Saving(p).fetched_at = now
  BY DEF Saving

LEMMA DbFields ==
  ASSUME Typed, Saved
  PROVE  /\ db \in Index /\ db.version \in Versions /\ db.etag \in Versions \union {NoEtag}
         /\ db.fetched_at \in 0 .. MaxTime
<1>1. db \in Index
  BY DEF Typed, Saved
<1> QED
  BY <1>1 DEF Index

\* What is loaded and known is the database.
LEMMA KnownIsDb ==
  ASSUME NEW m \in Loads, Known(m) PROVE m = db /\ Saved
  BY DEF Loads, Known, Saved

LEMMA IndexIsSaved ==
  ASSUME db' \in Index PROVE Saved'
  BY NoIndexAssumption DEF Saved

\* A save puts an index there that is still served in this tick.
LEMMA DbAfter ==
  ASSUME CInv, UNCHANGED world, DbEffect, Saved'
  PROVE  \/ db' = db /\ Saved
         \/ /\ db' \in Index /\ db'.etag \in {db'.version, NoEtag} /\ db'.fetched_at = now
            /\ ServedWithin(0, db'.version, now)
<1>1. CASE db' = db
  BY <1>1 DEF Saved
<1>2. CASE db' \in {NoFile, Bare}
  BY <1>2 DEF Saved
<1>3. ASSUME NEW p \in Procs, pc[p] = "save", db' = Saving(p)
      PROVE  /\ db' \in Index /\ db'.etag \in {db'.version, NoEtag} /\ db'.fetched_at = now
             /\ ServedWithin(0, db'.version, now)
  <2>1. /\ answer[p] \in Answer /\ answer[p].etag \in {answer[p].version, NoEtag}
        /\ ServedWithin(0, answer[p].version, now)
    BY <1>3 DEF CInv, Local, Downloaded
  <2>2. Saving(p) \in Index
    BY <2>1, SavingIsIndex DEF CInv
  <2> QED
    BY <1>3, <2>1, <2>2, SavingFields
<1> QED
  BY <1>1, <1>2, <1>3 DEF DbEffect

LEMMA DbInvKept ==
  ASSUME CInv, UNCHANGED world, DbEffect PROVE DbInv'
<1> SUFFICES ASSUME Saved'
             PROVE  /\ db'.etag \in {db'.version, NoEtag} /\ db'.fetched_at <= now
                    /\ ServedWithin(0, db'.version, db'.fetched_at)
  BY DEF DbInv, world, ServedWithin
<1>1. CASE db' = db /\ Saved
  BY <1>1 DEF CInv, DbInv
<1>2. CASE /\ db' \in Index /\ db'.etag \in {db'.version, NoEtag} /\ db'.fetched_at = now
           /\ ServedWithin(0, db'.version, now)
  BY <1>2 DEF CInv, Typed
<1> QED
  BY <1>1, <1>2, DbAfter

\* A process that does nothing keeps its part of the invariant.
LEMMA LocalKept ==
  ASSUME CInv, NEW p \in Procs, NEW q \in Procs \ {p}, UNCHANGED world, DbEffect,
         Quiet(q), pc'[p] # "idle"
  PROVE  Local(q)'
<1>1. Local(q) /\ Typed /\ checked[q] \in Nat /\ now \in Nat /\ checked[q] <= now
  BY DEF CInv, Local, Typed
<1>2. /\ checked'[q] <= now' /\ (pc'[q] = "ensure" => read'[q] = {})
  BY <1>1 DEF Local, Quiet, world
<1>3. Roles(q)'
  BY <1>1 DEF Local, Roles, Quiet
<1>4. Downloaded(q)'
  BY <1>1 DEF Local, Downloaded, Quiet, world, ServedWithin
<1>5. FreshBy(q)'
  BY <1>1 DEF Local, FreshBy, Quiet, world, ServedWithin
<1>6. Brings(q)'
  BY DEF Brings, Alone
<1>7. ASSUME Saved', ~(db' = db /\ Saved)
      PROVE  \A age \in Nat : ServedWithin(age, db'.version, checked[q])
  <2>1. db' \in Index /\ ServedWithin(0, db'.version, now)
    BY <1>7, DbAfter
  <2>2. db'.version \in Versions
    BY <2>1 DEF Index
  <2>3. until[db'.version] \in Nat
    BY <2>2 DEF CInv, Typed
  <2> QED
    BY <1>1, <2>1, <2>3 DEF ServedWithin
<1>8. Requested(q)'
  BY <1>1, <1>7 DEF Local, Requested, Quiet, world, ServedWithin
<1>9. Answerable(q)'
  BY <1>1, <1>7, CacheAssumption DEF Local, Answerable, Answering, Quiet, world, ServedWithin
<1> QED
  BY <1>2, <1>3, <1>4, <1>5, <1>6, <1>8, <1>9 DEF Local

LEMMA StepKeeps ==
  ASSUME CInv, NEW p \in Procs, Step(p) PROVE CInv'
<1>1. DbInv'
  BY DbInvKept DEF Step
<1>2. ASSUME NEW q \in Procs PROVE Local(q)'
  <2>1. CASE q = p
    BY <2>1 DEF Step
  <2>2. CASE q # p
    BY <2>2, LocalKept DEF Step
  <2> QED
    BY <2>1, <2>2
<1> QED
  BY <1>1, <1>2 DEF CInv, Step

LEMMA InitInv == Init => CInv
<1> SUFFICES ASSUME Init PROVE CInv
  OBVIOUS
<1>1. Typed
  BY CacheAssumption DEF Init, Typed, Versions, Pcs, Outcomes
<1>2. DbInv
  BY DEF Init, DbInv, Saved
<1>3. ASSUME NEW p \in Procs PROVE Local(p)
  BY <1>3 DEF Init, Local, Roles, Downloaded, Requested, Answerable, Answering, FreshBy, Brings, Succeeds
<1> QED
  BY <1>1, <1>2, <1>3 DEF CInv

-----------------------------------------------------------------------------
(***************************************************************************)
(* The clock and upstream.                                                 *)
(***************************************************************************)
\* What was served up to now stays so when the next index is published.
LEMMA StillServed ==
  ASSUME Typed, Publish, NEW v \in Versions, NEW age \in Nat, NEW t \in Nat, t <= now,
         ServedWithin(age, v, t)
  PROVE  v = upstream' \/ until'[v] + age >= t
<1>1. now \in Nat /\ upstream \in Versions /\ until \in [Versions -> 0 .. MaxTime]
  BY DEF Typed
<1>2. CASE v = upstream
  <2>1. until'[v] = now
    BY <1>1, <1>2 DEF Publish
  <2> QED
    BY <1>1, <2>1
<1>3. CASE v # upstream
  <2>1. until'[v] = until[v]
    BY <1>1, <1>3 DEF Publish
  <2> QED
    BY <1>3, <2>1 DEF ServedWithin
<1> QED
  BY <1>2, <1>3

LEMMA TickKeeps ==
  ASSUME CInv, Tick PROVE CInv'
<1>0. now \in Nat /\ now' = now + 1 /\ UNCHANGED <<upstream, until, db, pc, mine>>
  BY DEF CInv, Typed, Tick
<1>1. Typed'
  BY <1>0, CacheAssumption DEF CInv, Typed, Tick, mine
<1>2. DbInv'
  <2> SUFFICES ASSUME Saved'
               PROVE  /\ db.etag \in {db.version, NoEtag} /\ db.fetched_at <= now + 1
                      /\ ServedWithin(0, db.version, db.fetched_at)
    BY <1>0 DEF DbInv, ServedWithin
  <2>1. Saved
    BY <1>0 DEF Saved
  <2>2. db.fetched_at \in Nat
    BY <2>1, DbFields DEF CInv
  <2> QED
    BY <1>0, <2>1, <2>2 DEF CInv, DbInv
<1>3. ASSUME NEW q \in Procs PROVE Local(q)'
  <2>1. Local(q) /\ checked[q] \in Nat /\ pc[q] # "save"
    BY DEF CInv, Typed, Tick
  <2>2. checked'[q] <= now' /\ (pc'[q] = "ensure" => read'[q] = {})
    BY <1>0, <2>1 DEF Local, mine
  <2>3. Roles(q)' /\ Downloaded(q)'
    BY <1>0, <2>1 DEF Local, Roles, Downloaded, mine
  <2>4. Requested(q)' /\ Answerable(q)'
    BY <1>0, <2>1 DEF Local, Requested, Answerable, Answering, Saved, ServedWithin, mine
  <2>5. FreshBy(q)'
    BY <1>0, <2>1 DEF Local, FreshBy, ServedWithin, mine
  <2>6. Brings(q)'
    BY <1>0, <2>1 DEF Local, Brings, Alone, Succeeds, Saved, mine
  <2> QED
    BY <2>2, <2>3, <2>4, <2>5, <2>6 DEF Local
<1> QED
  BY <1>1, <1>2, <1>3 DEF CInv

LEMMA PublishKeeps ==
  ASSUME CInv, Publish PROVE CInv'
<1>0. now \in Nat /\ UNCHANGED <<now, db, pc, mine>> /\ Typed
  BY DEF CInv, Typed, Publish
<1>1. Typed'
  <2>1. upstream' \in Versions
    BY <1>0, CacheAssumption DEF Typed, Publish, Versions
  <2>2. until' \in [Versions -> 0 .. MaxTime]
    BY <1>0 DEF Typed, Publish
  <2> QED
    BY <1>0, <2>1, <2>2 DEF Typed, mine
<1>2. DbInv'
  <2> SUFFICES ASSUME Saved
               PROVE  /\ db.etag \in {db.version, NoEtag} /\ db.fetched_at <= now
                      /\ db.version = upstream' \/ until'[db.version] + 0 >= db.fetched_at
    BY <1>0 DEF DbInv, ServedWithin, Saved
  <2>1. db.fetched_at \in Nat /\ db.version \in Versions
    BY <1>0, DbFields
  <2>2. /\ db.etag \in {db.version, NoEtag} /\ db.fetched_at <= now
        /\ ServedWithin(0, db.version, db.fetched_at)
    BY DEF CInv, DbInv
  <2> QED
    BY <1>0, <2>1, <2>2, StillServed
<1>3. ASSUME NEW q \in Procs PROVE Local(q)'
  <2>1. Local(q) /\ checked[q] \in Nat /\ checked[q] <= now
    BY DEF CInv, Typed, Local
  <2>2. checked'[q] <= now' /\ (pc'[q] = "ensure" => read'[q] = {}) /\ Roles(q)'
    BY <1>0, <2>1 DEF Local, Roles, mine
  <2>3. Downloaded(q)'
    <3> SUFFICES ASSUME pc[q] = "save"
                 PROVE  /\ answer[q] \in Answer /\ answer[q].etag \in {answer[q].version, NoEtag}
                        /\ answer[q].version = wanted[q]
                        /\ answer[q].version = upstream' \/ until'[answer[q].version] + 0 >= now
      BY <1>0 DEF Downloaded, ServedWithin, mine
    <3>1. /\ answer[q] \in Answer /\ answer[q].etag \in {answer[q].version, NoEtag}
          /\ answer[q].version = wanted[q] /\ ServedWithin(0, answer[q].version, now)
      BY <2>1 DEF Local, Downloaded
    <3>2. answer[q].version \in Versions
      BY <3>1 DEF Answer
    <3> QED
      BY <1>0, <3>1, <3>2, StillServed
  <2>4. Requested(q)'
    <3> SUFFICES ASSUME pc[q] = "request", etag[q] # NoEtag, Saved, db.version # etag[q]
                 PROVE  db.version = upstream' \/ until'[db.version] + 0 >= checked[q]
      BY <1>0 DEF Requested, ServedWithin, Saved, mine
    <3>1. db.version \in Versions /\ ServedWithin(0, db.version, checked[q])
      BY <1>0, <2>1, DbFields DEF Local, Requested
    <3> QED
      BY <1>0, <2>1, <3>1, StillServed
  <2>5. Answerable(q)'
    <3> SUFFICES ASSUME Answering(q), Saved
                 PROVE  db.version = upstream' \/ until'[db.version] + MaxAge >= checked[q]
      BY <1>0 DEF Answerable, Answering, ServedWithin, Saved, mine
    <3>1. db.version \in Versions /\ ServedWithin(MaxAge, db.version, checked[q])
      BY <1>0, <2>1, DbFields DEF Local, Answerable
    <3> QED
      BY <1>0, <2>1, <3>1, StillServed, CacheAssumption
  <2>6. FreshBy(q)'
    <3>1. ASSUME NEW r \in read[q], NEW age \in Nat, ServedWithin(age, r.version, checked[q])
          PROVE  ServedWithin(age, r.version, checked[q])'
      <4>1. r.version \in Versions
        BY <1>0, <3>1 DEF Typed, Hit
      <4> QED
        BY <1>0, <2>1, <3>1, <4>1, StillServed DEF ServedWithin, mine
    <3> QED
      BY <1>0, <2>1, <3>1, CacheAssumption DEF Local, FreshBy, ServedWithin, mine
  <2>7. Brings(q)'
    BY <1>0, <2>1 DEF Local, Brings, Alone, Succeeds, Saved, mine
  <2> QED
    BY <2>1, <2>2, <2>3, <2>4, <2>5, <2>6, <2>7 DEF Local
<1> QED
  BY <1>1, <1>2, <1>3 DEF CInv

-----------------------------------------------------------------------------
(***************************************************************************)
(* The steps of a process, one lemma each.                                 *)
(***************************************************************************)
LEMMA Own ==
  ASSUME CInv, NEW p \in Procs
  PROVE  Typed /\ Local(p) /\ checked[p] \in Nat /\ now \in Nat /\ checked[p] <= now
  BY DEF CInv, Local, Typed

LEMMA VersionsNat == NoEtag \notin Versions /\ Versions \subseteq Nat /\ MaxAge \in Nat /\ DoctorAge \in Nat
  BY CacheAssumption DEF Versions

\* How update goes on.
LEMMA UpdatedFields ==
  ASSUME Typed, NEW p \in Procs, Updated(p)
  PROVE  /\ pc' \in [Procs -> Pcs] /\ outcome' \in [Procs -> Outcomes]
         /\ \A q \in Procs \ {p} : pc'[q] = pc[q] /\ outcome'[q] = outcome[q]
         /\ command[p] = "update" => pc'[p] = "done"
         /\ command[p] # "update" => pc'[p] \in {"read", "resolve"}
<1>1. CASE command[p] = "update"
  BY <1>1 DEF Updated, Done, Typed, Pcs, Outcomes
<1>2. CASE command[p] # "update"
  BY <1>2 DEF Updated, Answers, Typed, Pcs
<1> QED
  BY <1>1, <1>2

LEMMA DoneFields ==
  ASSUME Typed, NEW p \in Procs, NEW how \in Outcomes, Done(p, how)
  PROVE  /\ pc' \in [Procs -> Pcs] /\ outcome' \in [Procs -> Outcomes]
         /\ \A q \in Procs \ {p} : pc'[q] = pc[q] /\ outcome'[q] = outcome[q]
         /\ pc'[p] = "done" /\ outcome'[p] = how
  BY DEF Done, Typed, Pcs, Outcomes

LEMMA FoundFields ==
  ASSUME Typed, NEW p \in Procs, NEW names \in SUBSET Names, NEW v \in Versions, Found(p, names, v)
  PROVE  /\ read' \in [Procs -> SUBSET Hit]
         /\ \A q \in Procs \ {p} : read'[q] = read[q]
         /\ \A r \in read'[p] : r \in read[p] \/ r.version = v
<1>1. [name : names, version : {v}] \subseteq Hit
  BY DEF Hit
<1>2. read \in [Procs -> SUBSET Hit]
  BY DEF Typed
<1>3. read' = [read EXCEPT ![p] = read[p] \union [name : names, version : {v}]]
  BY DEF Found
<1>4. read'[p] = read[p] \union [name : names, version : {v}]
  BY <1>2, <1>3
<1>5. \A r \in [name : names, version : {v}] : r.version = v
  OBVIOUS
<1>6. read' \in [Procs -> SUBSET Hit]
  BY <1>1, <1>2, <1>3
<1>7. \A q \in Procs \ {p} : read'[q] = read[q]
  BY <1>2, <1>3
<1> QED
  BY <1>4, <1>5, <1>6, <1>7

LEMMA StartStep ==
  ASSUME CInv, NEW p \in Procs, NEW c \in Commands, NEW names \in SUBSET Names, Start(p, c, names)
  PROVE  Step(p)
<1>0. Typed /\ c \in {"update", "search", "outdated", "plan", "doctor"}
  BY CacheAssumption DEF CInv
<1>1. /\ UNCHANGED world /\ db' = db
      /\ \A q \in Procs \ {p} : Quiet(q)
  BY <1>0 DEF Start, Quiet, Typed
<1>2. /\ command'[p] = c /\ read'[p] = {} /\ checked'[p] = now /\ etag'[p] = NoEtag
      /\ pc'[p] = CASE c = "update" -> "load" [] c \in {"search", "outdated"} -> "ensure"
                    [] c = "plan" -> "resolve" [] c = "doctor" -> "doctor"
  BY <1>0 DEF Start, Typed
<1>3. Typed'
  <2>1. pc' \in [Procs -> Pcs] /\ outcome' \in [Procs -> Outcomes]
    BY <1>0 DEF Start, Typed, Pcs, Outcomes
  <2>2. /\ command' \in [Procs -> {"update", "search", "outdated", "plan", "doctor"}]
        /\ etag' \in [Procs -> Versions \union {NoEtag}]
        /\ answer' \in [Procs -> {NoFile} \union Answer]
    BY <1>0 DEF Start, Typed
  <2>3. /\ read' \in [Procs -> SUBSET Hit]
        /\ checked' \in [Procs -> 0 .. MaxTime] /\ wanted' \in [Procs -> Versions]
    BY <1>0, CacheAssumption DEF Start, Typed, Versions
  <2> QED
    BY <1>0, <1>1, <2>1, <2>2, <2>3 DEF Typed, world
<1>4. /\ pc'[p] \in {"load", "ensure", "resolve", "doctor"}
      /\ c = "update" <=> pc'[p] = "load"
      /\ c \in {"search", "outdated"} <=> pc'[p] = "ensure"
      /\ c = "doctor" <=> pc'[p] = "doctor"
  BY <1>0, <1>2
<1>5. Local(p)'
  <2>1. checked'[p] <= now' /\ (pc'[p] = "ensure" => read'[p] = {}) /\ Roles(p)'
    BY <1>0, <1>1, <1>2, <1>4 DEF Roles, world, Typed
  <2>2. Downloaded(p)' /\ Requested(p)'
    BY <1>4 DEF Downloaded, Requested
  <2>3. Answerable(p)' /\ FreshBy(p)'
    BY <1>2, <1>4 DEF Answerable, Answering, FreshBy
  <2>4. Brings(p)'
    BY <1>4 DEF Brings, Succeeds
  <2> QED
    BY <2>1, <2>2, <2>3, <2>4 DEF Local
<1> QED
  BY <1>1, <1>3, <1>4, <1>5 DEF Step, DbEffect

LEMMA EnsureStep ==
  ASSUME CInv, NEW p \in Procs, ensure_fresh_cache(p) PROVE Step(p)
<1>0. Typed /\ Local(p) /\ pc[p] = "ensure" /\ now \in Nat
  BY Own DEF ensure_fresh_cache
<1>1. PICK m \in Loads : pc' = [pc EXCEPT ![p] = IF needs_refresh(m) THEN "load" ELSE Answers(p)]
  BY DEF ensure_fresh_cache
<1>2. /\ UNCHANGED <<world, db, command, etag, answer, read, outcome, wanted>>
      /\ checked'[p] = now /\ \A q \in Procs \ {p} : Quiet(q)
  BY <1>0, <1>1 DEF ensure_fresh_cache, Quiet, Typed
<1>3. /\ needs_refresh(m) => pc'[p] = "load"
      /\ ~needs_refresh(m) => pc'[p] \in {"read", "resolve"}
  BY <1>0, <1>1 DEF Typed, Answers
<1>4. Typed'
  <2>1. pc' \in [Procs -> Pcs]
    BY <1>0, <1>1 DEF Typed, Pcs, Answers
  <2>2. checked' \in [Procs -> 0 .. MaxTime]
    BY <1>0 DEF Typed, ensure_fresh_cache
  <2> QED
    BY <1>0, <1>2, <2>1, <2>2 DEF Typed, world
<1>5. read[p] = {} /\ command[p] \notin {"doctor", "update"}
  BY <1>0 DEF Local, Roles
<1>6. Local(p)'
  <2>1. checked'[p] <= now' /\ (pc'[p] = "ensure" => read'[p] = {}) /\ Roles(p)'
    BY <1>0, <1>2, <1>3, <1>5 DEF Roles, world
  <2>2. Downloaded(p)' /\ Requested(p)' /\ Brings(p)'
    BY <1>3 DEF Downloaded, Requested, Brings, Succeeds
  <2>3. FreshBy(p)'
    BY <1>2, <1>5 DEF FreshBy
  <2>4. Answerable(p)'
    <3> SUFFICES ASSUME ~needs_refresh(m) PROVE ServedWithin(MaxAge, db.version, now)
      BY <1>2, <1>3 DEF Answerable, Answering, ServedWithin, world
    <3>1. Known(m) /\ ~(now > m.fetched_at + MaxAge)
      BY DEF needs_refresh
    <3>2. m = db /\ Saved
      BY <3>1, KnownIsDb
    <3>3. db.fetched_at \in Nat /\ db.version \in Versions /\ ServedWithin(0, db.version, db.fetched_at)
      BY <1>0, <3>2, DbFields DEF CInv, DbInv
    <3>4. until[db.version] \in Nat
      BY <1>0, <3>3 DEF Typed
    <3> QED
      BY <1>0, <3>1, <3>2, <3>3, <3>4, VersionsNat DEF ServedWithin
  <2> QED
    BY <2>1, <2>2, <2>3, <2>4 DEF Local
<1>7. pc'[p] # "idle"
  BY <1>3
<1> QED
  BY <1>2, <1>4, <1>6, <1>7 DEF Step, DbEffect

LEMMA LoadStep ==
  ASSUME CInv, NEW p \in Procs, Load(p) PROVE Step(p)
<1>0. Typed /\ Local(p) /\ pc[p] = "load" /\ now \in Nat
  BY Own DEF Load
<1>1. PICK m \in Loads : etag' = [etag EXCEPT ![p] = existing_etag(m)]
  BY DEF Load
<1>2. /\ UNCHANGED <<world, db, command, answer, read, outcome, checked, wanted>>
      /\ pc'[p] = "request" /\ etag'[p] = existing_etag(m) /\ \A q \in Procs \ {p} : Quiet(q)
  BY <1>0, <1>1 DEF Load, Quiet, Typed
<1>3. existing_etag(m) # NoEtag => Saved /\ db.version = existing_etag(m)
  <2> SUFFICES ASSUME existing_etag(m) # NoEtag PROVE Saved /\ db.version = existing_etag(m)
    OBVIOUS
  <2>1. Known(m) /\ existing_etag(m) = m.etag
    BY DEF existing_etag
  <2> QED
    BY <2>1, KnownIsDb DEF CInv, DbInv
<1>4. Typed'
  <2>1. existing_etag(m) \in Versions \union {NoEtag}
    BY <1>0, <1>3, DbFields
  <2>2. etag' \in [Procs -> Versions \union {NoEtag}]
    BY <1>0, <1>1, <2>1 DEF Typed
  <2>3. pc' \in [Procs -> Pcs]
    BY <1>0 DEF Typed, Load, Pcs
  <2> QED
    BY <1>0, <1>2, <2>2, <2>3 DEF Typed, world
<1>5. Local(p)'
  <2>1. checked'[p] <= now' /\ (pc'[p] = "ensure" => read'[p] = {}) /\ Roles(p)'
    BY <1>0, <1>2 DEF Local, Roles, world
  <2>2. Downloaded(p)' /\ Answerable(p)'
    BY <1>2 DEF Downloaded, Answerable, Answering
  <2>3. Requested(p)' /\ Brings(p)'
    BY <1>2, <1>3 DEF Requested, Brings, Succeeds, Saved
  <2>4. FreshBy(p)'
    BY <1>0, <1>2 DEF Local, FreshBy, ServedWithin, world
  <2> QED
    BY <2>1, <2>2, <2>3, <2>4 DEF Local
<1> QED
  BY <1>2, <1>4, <1>5 DEF Step, DbEffect

LEMMA NotModifiedStep ==
  ASSUME CInv, NEW p \in Procs, NotModified(p) PROVE Step(p)
<1>0. Typed /\ Local(p) /\ pc[p] = "request" /\ now \in Nat /\ etag[p] = upstream /\ Updated(p)
  BY Own DEF NotModified
<1>1. /\ pc' \in [Procs -> Pcs] /\ outcome' \in [Procs -> Outcomes]
      /\ \A q \in Procs \ {p} : pc'[q] = pc[q] /\ outcome'[q] = outcome[q]
      /\ command[p] = "update" => pc'[p] = "done"
      /\ command[p] # "update" => pc'[p] \in {"read", "resolve"}
  BY <1>0, UpdatedFields
<1>2. /\ UNCHANGED <<world, db, command, etag, answer, read, checked>>
      /\ wanted'[p] = upstream /\ \A q \in Procs \ {p} : Quiet(q)
  BY <1>0, <1>1 DEF NotModified, Quiet, Typed
<1>3. Typed'
  <2>1. wanted' \in [Procs -> Versions]
    BY <1>0 DEF Typed, NotModified
  <2> QED
    BY <1>0, <1>1, <1>2, <2>1 DEF Typed, world
<1>4. command[p] # "doctor" /\ etag[p] # NoEtag
  BY <1>0, VersionsNat DEF Local, Roles, Typed
<1>5. Local(p)'
  <2>1. checked'[p] <= now' /\ (pc'[p] = "ensure" => read'[p] = {}) /\ Roles(p)'
    BY <1>0, <1>1, <1>2, <1>4 DEF Local, Roles, world
  <2>2. Downloaded(p)' /\ Requested(p)'
    BY <1>1 DEF Downloaded, Requested
  <2>3. FreshBy(p)'
    BY <1>0, <1>2 DEF Local, FreshBy, ServedWithin, world
  <2>4. Answerable(p)'
    <3> SUFFICES ASSUME Saved PROVE ServedWithin(MaxAge, db.version, checked[p])
      BY <1>2 DEF Answerable, ServedWithin, Saved, world
    <3>1. db.version = upstream \/ ServedWithin(0, db.version, checked[p])
      BY <1>0, <1>4 DEF Local, Requested
    <3>2. db.version \in Versions
      BY <1>0, DbFields
    <3>3. until[db.version] \in Nat /\ checked[p] \in Nat
      BY <1>0, <3>2 DEF Typed
    <3> QED
      BY <3>1, <3>3, VersionsNat DEF ServedWithin
  <2>5. Brings(p)'
    <3> SUFFICES ASSUME Alone(p) PROVE Saved /\ db.version = upstream
      BY <1>1, <1>2 DEF Brings, Alone, Succeeds, Saved
    <3> QED
      BY <1>0, <1>4 DEF Local, Brings
  <2> QED
    BY <2>1, <2>2, <2>3, <2>4, <2>5 DEF Local
<1>6. pc'[p] # "idle"
  BY <1>1
<1> QED
  BY <1>2, <1>3, <1>5, <1>6 DEF Step, DbEffect

LEMMA ModifiedStep ==
  ASSUME CInv, NEW p \in Procs, Modified(p) PROVE Step(p)
<1>0. Typed /\ Local(p) /\ pc[p] = "request" /\ now \in Nat
  BY Own DEF Modified
<1>1. PICK e \in {upstream, NoEtag} : answer' = [answer EXCEPT ![p] = [version |-> upstream, etag |-> e]]
  BY DEF Modified
<1>2. /\ UNCHANGED <<world, db, command, etag, read, outcome, checked>>
      /\ wanted'[p] = upstream /\ pc'[p] = "save" /\ answer'[p] = [version |-> upstream, etag |-> e]
      /\ \A q \in Procs \ {p} : Quiet(q)
  BY <1>0, <1>1 DEF Modified, Quiet, Typed
<1>3. [version |-> upstream, etag |-> e] \in Answer
  BY <1>0 DEF Typed, Answer
<1>4. Typed'
  <2>1. answer' \in [Procs -> {NoFile} \union Answer]
    BY <1>0, <1>1, <1>3 DEF Typed
  <2>2. wanted' \in [Procs -> Versions] /\ pc' \in [Procs -> Pcs]
    BY <1>0 DEF Typed, Modified, Pcs
  <2> QED
    BY <1>0, <1>2, <2>1, <2>2 DEF Typed, world
<1>5. Local(p)'
  <2>1. checked'[p] <= now' /\ (pc'[p] = "ensure" => read'[p] = {}) /\ Roles(p)'
    BY <1>0, <1>2 DEF Local, Roles, world
  <2>2. Downloaded(p)'
    BY <1>2, <1>3 DEF Downloaded, ServedWithin, world
  <2>3. Requested(p)' /\ Answerable(p)' /\ Brings(p)'
    BY <1>2 DEF Requested, Answerable, Answering, Brings, Succeeds
  <2>4. FreshBy(p)'
    BY <1>0, <1>2 DEF Local, FreshBy, ServedWithin, world
  <2> QED
    BY <2>1, <2>2, <2>3, <2>4 DEF Local
<1> QED
  BY <1>2, <1>4, <1>5 DEF Step, DbEffect

LEMMA PersistStep ==
  ASSUME CInv, NEW p \in Procs, persist_formula_index(p) PROVE Step(p)
<1>0. Typed /\ Local(p) /\ pc[p] = "save" /\ now \in Nat /\ checked[p] <= now /\ checked[p] \in Nat
  BY Own DEF persist_formula_index
<1>1. db' = Saving(p) /\ Updated(p)
  BY DEF persist_formula_index, Saving
<1>2. /\ pc' \in [Procs -> Pcs] /\ outcome' \in [Procs -> Outcomes]
      /\ \A q \in Procs \ {p} : pc'[q] = pc[q] /\ outcome'[q] = outcome[q]
      /\ command[p] = "update" => pc'[p] = "done"
      /\ command[p] # "update" => pc'[p] \in {"read", "resolve"}
  BY <1>0, <1>1, UpdatedFields
<1>3. /\ UNCHANGED <<world, command, etag, answer, read, checked, wanted>>
      /\ \A q \in Procs \ {p} : Quiet(q)
  BY <1>0, <1>2 DEF persist_formula_index, Quiet, mine
<1>4. /\ answer[p] \in Answer /\ answer[p].version = wanted[p]
      /\ ServedWithin(0, answer[p].version, now)
  BY <1>0 DEF Local, Downloaded
<1>5. db' \in Index /\ db'.version = answer[p].version
  BY <1>0, <1>1, <1>4, SavingIsIndex, SavingFields
<1>6. Typed'
  BY <1>0, <1>2, <1>3, <1>5 DEF Typed, world
<1>7. command[p] # "doctor"
  BY <1>0 DEF Local, Roles
<1>8. Local(p)'
  <2>1. checked'[p] <= now' /\ (pc'[p] = "ensure" => read'[p] = {}) /\ Roles(p)'
    BY <1>0, <1>2, <1>3, <1>7 DEF Local, Roles, world
  <2>2. Downloaded(p)' /\ Requested(p)'
    BY <1>2 DEF Downloaded, Requested
  <2>3. FreshBy(p)'
    BY <1>0, <1>3 DEF Local, FreshBy, ServedWithin, world
  <2>4. Answerable(p)'
    <3>1. answer[p].version \in Versions
      BY <1>4 DEF Answer
    <3>2. until[answer[p].version] \in Nat
      BY <1>0, <3>1 DEF Typed
    <3>3. ServedWithin(MaxAge, answer[p].version, checked[p])
      BY <1>0, <1>4, <3>2, VersionsNat DEF ServedWithin
    <3> QED
      BY <1>3, <1>5, <3>3 DEF Answerable, ServedWithin, world
  <2>5. Brings(p)'
    BY <1>2, <1>3, <1>4, <1>5, IndexIsSaved DEF Brings, Succeeds
  <2> QED
    BY <2>1, <2>2, <2>3, <2>4, <2>5 DEF Local
<1>9. pc'[p] # "idle"
  BY <1>2
<1> QED
  BY <1>0, <1>1, <1>3, <1>6, <1>8, <1>9 DEF Step, DbEffect

\* A step that ends the command, other than the save of an update.
LEMMA EndStep ==
  ASSUME CInv, NEW p \in Procs, NEW how \in Outcomes, Done(p, how),
         how = "ok" => command[p] # "update",
         UNCHANGED <<world, command, etag, answer, checked, wanted>>,
         db' = db \/ db' \in {NoFile, Bare},
         read' \in [Procs -> SUBSET Hit], \A q \in Procs \ {p} : read'[q] = read[q], FreshBy(p)'
  PROVE  Step(p)
<1>0. Typed /\ Local(p) /\ now \in Nat
  BY Own
<1>1. /\ pc' \in [Procs -> Pcs] /\ outcome' \in [Procs -> Outcomes]
      /\ \A q \in Procs \ {p} : pc'[q] = pc[q] /\ outcome'[q] = outcome[q]
      /\ pc'[p] = "done" /\ outcome'[p] = how
  BY <1>0, DoneFields
<1>2. \A q \in Procs \ {p} : Quiet(q)
  BY <1>1 DEF Quiet
<1>3. Typed'
  BY <1>0, <1>1 DEF Typed, world
<1>4. Local(p)'
  <2>1. checked'[p] <= now' /\ (pc'[p] = "ensure" => read'[p] = {}) /\ Roles(p)'
    BY <1>0, <1>1 DEF Local, Roles, world
  <2>2. Downloaded(p)' /\ Requested(p)' /\ Answerable(p)'
    BY <1>1 DEF Downloaded, Requested, Answerable, Answering
  <2>3. Brings(p)'
    BY <1>1 DEF Brings, Succeeds
  <2> QED
    BY <2>1, <2>2, <2>3 DEF Local
<1> QED
  BY <1>1, <1>2, <1>3, <1>4 DEF Step, DbEffect

\* The same with nothing found.
LEMMA PlainEnd ==
  ASSUME CInv, NEW p \in Procs, NEW how \in Outcomes, Done(p, how),
         how = "ok" => command[p] # "update",
         UNCHANGED <<world, command, etag, answer, read, checked, wanted>>,
         db' = db \/ db' \in {NoFile, Bare}
  PROVE  Step(p)
<1>1. FreshBy(p)'
  BY Own DEF Local, FreshBy, ServedWithin, world
<1>2. read' \in [Procs -> SUBSET Hit]
  BY DEF CInv, Typed
<1> QED
  BY <1>1, <1>2, EndStep

LEMMA FailedSteps ==
  ASSUME CInv, NEW p \in Procs, RequestFails(p) \/ persist_fails(p) \/ Crash(p) PROVE Step(p)
<1>1. CASE RequestFails(p)
  BY <1>1, PlainEnd DEF RequestFails, Outcomes
<1>2. CASE persist_fails(p)
  <2>1. db' = db \/ db' \in {NoFile, Bare}
    BY <1>2 DEF persist_fails
  <2> QED
    BY <1>2, <2>1, PlainEnd DEF persist_fails, Outcomes
<1>3. CASE Crash(p)
  <2>1. db' = db \/ db' \in {NoFile, Bare}
    BY <1>3 DEF Crash
  <2> QED
    BY <1>3, <2>1, PlainEnd DEF Crash, Outcomes
<1> QED
  BY <1>1, <1>2, <1>3

\* What is found in an index fresh enough is fresh.
LEMMA FoundFresh ==
  ASSUME CInv, NEW p \in Procs, NEW names \in SUBSET Names, NEW v \in Versions, Found(p, names, v),
         UNCHANGED <<world, command, checked>>,
         command[p] \in {"search", "outdated"} => ServedWithin(MaxAge, v, checked[p]),
         command[p] = "doctor" => ServedWithin(DoctorAge, v, checked[p])
  PROVE  FreshBy(p)'
<1>1. \A r \in read'[p] : r \in read[p] \/ r.version = v
  BY FoundFields DEF CInv
<1>2. ASSUME NEW r \in read'[p]
      PROVE  /\ command[p] \in {"search", "outdated"} => ServedWithin(MaxAge, r.version, checked[p])
             /\ command[p] = "doctor" => ServedWithin(DoctorAge, r.version, checked[p])
  BY <1>1, Own DEF Local, FreshBy
<1> QED
  BY <1>2 DEF FreshBy, ServedWithin, world

LEMMA SearchStep ==
  ASSUME CInv, NEW p \in Procs, search_cached_formulae(p) PROVE Step(p)
<1>0. Typed /\ Local(p) /\ pc[p] = "read" /\ command[p] \notin {"update", "doctor"}
  BY Own DEF search_cached_formulae, Local, Roles
<1>1. UNCHANGED <<world, db, command, etag, answer, checked, wanted>>
  BY DEF search_cached_formulae
<1>2. CASE Saved /\ Found(p, Listed[db.version], db.version) /\ Done(p, "ok")
  <2>1. db.version \in Versions
    BY <1>0, <1>2, DbFields
  <2>2. Listed[db.version] \in SUBSET Names
    BY <2>1, CacheAssumption DEF Versions
  <2>3. command[p] \in {"search", "outdated"} => ServedWithin(MaxAge, db.version, checked[p])
    BY <1>0, <1>2 DEF Local, Answerable, Answering
  <2>4. FreshBy(p)'
    BY <1>0, <1>1, <1>2, <2>1, <2>2, <2>3, FoundFresh
  <2>5. read' \in [Procs -> SUBSET Hit] /\ \A q \in Procs \ {p} : read'[q] = read[q]
    BY <1>0, <1>2, <2>1, <2>2, FoundFields
  <2> QED
    BY <1>0, <1>1, <1>2, <2>4, <2>5, EndStep DEF Outcomes
<1>3. CASE Done(p, "ok") /\ UNCHANGED read
  BY <1>0, <1>1, <1>3, PlainEnd DEF Outcomes
<1>4. CASE Done(p, "failed") /\ UNCHANGED read
  BY <1>0, <1>1, <1>4, PlainEnd DEF Outcomes
<1> QED
  BY <1>2, <1>3, <1>4 DEF search_cached_formulae

LEMMA DoctorStep ==
  ASSUME CInv, NEW p \in Procs, doctor(p) PROVE Step(p)
<1>0. /\ Typed /\ Local(p) /\ pc[p] = "doctor" /\ command[p] = "doctor"
      /\ now \in Nat /\ checked[p] \in Nat /\ checked[p] <= now
  BY Own DEF doctor, Local, Roles
<1>1. UNCHANGED <<world, db, command, etag, answer, checked, wanted>>
  BY DEF doctor
<1>2. CASE \E how \in Outcomes \ {"ok"} : Done(p, how) /\ UNCHANGED read
  BY <1>1, <1>2, PlainEnd
<1>3. ASSUME NEW m \in Loads, Known(m), ~(now > m.fetched_at + DoctorAge),
             Done(p, "ok"), Found(p, Names, m.version)
      PROVE  Step(p)
  <2>1. m = db /\ Saved
    BY <1>3, KnownIsDb
  <2>2. db.version \in Versions /\ db.fetched_at \in Nat
    BY <1>0, <2>1, DbFields
  <2>3. ServedWithin(0, db.version, db.fetched_at)
    BY <2>1 DEF CInv, DbInv
  <2>4. until[db.version] \in Nat
    BY <1>0, <2>2 DEF Typed
  <2>5. ServedWithin(DoctorAge, db.version, checked[p])
    BY <1>0, <1>3, <2>1, <2>2, <2>3, <2>4, VersionsNat DEF ServedWithin
  <2>6. FreshBy(p)'
    BY <1>0, <1>1, <1>3, <2>1, <2>2, <2>5, FoundFresh
  <2>7. read' \in [Procs -> SUBSET Hit] /\ \A q \in Procs \ {p} : read'[q] = read[q]
    BY <1>0, <1>3, <2>1, <2>2, FoundFields
  <2> QED
    BY <1>0, <1>1, <1>3, <2>6, <2>7, EndStep DEF Outcomes
<1> QED
  BY <1>2, <1>3 DEF doctor, Outcomes

\* A step that goes on with the next name.
LEMMA GoOn ==
  ASSUME CInv, NEW p \in Procs, pc[p] = "resolve",
         UNCHANGED <<world, db, pc, command, etag, answer, outcome, checked, wanted>>,
         read' \in [Procs -> SUBSET Hit], \A q \in Procs \ {p} : read'[q] = read[q], FreshBy(p)'
  PROVE  Step(p)
<1>0. Typed /\ Local(p)
  BY Own
<1>1. \A q \in Procs \ {p} : Quiet(q)
  BY DEF Quiet
<1>2. Typed'
  BY <1>0 DEF Typed, world
<1>3. Local(p)'
  <2>1. checked'[p] <= now' /\ (pc'[p] = "ensure" => read'[p] = {}) /\ Roles(p)'
    BY <1>0 DEF Local, Roles, world
  <2>2. Downloaded(p)' /\ Requested(p)' /\ Brings(p)'
    BY DEF Downloaded, Requested, Brings, Succeeds
  <2>3. Answerable(p)'
    BY <1>0 DEF Local, Answerable, Answering, Saved, ServedWithin, world
  <2> QED
    BY <2>1, <2>2, <2>3 DEF Local
<1> QED
  BY <1>1, <1>2, <1>3 DEF Step, DbEffect

LEMMA ResolveStep ==
  ASSUME CInv, NEW p \in Procs, NEW n \in Names, resolve_formula(p, n) PROVE Step(p)
<1>0. Typed /\ Local(p) /\ pc[p] = "resolve" /\ command[p] # "doctor"
  BY Own DEF resolve_formula, Local, Roles
<1>1. UNCHANGED <<world, db, pc, command, etag, answer, outcome, checked, wanted>>
  BY DEF resolve_formula
<1>2. ASSUME NEW v \in Versions, Found(p, {n}, v),
             command[p] \in {"search", "outdated"} => ServedWithin(MaxAge, v, checked[p])
      PROVE  Step(p)
  <2>1. {n} \in SUBSET Names
    OBVIOUS
  <2>2. FreshBy(p)'
    BY <1>0, <1>1, <1>2, <2>1, FoundFresh
  <2>3. read' \in [Procs -> SUBSET Hit] /\ \A q \in Procs \ {p} : read'[q] = read[q]
    BY <1>0, <1>2, <2>1, FoundFields
  <2> QED
    BY <1>0, <1>1, <2>2, <2>3, GoOn
<1>3. CASE Cached(n) /\ Found(p, {n}, db.version)
  <2>1. Saved /\ db.version \in Versions
    BY <1>0, <1>3, DbFields DEF Cached
  <2>2. command[p] \in {"search", "outdated"} => ServedWithin(MaxAge, db.version, checked[p])
    BY <1>0, <2>1 DEF Local, Answerable, Answering
  <2> QED
    BY <1>2, <1>3, <2>1, <2>2
<1>4. CASE Found(p, {n}, upstream)
  <2>1. upstream \in Versions /\ ServedWithin(MaxAge, upstream, checked[p])
    BY <1>0 DEF Typed, ServedWithin
  <2> QED
    BY <1>2, <1>4, <2>1
<1> QED
  BY <1>3, <1>4 DEF resolve_formula

LEMMA ResolveEnds ==
  ASSUME CInv, NEW p \in Procs, NEW n \in Names, resolve_fails(p, n) \/ Resolved(p) PROVE Step(p)
<1>0. Typed /\ Local(p) /\ pc[p] = "resolve" /\ command[p] # "update"
  BY Own DEF resolve_fails, Resolved, Local, Roles
<1>1. UNCHANGED <<world, db, command, etag, answer, read, checked, wanted>>
  BY DEF resolve_fails, Resolved
<1>2. CASE UNCHANGED <<pc, outcome>>
  <2>1. FreshBy(p)'
    BY <1>0, <1>1 DEF Local, FreshBy, ServedWithin, world
  <2>2. read' \in [Procs -> SUBSET Hit]
    BY <1>0, <1>1 DEF Typed
  <2> QED
    BY <1>0, <1>1, <1>2, <2>1, <2>2, GoOn
<1>3. CASE Done(p, "failed")
  BY <1>1, <1>3, PlainEnd DEF Outcomes
<1>4. CASE Done(p, "ok")
  BY <1>0, <1>1, <1>4, PlainEnd DEF Outcomes
<1> QED
  BY <1>2, <1>3, <1>4 DEF resolve_fails, Resolved

LEMMA RunStep ==
  ASSUME CInv, NEW p \in Procs, Run(p) PROVE Step(p)
<1>1. CASE \E n \in Names : resolve_formula(p, n) \/ resolve_fails(p, n)
  BY <1>1, ResolveStep, ResolveEnds
<1>2. CASE Resolved(p)
  BY <1>2, Own, PlainEnd DEF Resolved, Local, Roles, Outcomes
<1>3. CASE ensure_fresh_cache(p) \/ Load(p) \/ NotModified(p) \/ Modified(p)
  BY <1>3, EnsureStep, LoadStep, NotModifiedStep, ModifiedStep
<1>4. CASE persist_formula_index(p) \/ RequestFails(p) \/ persist_fails(p)
  BY <1>4, PersistStep, FailedSteps
<1>5. CASE search_cached_formulae(p) \/ doctor(p)
  BY <1>5, SearchStep, DoctorStep
<1> QED
  BY <1>1, <1>2, <1>3, <1>4, <1>5 DEF Run

-----------------------------------------------------------------------------
(***************************************************************************)
(* The invariant and what follows from it.                                 *)
(***************************************************************************)
LEMMA NextKeeps == CInv /\ [Next]_vars => CInv'
<1> SUFFICES ASSUME CInv, [Next]_vars PROVE CInv'
  OBVIOUS
<1>1. CASE Tick \/ Publish
  BY <1>1, TickKeeps, PublishKeeps
<1>2. ASSUME NEW p \in Procs, Run(p) PROVE CInv'
  BY <1>2, RunStep, StepKeeps
<1>3. ASSUME NEW p \in Procs, Crash(p) PROVE CInv'
  BY <1>3, FailedSteps, StepKeeps
<1>4. ASSUME NEW p \in Procs, NEW c \in Commands, NEW names \in SUBSET Names, Start(p, c, names)
      PROVE  CInv'
  BY <1>4, StartStep, StepKeeps
<1>5. CASE UNCHANGED vars
  <2>1. UNCHANGED <<now, upstream, until, db, pc, command, etag, answer, read, outcome, checked, wanted>>
    BY <1>5 DEF vars
  <2>2. Typed' /\ DbInv'
    BY <2>1 DEF CInv, Typed, DbInv, Saved, ServedWithin
  <2>3. ASSUME NEW p \in Procs PROVE Local(p)'
    <3>1. Local(p)
      BY DEF CInv
    <3>2. checked'[p] <= now' /\ (pc'[p] = "ensure" => read'[p] = {}) /\ Roles(p)' /\ FreshBy(p)'
      BY <2>1, <3>1 DEF Local, Roles, FreshBy, ServedWithin
    <3>3. Downloaded(p)' /\ Requested(p)' /\ Answerable(p)'
      BY <2>1, <3>1 DEF Local, Downloaded, Requested, Answerable, Answering, Saved, ServedWithin
    <3>4. Brings(p)'
      BY <2>1, <3>1 DEF Local, Brings, Alone, Succeeds, Saved
    <3> QED
      BY <3>2, <3>3, <3>4 DEF Local
  <2> QED
    BY <2>2, <2>3 DEF CInv
<1> QED
  BY <1>1, <1>2, <1>3, <1>4, <1>5 DEF Next

\* The inductive invariant: types, a database that was current when it was saved, and per
\* process what it may rely on between its load, its request, its save and its answer.
THEOREM CacheInvariant == Spec => []CInv
  BY InitInv, NextKeeps, PTL DEF Spec

\* search and outdated answer from an index, and doctor approves of one, that upstream served
\* at most MaxAge, or DoctorAge, ticks before they began, whatever other processes save.
THEOREM ReadsAreFresh == Spec => []ReadIsFresh
<1>1. CInv => ReadIsFresh
  BY DEF CInv, Local, FreshBy, ReadIsFresh
<1> QED
  BY <1>1, CacheInvariant, PTL

\* A bd update that succeeds while no other process ever ran leaves the index that upstream
\* served when it asked, whether it was told 304 or saved an answer.
THEOREM UpdateLeavesWanted == Spec => []UpdateBrings
<1>1. CInv => UpdateBrings
  BY DEF CInv, Local, Brings, Alone, UpdateBrings
<1> QED
  BY <1>1, CacheInvariant, PTL
=============================================================================
