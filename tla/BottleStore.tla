---------------------------- MODULE BottleStore ----------------------------
(***************************************************************************)
(* The brewdock-owned side of an install: the blob store, the download     *)
(* that fills it, the tree a bottle is extracted to and the copy a keg is  *)
(* made from, together with bd cleanup, which empties both directories.    *)
(*                                                                         *)
(* An installing process works under brewdock.lock; cleanup takes no lock. *)
(* The bottles of one plan are acquired here one after the other: they     *)
(* have different digests and share nothing but the nonce of temporary     *)
(* blobs.  What happens to the prefix is module InstallPipeline's subject; *)
(* here it is the set of installed formulae and the files of a copied keg. *)
(***************************************************************************)
EXTENDS Naturals, FiniteSets

CONSTANTS
    Proc,       \* process slots; a new bd may reuse the slot of one that ended
    NoProc,
    Formula,
    Sha,        \* the digests of bottles
    Owner,      \* Owner[s]: the formula bottle s belongs to
    Part,       \* the files of an extracted bottle
    Faults,     \* what may go wrong, a subset of FaultKinds
    MaxOps,     \* bound on the number of commands started
    MaxNonce    \* bound on the blobs one process puts

FaultKinds == {"download", "write", "extract", "crash"}

ASSUME StoreAssumption ==
    /\ NoProc \notin Proc
    /\ Owner \in [Sha -> Formula]
    /\ Sha \intersect Formula = {}
    /\ Faults \subseteq FaultKinds
    /\ MaxOps \in Nat /\ MaxNonce \in Nat

VARIABLES
    blob,       \* blob[s]: the file blobs/<s>
    temp,       \* temp[s][n]: the file blobs/<s>.tmp-<n>
    dir,        \* dir[s]: store/<s>/<name>/<version> exists
    tree,       \* tree[s]: the files in it
    current,    \* the digests the index names, one per formula
    installed,  \* formulae with a visible keg
    lock,       \* the process that holds brewdock.lock
    pc,         \* pc[p]: what process p is about to do
    work,       \* work[p]: its local variables
    count       \* history: commands started, of them while another ran, deaths
                \* inside put, names found taken, trees cut short

stores == <<blob, temp, dir, tree>>
vars == <<stores, current, installed, lock, pc, work, count>>

File  == {"none", "part", "whole"}
Nonce == 0 .. MaxNonce
Step  == {"idle", "pick", "check", "download", "put", "write", "publish", "hit",
          "extract", "scan", "copy", "blobs", "trees", "remove"}

Work == [goal   : SUBSET Formula,   \* formulae an install has still to acquire
         sha    : Sha,              \* the digest the process works on
         nonce  : Nonce,            \* TEMP_FILE_NONCE
         todo   : SUBSET Part,      \* files to extract, or listed and to be copied
         copied : SUBSET Part,      \* files of the keg copied so far
         keep   : SUBSET Sha,       \* digests a cleanup does not remove
         blobs  : SUBSET Sha,       \* blobs a cleanup listed and has still to visit
         temps  : SUBSET (Sha \X Nonce),    \* and temporary blobs
         trees  : SUBSET Sha]       \* trees it has still to visit

Count == [ops : Nat, overlaps : Nat, crashes : Nat, collisions : Nat, cuts : Nat]

TypeOK ==
    /\ blob \in [Sha -> File]
    /\ temp \in [Sha -> [Nonce -> File]]
    /\ dir \in [Sha -> BOOLEAN]
    /\ tree \in [Sha -> SUBSET Part]
    /\ current \subseteq Sha
    /\ installed \subseteq Formula
    /\ lock \in Proc \union {NoProc}
    /\ pc \in [Proc -> Step]
    /\ work \in [Proc -> Work]
    /\ count \in Count

OnePerFormula(shas) == \A f \in Formula : Cardinality({s \in shas : Owner[s] = f}) = 1

Init ==
    /\ blob = [s \in Sha |-> "none"]
    /\ temp = [s \in Sha |-> [n \in Nonce |-> "none"]]
    /\ dir = [s \in Sha |-> FALSE]
    /\ tree = [s \in Sha |-> {}]
    /\ current \in SUBSET Sha /\ OnePerFormula(current)
    /\ installed = {}
    /\ lock = NoProc
    /\ pc = [p \in Proc |-> "idle"]
    /\ \E s \in Sha :
         work = [p \in Proc |-> [goal |-> {}, sha |-> s, nonce |-> 0, todo |-> {}, copied |-> {},
                                 keep |-> {}, blobs |-> {}, temps |-> {}, trees |-> {}]]
    /\ count = [ops |-> 0, overlaps |-> 0, crashes |-> 0, collisions |-> 0, cuts |-> 0]

At(p, step)       == pc[p] = step
Goto(p, step)     == pc' = [pc EXCEPT ![p] = step]
TempOf(p)         == temp[work[p].sha][work[p].nonce]
SetWork(p, w)     == work' = [work EXCEPT ![p] = w]
SetTemp(p, file)  == temp' = [temp EXCEPT ![work[p].sha][work[p].nonce] = file]

Overlap(p) == IF \A q \in Proc \ {p} : At(q, "idle") THEN 0 ELSE 1
Started(p) == count' = [count EXCEPT !.ops = @ + 1, !.overlaps = @ + Overlap(p)]
CutShort   == count' = [count EXCEPT !.cuts = @ + 1]

----------------------------------------------------------------------------
(***************************************************************************)
(* bd install: one bottle after the other through acquire_payload.         *)
(***************************************************************************)
\* install or upgrade: which formulae are pending is module InstallPipeline's subject.
StartInstall(p, fs) ==
    /\ At(p, "idle") /\ lock = NoProc /\ count.ops < MaxOps
    /\ fs \subseteq Formula /\ fs # {}
    /\ lock' = p
    /\ Started(p)
    /\ SetWork(p, [work[p] EXCEPT !.goal = fs, !.nonce = 0])
    /\ Goto(p, "pick")
    /\ UNCHANGED <<stores, current, installed>>

\* The bottle and its digest are those of the metadata loaded at this time.
Pick(p, s) ==
    /\ At(p, "pick") /\ s \in current /\ Owner[s] \in work[p].goal
    /\ SetWork(p, [work[p] EXCEPT !.sha = s, !.copied = {}])
    /\ Goto(p, "check")
    /\ UNCHANGED <<stores, current, installed, lock, count>>

\* The error of one entry ends the command, and its lock goes with it.
GiveUp(p) == lock' = NoProc /\ Goto(p, "idle") /\ UNCHANGED <<current, installed, work>>

has(s) == blob[s] # "none"

CheckBlob(p) ==
    /\ At(p, "check")
    /\ Goto(p, IF has(work[p].sha) THEN "hit" ELSE "download")
    /\ UNCHANGED <<stores, current, installed, lock, work, count>>

\* Every chunk goes through the verifier: data that does not match is dropped.
DownloadVerified(p) ==
    /\ At(p, "download") /\ Goto(p, "put")
    /\ UNCHANGED <<stores, current, installed, lock, work, count>>

DownloadFails(p) ==
    /\ At(p, "download") /\ "download" \in Faults
    /\ GiveUp(p) /\ UNCHANGED <<stores, count>>

\* Mutant of CreateTemp: the file is renamed before its data is written.
CreateTempUnwritten(p) ==
    /\ At(p, "put") /\ ~has(work[p].sha) /\ TempOf(p) = "none"
    /\ SetTemp(p, "part")
    /\ Goto(p, "publish")
    /\ UNCHANGED <<blob, dir, tree, current, installed, lock, work, count>>

\* put leaves an existing blob alone; under the lock nobody put one since CheckBlob.
CreateTemp(p) ==
    /\ At(p, "put") /\ ~has(work[p].sha) /\ TempOf(p) = "none"
    /\ SetTemp(p, "part")
    /\ Goto(p, "write")
    /\ UNCHANGED <<blob, dir, tree, current, installed, lock, work, count>>

\* Mutant of TempTaken: put returns at once.
TempTakenKept(p) ==
    /\ At(p, "put") /\ ~has(work[p].sha) /\ TempOf(p) # "none"
    /\ count' = [count EXCEPT !.collisions = @ + 1]
    /\ GiveUp(p) /\ UNCHANGED stores

\* create_new finds the name taken: put removes that file and fails.
TempTaken(p) ==
    /\ At(p, "put") /\ ~has(work[p].sha) /\ TempOf(p) # "none"
    /\ SetTemp(p, "none")
    /\ count' = [count EXCEPT !.collisions = @ + 1]
    /\ GiveUp(p) /\ UNCHANGED <<blob, dir, tree>>

\* write_all and sync_all reach the open file, whether or not it still has a name.
WriteTemp(p) ==
    /\ At(p, "write")
    /\ SetTemp(p, IF TempOf(p) = "none" THEN "none" ELSE "whole")
    /\ Goto(p, "publish")
    /\ UNCHANGED <<blob, dir, tree, current, installed, lock, work, count>>

WriteFails(p) ==
    /\ At(p, "write") /\ "write" \in Faults
    /\ SetTemp(p, "none")
    /\ GiveUp(p) /\ UNCHANGED <<blob, dir, tree, count>>

\* The rename that publishes the blob; it fails if a cleanup took the file.
Publish(p) ==
    /\ At(p, "publish") /\ TempOf(p) # "none"
    /\ blob' = [blob EXCEPT ![work[p].sha] = TempOf(p)]
    /\ SetTemp(p, "none")
    /\ work[p].nonce < MaxNonce
    /\ SetWork(p, [work[p] EXCEPT !.nonce = @ + 1])
    /\ Goto(p, "hit")
    /\ UNCHANGED <<dir, tree, current, installed, lock, count>>

PublishFails(p) ==
    /\ At(p, "publish") /\ TempOf(p) = "none"
    /\ GiveUp(p) /\ UNCHANGED <<stores, count>>

\* Mutant of TreeHit: the blob store's answer is taken for the tree's.
TreeHitOnBlob(p) ==
    /\ At(p, "hit") /\ has(work[p].sha) /\ Goto(p, "scan")
    /\ UNCHANGED <<stores, current, installed, lock, work, count>>

\* An extracted tree is taken as it is, otherwise the blob is opened.
TreeHit(p) ==
    /\ At(p, "hit") /\ dir[work[p].sha] /\ Goto(p, "scan")
    /\ UNCHANGED <<stores, current, installed, lock, work, count>>

OpenArchive(p) ==
    /\ At(p, "hit") /\ ~dir[work[p].sha] /\ has(work[p].sha)
    /\ SetWork(p, [work[p] EXCEPT !.todo = Part])
    /\ Goto(p, "extract")
    /\ UNCHANGED <<stores, current, installed, lock, count>>

OpenFails(p) ==
    /\ At(p, "hit") /\ ~dir[work[p].sha] /\ ~has(work[p].sha)
    /\ GiveUp(p) /\ UNCHANGED <<stores, count>>

\* extract_tar_gz: one archive entry at a time, straight into the tree.
ExtractEntry(p, x) ==
    /\ At(p, "extract") /\ x \in work[p].todo
    /\ dir' = [dir EXCEPT ![work[p].sha] = TRUE]
    /\ tree' = [tree EXCEPT ![work[p].sha] = @ \union {x}]
    /\ SetWork(p, [work[p] EXCEPT !.todo = @ \ {x}])
    /\ UNCHANGED <<blob, temp, current, installed, lock, pc, count>>

\* Mutant of Extracted: an entry that cannot be read ends the loop like the last one.
ExtractedEarly(p) ==
    /\ At(p, "extract") /\ dir[work[p].sha] /\ Goto(p, "scan")
    /\ UNCHANGED <<stores, current, installed, lock, work, count>>

Extracted(p) ==
    /\ At(p, "extract") /\ work[p].todo = {} /\ Goto(p, "scan")
    /\ UNCHANGED <<stores, current, installed, lock, work, count>>

ExtractFails(p) ==
    /\ At(p, "extract") /\ "extract" \in Faults
    /\ CutShort /\ GiveUp(p) /\ UNCHANGED stores

\* materialize lists the tree, then copies what it listed.
Scan(p) ==
    /\ At(p, "scan") /\ dir[work[p].sha]
    /\ SetWork(p, [work[p] EXCEPT !.todo = tree[work[p].sha]])
    /\ Goto(p, "copy")
    /\ UNCHANGED <<stores, current, installed, lock, count>>

CopyFile(p, x) ==
    /\ At(p, "copy") /\ x \in work[p].todo \intersect tree[work[p].sha]
    /\ SetWork(p, [work[p] EXCEPT !.copied = @ \union {x}, !.todo = @ \ {x}])
    /\ UNCHANGED <<stores, current, installed, lock, pc, count>>

CopyFails(p) ==
    /\ \/ At(p, "scan") /\ ~dir[work[p].sha]
       \/ At(p, "copy") /\ ~ (work[p].todo \subseteq tree[work[p].sha])
    /\ GiveUp(p) /\ UNCHANGED <<stores, count>>

\* The keg is in the Cellar.  After the last one the finalize stage links them.
Materialized(p) ==
    LET rest == work[p].goal \ {Owner[work[p].sha]} IN
    /\ At(p, "copy") /\ work[p].todo = {}
    /\ SetWork(p, [work[p] EXCEPT !.goal = rest])
    /\ installed' = installed \union {Owner[work[p].sha]}
    /\ lock' = IF rest = {} THEN NoProc ELSE lock
    /\ Goto(p, IF rest = {} THEN "idle" ELSE "pick")
    /\ UNCHANGED <<stores, current, count>>

----------------------------------------------------------------------------
(***************************************************************************)
(* bd cleanup (a dry run changes nothing).  The digests to keep are read   *)
(* once; each directory is then walked two levels deep, and a second-level *)
(* name that is not one of those digests is removed.  In blobs/<xx>/ these *)
(* names are blobs and temporary blobs, in store/<sha>/ formula names.     *)
(***************************************************************************)
StoreLeaf(s) == Owner[s]

TempNames == {x \in Sha \X Nonce : temp[x[1]][x[2]] # "none"}

\* Mutant of StartCleanup: the names of installed formulae instead of digests.
StartCleanupNames(p) ==
    /\ At(p, "idle") /\ count.ops < MaxOps
    /\ Started(p)
    /\ SetWork(p, [work[p] EXCEPT !.keep = installed,
                                !.blobs = {s \in Sha : has(s)}, !.temps = TempNames])
    /\ Goto(p, "blobs")
    /\ UNCHANGED <<stores, current, installed, lock>>

StartCleanup(p) ==
    /\ At(p, "idle") /\ count.ops < MaxOps
    /\ Started(p)
    /\ SetWork(p, [work[p] EXCEPT !.keep = {s \in current : Owner[s] \in installed},
                                !.blobs = {s \in Sha : has(s)}, !.temps = TempNames])
    /\ Goto(p, "blobs")
    /\ UNCHANGED <<stores, current, installed, lock>>

\* A name created since the listing may be seen too.
CleanBlob(p, s) ==
    /\ At(p, "blobs")
    /\ has(s) \/ s \in work[p].blobs
    /\ blob' = IF s \in work[p].keep THEN blob ELSE [blob EXCEPT ![s] = "none"]
    /\ SetWork(p, [work[p] EXCEPT !.blobs = @ \ {s}])
    /\ UNCHANGED <<temp, dir, tree, current, installed, lock, pc, count>>

\* Mutant of CleanTemp: a temporary blob is judged by the digest in its name.
CleanTempBySha(p, s, n) ==
    /\ At(p, "blobs")
    /\ temp[s][n] # "none" \/ <<s, n>> \in work[p].temps
    /\ temp' = IF s \in work[p].keep THEN temp ELSE [temp EXCEPT ![s][n] = "none"]
    /\ SetWork(p, [work[p] EXCEPT !.temps = @ \ {<<s, n>>}])
    /\ UNCHANGED <<blob, dir, tree, current, installed, lock, pc, count>>

\* A temporary blob is never a name to keep, be it litter or being written.
CleanTemp(p, s, n) ==
    /\ At(p, "blobs")
    /\ temp[s][n] # "none" \/ <<s, n>> \in work[p].temps
    /\ temp' = [temp EXCEPT ![s][n] = "none"]
    /\ SetWork(p, [work[p] EXCEPT !.temps = @ \ {<<s, n>>}])
    /\ UNCHANGED <<blob, dir, tree, current, installed, lock, pc, count>>

BlobsCleaned(p) ==
    /\ At(p, "blobs") /\ work[p].blobs = {} /\ work[p].temps = {}
    /\ SetWork(p, [work[p] EXCEPT !.trees = {s \in Sha : dir[s]}])
    /\ Goto(p, "trees")
    /\ UNCHANGED <<stores, current, installed, lock, count>>

CleanTree(p, s) ==
    /\ At(p, "trees") /\ s \in work[p].trees
    /\ SetWork(p, [work[p] EXCEPT !.trees = @ \ {s}, !.sha = s])
    /\ Goto(p, IF StoreLeaf(s) \in work[p].keep THEN "trees" ELSE "remove")
    /\ UNCHANGED <<stores, current, installed, lock, count>>

\* remove_dir_all: the files one at a time, then the directory ...
RemoveFile(p, x) ==
    /\ At(p, "remove") /\ x \in tree[work[p].sha]
    /\ tree' = [tree EXCEPT ![work[p].sha] = @ \ {x}]
    /\ UNCHANGED <<blob, temp, dir, current, installed, lock, pc, work, count>>

RemoveDir(p) ==
    /\ At(p, "remove") /\ tree[work[p].sha] = {}
    /\ dir' = [dir EXCEPT ![work[p].sha] = FALSE]
    /\ Goto(p, "trees")
    /\ UNCHANGED <<blob, temp, tree, current, installed, lock, work, count>>

\* ... which fails, unnoticed, if an extraction put a file there meanwhile.
RemoveDirFails(p) ==
    /\ At(p, "remove")
    /\ \E q \in Proc : At(q, "extract") /\ work[q].sha = work[p].sha /\ tree[work[p].sha] # {}
    /\ Goto(p, "trees")
    /\ UNCHANGED <<stores, current, installed, lock, work, count>>

Cleaned(p) ==
    /\ At(p, "trees") /\ work[p].trees = {} /\ Goto(p, "idle")
    /\ UNCHANGED <<stores, current, installed, lock, work, count>>

----------------------------------------------------------------------------
(***************************************************************************)
(* bd update may change the index at any time.  A process may die; inside  *)
(* an extraction or the removal of a tree that is fault "extract" as well. *)
(***************************************************************************)
Update(s) ==
    /\ s \in Sha \ current
    /\ current' = {t \in current : Owner[t] # Owner[s]} \union {s}
    /\ UNCHANGED <<stores, installed, lock, pc, work, count>>

Crash(p) ==
    /\ ~At(p, "idle") /\ "crash" \in Faults
    /\ pc[p] \in {"extract", "remove"} => "extract" \in Faults
    /\ CASE pc[p] \in {"write", "publish"}  -> count' = [count EXCEPT !.crashes = @ + 1]
         [] pc[p] \in {"extract", "remove"} -> CutShort
         [] OTHER                           -> UNCHANGED count
    /\ lock' = IF lock = p THEN NoProc ELSE lock
    /\ Goto(p, "idle")
    /\ UNCHANGED <<stores, current, installed, work>>

Install(p) ==
    \/ \E fs \in SUBSET Formula : StartInstall(p, fs)
    \/ \E s \in Sha : Pick(p, s)
    \/ CheckBlob(p) \/ DownloadVerified(p) \/ DownloadFails(p)
    \/ CreateTemp(p) \/ TempTaken(p) \/ WriteTemp(p) \/ WriteFails(p)
    \/ Publish(p) \/ PublishFails(p)
    \/ TreeHit(p) \/ OpenArchive(p) \/ OpenFails(p)
    \/ \E x \in Part : ExtractEntry(p, x) \/ CopyFile(p, x)
    \/ Extracted(p) \/ ExtractFails(p) \/ Scan(p) \/ CopyFails(p) \/ Materialized(p)

Cleanup(p) ==
    \/ StartCleanup(p)
    \/ \E s \in Sha : CleanBlob(p, s) \/ CleanTree(p, s)
    \/ \E s \in Sha, n \in Nonce : CleanTemp(p, s, n)
    \/ \E x \in Part : RemoveFile(p, x)
    \/ BlobsCleaned(p) \/ RemoveDir(p) \/ RemoveDirFails(p) \/ Cleaned(p)

Next ==
    \/ \E p \in Proc : Install(p) \/ Cleanup(p) \/ Crash(p)
    \/ \E s \in Sha : Update(s)

Spec == Init /\ [][Next]_vars

----------------------------------------------------------------------------
(***************************************************************************)
(* The blob store implements the content-addressed store: for every mix of *)
(* faults, crashes and concurrent cleanups a blob appears all at once.     *)
(***************************************************************************)
Blobs == INSTANCE ContentStore WITH content <- blob
BlobsAreAtomic == Blobs!Spec

\* A temporary blob that a crash left makes at most one later put fail: put
\* removes what it found there (store.rs, the nonce restarts at 0).
OneCollisionPerCrash == count.collisions <= count.crashes

\* As long as commands run one after the other an install does not fail on its own
\* store: the blob it saw or put is there to be opened, its temporary file to be renamed.
OwnStoreHolds ==
    count.overlaps = 0 => \A p \in Proc :
        /\ At(p, "publish") => TempOf(p) = "whole"
        /\ At(p, "hit") => dir[work[p].sha] \/ has(work[p].sha)
        /\ At(p, "scan") => dir[work[p].sha]
        /\ At(p, "copy") => work[p].todo \subseteq tree[work[p].sha]

\* A keg that goes into the Cellar has every file of the bottle, whichever of the warm
\* paths (blob hit, tree hit) it came by, unless a tree was cut short or commands overlap.
MaterializedIsWhole ==
    count.overlaps = 0 /\ count.cuts = 0 =>
        \A p \in Proc : At(p, "copy") /\ work[p].todo = {} => work[p].copied = Part

\* When a cleanup that nothing overlapped ends, the blobs left are those to be
\* kept and no temporary blob of a dead process is left.
CleanupReclaims ==
    count.overlaps = 0 => \A p \in Proc :
        At(p, "trees") /\ work[p].trees = {} =>
            /\ \A s \in Sha : has(s) => s \in work[p].keep
            /\ \A s \in Sha, n \in Nonce : temp[s][n] = "none"

\* TODO.md: a payload is published "so other formulae cannot observe partial
\* payload state".  acquire_payload takes a tree that exists for an extracted one.
HitIsWhole == \A p \in Proc : At(p, "hit") /\ dir[work[p].sha] => tree[work[p].sha] = Part
=============================================================================
