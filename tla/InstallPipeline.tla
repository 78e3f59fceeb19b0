-------------------------- MODULE InstallPipeline --------------------------
(***************************************************************************)
(* The staged executor of bd install and bd upgrade                        *)
(* (core/src/orchestrate.rs and orchestrate/{planning,execution}.rs).      *)
(*                                                                         *)
(* Each process runs on one thread (tokio's current_thread flavour) and    *)
(* gives way only where it awaits: a download, or a task handed to the     *)
(* blocking pool.  Such a task is a thread of its own: dropping the future *)
(* that awaits it does not stop it.  task[p][f] therefore outlives the     *)
(* acquire stage of p; the process exits only when its threads are done.   *)
(***************************************************************************)
EXTENDS Prefix, SequencesExt

CONSTANTS
    Proc,           \* bd processes
    Deps,           \* Deps[f]: plan_dependencies, build ones for source methods
    SourceBuilt,    \* formulae whose resolved method is Source
    PostInstall,    \* formulae with post_install_defined
    Limit,          \* MAX_ACQUIRE_CONCURRENCY
    Faults,         \* the failures the environment may cause
    NoProc,         \* the lock is free
    MaxOps          \* bound: operations started, over all processes

FaultKinds == {"resolve", "fetch", "materialize", "build", "optlink", "etcvar",
               "hook", "link", "receipt", "rollback", "commit", "unlink",
               "restore", "crash"}

ASSUME PipelineAssumption ==
    /\ IsFiniteSet(Formula)
    /\ Deps \in [Formula -> SUBSET Formula]
    /\ SourceBuilt \subseteq Formula
    /\ PostInstall \subseteq Formula
    /\ Limit \in Nat \ {0}
    /\ Faults \subseteq FaultKinds
    /\ NoProc \notin Proc
    /\ MaxOps \in Nat

VARIABLES
    lock,       \* the process that holds brewdock.lock, or NoProc
    pc,         \* pc[p]: the next step of p's async side
    op,         \* op[p]: the command p runs
    wanted,     \* wanted[p]: the names on its command line
    todo,       \* todo[p]: upgrade candidates left
    plan,       \* plan[p]: the entries of the current execution plan
    next,       \* next[p]: entries buffer_unordered has pulled from the plan
    task,       \* task[p][f]: the acquire future of f, or its blocking thread
    at,         \* at[p]: the entry that finalize (or the abort loop) is at
    outcome,    \* outcome[p]: what the operation returns
    budget      \* operations that may still be started

job  == <<op, wanted, todo, plan>>
vars == <<prefix, lock, pc, job, next, task, at, outcome, budget>>

Running == {"copying", "swapping", "opting", "relocating", "unpacking"}
TaskState == Running \union {"none", "fetching", "prepared", "failed", "acquired"}
FinalizeSteps == {"build", "optlink", "etcvar", "hook", "link", "receipt", "commit"}
Steps == FinalizeSteps \union
         {"idle", "lock", "resolve", "next", "replan", "acquire", "abort",
          "restore", "unlock", "exit"}

Upgrades == {"upgrade", "plan_upgrade"}
DryRuns  == {"plan_install", "plan_upgrade"}
Commands == {"install"} \union Upgrades \union DryRuns

TypeOK ==
    /\ PrefixTypeOK
    /\ lock    \in Proc \union {NoProc}
    /\ pc      \in [Proc -> Steps]
    /\ op      \in [Proc -> Commands]
    /\ wanted  \in [Proc -> SUBSET Formula]
    /\ todo    \in [Proc -> Seq(Formula)]
    /\ plan    \in [Proc -> Seq(Formula)]
    /\ next    \in [Proc -> Nat]
    /\ task    \in [Proc -> [Formula -> TaskState]]
    /\ at      \in [Proc -> Nat]
    /\ outcome \in [Proc -> {"none", "ok", "err"}]
    /\ budget  \in Nat

\* Between operations a formula is absent, installed at its old version or at
\* the latest one (perhaps with the old keg still in the Cellar), and installed
\* formulae have their dependencies installed.
Init ==
    /\ \E seen \in [Formula -> {"none"} \union Version], kept \in SUBSET Formula :
        /\ \A f \in Formula : seen[f] # "none" =>
                                \A d \in Deps[f] : seen[d] # "none"
        /\ \A f \in kept : seen[f] = "new"
        /\ oldKeg  = [f \in Formula |-> seen[f] = "old" \/ f \in kept]
        /\ keg     = [f \in Formula |-> IF seen[f] = "new" THEN "ready" ELSE "absent"]
        /\ receipt = [f \in Formula |-> IF seen[f] = "new" THEN "valid" ELSE "none"]
        /\ opt     = seen
        /\ links   = [f \in Formula |-> [v \in Version |->
                        IF v = seen[f] /\ f \notin KegOnly THEN "full" ELSE "none"]]
    /\ tmp     = [f \in Formula |-> FALSE]
    /\ lock    = NoProc
    /\ pc      = [p \in Proc |-> "idle"]
    /\ op      = [p \in Proc |-> "install"]
    /\ wanted  = [p \in Proc |-> {}]
    /\ todo    = [p \in Proc |-> <<>>]
    /\ plan    = [p \in Proc |-> <<>>]
    /\ next    = [p \in Proc |-> 0]
    /\ task    = [p \in Proc |-> [f \in Formula |-> "none"]]
    /\ at      = [p \in Proc |-> 1]
    /\ outcome = [p \in Proc |-> "none"]
    /\ budget  = MaxOps

----------------------------------------------------------------------------
(***************************************************************************)
(* Planning.                                                               *)
(***************************************************************************)

\* fetch_with_deps: everything reachable from the names.
Closure(names) ==
    {f \in Formula : \A S \in SUBSET Formula :
        (names \subseteq S /\ \A g \in S : Deps[g] \subseteq S) => f \in S}

\* What f depends on, directly or not.
Needs(f) == Closure(Deps[f])

\* resolve_install_order: an error on a cycle, otherwise what a formula needs
\* comes before it.
Cyclic(names) == \E f \in Closure(names) : f \in Needs(f)

\* Mutant of Orders: the order of discovery, whatever it is.
AnyOrders(S) == SetToSeqs(S)

Orders(S) ==
    {s \in SetToSeqs(S) : \A i, j \in DOMAIN s : s[j] \in Needs(s[i]) => j < i}

\* Mutants of Pending: what is installed stays in; the dependencies stay out.
PendingAll(names, keep) == Closure(names)
PendingNamesOnly(names, keep) == {f \in names : f \in keep \/ ~Installed(f)}

\* filter_pending_formulae: a subsequence of the resolved order.
Pending(names, keep) ==
    {f \in Closure(names) : f \in keep \/ ~Installed(f)}

\* Executing a plan starts with no future polled.
BeginPlan(p, s) ==
    /\ plan' = [plan EXCEPT ![p] = s]
    /\ next' = [next EXCEPT ![p] = 0]
    /\ task' = [task EXCEPT ![p] = [f \in Formula |-> "none"]]
    /\ at'   = [at EXCEPT ![p] = 1]

Goto(p, step) == pc' = [pc EXCEPT ![p] = step]

Return(p, result) ==
    /\ Goto(p, "unlock")
    /\ outcome' = [outcome EXCEPT ![p] = result]

\* Mutant of PlanFails: upgrade returns the error as install does.
PlanFailsAtOnce(p) == Return(p, "err")

\* An error of the install step of upgrade comes back to upgrade, which
\* restores the previous version; any other error is returned at once.
PlanFails(p) ==
    /\ Goto(p, IF op[p] = "upgrade" THEN "restore" ELSE "unlock")
    /\ outcome' = [outcome EXCEPT ![p] = "err"]

\* The process is gone, and with it what it had in memory.
Gone(p) ==
    /\ Goto(p, "idle")
    /\ BeginPlan(p, <<>>)
    /\ op' = [op EXCEPT ![p] = "install"]
    /\ wanted' = [wanted EXCEPT ![p] = {}]
    /\ todo' = [todo EXCEPT ![p] = <<>>]
    /\ outcome' = [outcome EXCEPT ![p] = "none"]

\* A command starts.
Start(p) ==
    /\ pc[p] = "idle" /\ budget > 0
    /\ budget' = budget - 1
    /\ \E o \in Commands, names \in SUBSET Formula :
        /\ names # {}
        /\ op' = [op EXCEPT ![p] = o]
        /\ wanted' = [wanted EXCEPT ![p] = names]
    /\ Goto(p, "lock")
    /\ UNCHANGED <<prefix, lock, todo, plan, next, task, at, outcome>>

\* Mutants of AcquireLock: a try_lock whose result is not looked at; a guard bound
\* to `_`, which Rust drops at once.
AcquireLockAnyway(p) ==
    /\ pc[p] = "lock"
    /\ lock' = p
    /\ Goto(p, "resolve")
    /\ UNCHANGED <<prefix, job, next, task, at, outcome, budget>>

AcquireLockDropped(p) ==
    /\ pc[p] = "lock" /\ lock = NoProc
    /\ Goto(p, "resolve")
    /\ UNCHANGED <<prefix, lock, job, next, task, at, outcome, budget>>

\* FileLock::acquire blocks until the lock is free.
AcquireLock(p) ==
    /\ pc[p] = "lock" /\ lock = NoProc
    /\ lock' = p
    /\ Goto(p, "resolve")
    /\ UNCHANGED <<prefix, job, next, task, at, outcome, budget>>

\* Whose receipts the resolution reads.
Examined(p) == IF op[p] \in Upgrades THEN wanted[p] ELSE Closure(wanted[p])

\* What the resolution needs beside the metadata.
Resolvable(p) ==
    /\ \A f \in Examined(p) : ~Unreadable(f)
    /\ op[p] \in Upgrades \/ ~Cyclic(wanted[p])

\* A dry run resolves the same lists and returns them.
ResolvePlanOnly(p) ==
    /\ pc[p] = "resolve" /\ op[p] \in DryRuns
    /\ Resolvable(p)
    /\ Return(p, "ok")
    /\ UNCHANGED <<prefix, lock, job, next, task, at, budget>>

\* resolve_install_list.
ResolveInstall(p) ==
    /\ pc[p] = "resolve" /\ op[p] = "install"
    /\ Resolvable(p)
    /\ \E s \in Orders(Pending(wanted[p], {})) : BeginPlan(p, s)
    /\ Goto(p, "acquire")
    /\ UNCHANGED <<prefix, lock, op, wanted, todo, outcome, budget>>

\* collect_upgrade_candidates: the named formulae seen at an outdated version,
\* without those whose post_install is found not viable.
ResolveUpgrade(p) ==
    /\ pc[p] = "resolve" /\ op[p] = "upgrade"
    /\ Resolvable(p)
    /\ \E skipped \in SUBSET PostInstall :
       \E s \in SetToSeqs({f \in wanted[p] \ skipped : Visible(f) = "old"}) :
        todo' = [todo EXCEPT ![p] = s]
    /\ Goto(p, "next")
    /\ UNCHANGED <<prefix, lock, op, wanted, plan, next, task, at, outcome, budget>>

\* The metadata or the network fails, a formula is unsupported, dependencies
\* form a cycle, or a receipt does not parse.
ResolveFails(p) ==
    /\ pc[p] = "resolve"
    /\ "resolve" \in Faults \/ ~Resolvable(p)
    /\ Return(p, "err")
    /\ UNCHANGED <<prefix, lock, job, next, task, at, budget>>

----------------------------------------------------------------------------
(***************************************************************************)
(* The loop of upgrade over its candidates, collected once.                *)
(***************************************************************************)
Candidate(p) == Head(todo[p])

UpgradeDone(p) ==
    /\ pc[p] = "next" /\ todo[p] = <<>>
    /\ Return(p, "ok")
    /\ UNCHANGED <<prefix, lock, job, next, task, at, budget>>

\* unlink(&old_keg), before the target version is acquired.
UnlinkOld(p) ==
    /\ pc[p] = "next" /\ todo[p] # <<>>
    /\ links' = Unlinked(Candidate(p), "old")
    /\ Goto(p, "replan")
    /\ UNCHANGED <<oldKeg, keg, tmp, receipt, opt, lock, job, next, task, at,
                   outcome, budget>>

\* Its error leaves through `?`: nothing is restored.
UnlinkOldFails(p) ==
    /\ pc[p] = "next" /\ todo[p] # <<>> /\ "unlink" \in Faults
    /\ UnlinkPartly(Candidate(p), "old")
    /\ Return(p, "err")
    /\ UNCHANGED <<oldKeg, keg, tmp, receipt, opt, lock, job, next, task, at, budget>>

\* resolve_upgrade_install_list, which reads the receipts of all but f.
Replannable(f) ==
    /\ \A g \in Closure({f}) \ {f} : ~Unreadable(g)
    /\ ~Cyclic({f})

\* run_upgrade_install: a bottle is installed alone, a source build with its
\* pending dependencies.
PlanUpgrade(p) ==
    /\ pc[p] = "replan"
    /\ LET f == Candidate(p) IN
       IF f \in SourceBuilt
       THEN /\ Replannable(f)
            /\ \E s \in Orders(Pending({f}, {f})) : BeginPlan(p, s)
       ELSE BeginPlan(p, <<f>>)
    /\ Goto(p, "acquire")
    /\ UNCHANGED <<prefix, lock, op, wanted, todo, outcome, budget>>

PlanUpgradeFails(p) ==
    /\ pc[p] = "replan" /\ Candidate(p) \in SourceBuilt
    /\ "resolve" \in Faults \/ ~Replannable(Candidate(p))
    /\ BeginPlan(p, <<>>)
    /\ PlanFails(p)
    /\ UNCHANGED <<prefix, lock, op, wanted, todo, budget>>

\* Mutant of Relinked: only the opt link is put back.
NotRelinked(f) == UNCHANGED links

\* restore_previous_upgrade: bd never deletes an old keg, so it is there.  Both
\* calls are best effort.
Relinked(f) ==
    \/ ~Collides(f, "old") /\ LinkKeg(f, "old")
    \/ /\ Collides(f, "old") \/ "restore" \in Faults
       /\ LinkPartly(f, "old") \/ UNCHANGED links

Restore(p) ==
    /\ pc[p] = "restore"
    /\ Relinked(Candidate(p))
    /\ \/ RefreshOptLink(Candidate(p), "old")
       \/ "restore" \in Faults /\ UNCHANGED opt
    /\ Goto(p, "unlock")
    /\ UNCHANGED <<oldKeg, keg, tmp, receipt, lock, job, next, task, at, outcome, budget>>

----------------------------------------------------------------------------
(***************************************************************************)
(* Acquire: buffer_unordered(Limit) over the plan's entries, in order.     *)
(***************************************************************************)
Entries(p) == Range(plan[p])

InFlight(p) ==
    {f \in Formula : task[p][f] \in Running \union {"fetching", "prepared", "failed"}}

SetTask(p, f, state) == task' = [task EXCEPT ![p][f] = state]

PullEntry(p) ==
    /\ pc[p] = "acquire" /\ next[p] < Len(plan[p])
    /\ Cardinality(InFlight(p)) < Limit
    /\ next' = [next EXCEPT ![p] = @ + 1]
    /\ SetTask(p, plan[p][next[p] + 1], "fetching")
    /\ UNCHANGED <<prefix, lock, pc, job, at, outcome, budget>>

\* acquire_payload up to spawn_blocking: blob and store hold the payload.
Fetched(p, f) ==
    /\ pc[p] = "acquire" /\ task[p][f] = "fetching"
    /\ SetTask(p, f, IF f \in SourceBuilt THEN "unpacking" ELSE "copying")
    /\ UNCHANGED <<prefix, lock, pc, job, next, at, outcome, budget>>

\* Its JoinHandle yields the payload.
Acquired(p, f) ==
    /\ pc[p] = "acquire" /\ task[p][f] = "prepared"
    /\ SetTask(p, f, "acquired")
    /\ UNCHANGED <<prefix, lock, pc, job, next, at, outcome, budget>>

\* The first error ends try_collect: the other futures are dropped, the
\* threads they spawned run on.
AcquireFails(p, f) ==
    /\ pc[p] = "acquire"
    /\ \/ task[p][f] = "fetching" /\ "fetch" \in Faults
       \/ task[p][f] = "failed"
    /\ task' = [task EXCEPT ![p] = [g \in Formula |->
                    IF @[g] \in Running THEN @[g] ELSE "none"]]
    /\ Goto(p, "abort")
    /\ UNCHANGED <<prefix, lock, job, next, at, outcome, budget>>

\* cleanup_materialized_kegs, one entry of the plan at a time.
AbortEntry(p) ==
    /\ pc[p] = "abort" /\ at[p] <= Len(plan[p])
    /\ LET f == plan[p][at[p]] IN
       IF keg[f] # "absent" THEN CleanupFailedInstall(f) ELSE UNCHANGED prefix
    /\ at' = [at EXCEPT ![p] = @ + 1]
    /\ UNCHANGED <<lock, pc, job, next, task, outcome, budget>>

AbortDone(p) ==
    /\ pc[p] = "abort" /\ at[p] > Len(plan[p])
    /\ PlanFails(p)
    /\ UNCHANGED <<prefix, lock, job, next, task, at, budget>>

----------------------------------------------------------------------------
(***************************************************************************)
(* The blocking thread of a bottle: materialize_and_relocate_bottle.       *)
(***************************************************************************)

\* copy_tree into the temporary keg, which replaces one left by a crash.
CopyTree(p, f) ==
    /\ task[p][f] = "copying"
    /\ tmp' = [tmp EXCEPT ![f] = TRUE]
    /\ SetTask(p, f, "swapping")
    /\ UNCHANGED <<oldKeg, keg, receipt, opt, links, lock, pc, job, next, at,
                   outcome, budget>>

\* Mutant of SwapKeg: the copy is merged into the existing keg, receipt included.
MergeKeg(p, f) ==
    /\ task[p][f] = "swapping"
    /\ keg' = [keg EXCEPT ![f] = IF tmp[f] THEN "raw" ELSE "absent"]
    /\ tmp' = [tmp EXCEPT ![f] = FALSE]
    /\ SetTask(p, f, IF tmp[f] THEN "opting" ELSE "failed")
    /\ UNCHANGED <<oldKeg, receipt, opt, links, lock, pc, job, next, at, outcome,
                   budget>>

\* An existing keg is removed, then the copy renamed into its place.
SwapKeg(p, f) ==
    /\ task[p][f] = "swapping"
    /\ keg' = [keg EXCEPT ![f] = IF tmp[f] THEN "raw" ELSE "absent"]
    /\ receipt' = [receipt EXCEPT ![f] = "none"]
    /\ tmp' = [tmp EXCEPT ![f] = FALSE]
    /\ SetTask(p, f, IF tmp[f] THEN "opting" ELSE "failed")
    /\ UNCHANGED <<oldKeg, opt, links, lock, pc, job, next, at, outcome, budget>>

SwitchOpt(p, f) ==
    /\ task[p][f] = "opting"
    /\ RefreshOptLink(f, "new")
    /\ SetTask(p, f, "relocating")
    /\ UNCHANGED <<oldKeg, keg, tmp, receipt, links, lock, pc, job, next, at,
                   outcome, budget>>

\* relocate_keg_with_manifest reads files of the keg: it must still be there.
RelocateKeg(p, f) ==
    /\ task[p][f] = "relocating"
    /\ keg' = [keg EXCEPT ![f] = IF @ = "absent" THEN @ ELSE "ready"]
    /\ SetTask(p, f, IF keg[f] = "absent" THEN "failed" ELSE "prepared")
    /\ UNCHANGED <<oldKeg, tmp, receipt, opt, links, lock, pc, job, next, at,
                   outcome, budget>>

\* The thread of a source archive unpacks it into a tempdir of its own.
Unpack(p, f) ==
    /\ task[p][f] = "unpacking"
    /\ SetTask(p, f, "prepared")
    /\ UNCHANGED <<prefix, lock, pc, job, next, at, outcome, budget>>

\* An I/O error in any of them; what was done so far stays.
ThreadFails(p, f) ==
    /\ task[p][f] \in Running /\ "materialize" \in Faults
    /\ SetTask(p, f, "failed")
    /\ UNCHANGED <<prefix, lock, pc, job, next, at, outcome, budget>>

----------------------------------------------------------------------------
(***************************************************************************)
(* Finalize: the entries of the plan one after the other.                  *)
(***************************************************************************)
Entry(p) == plan[p][at[p]]

\* The for loop of execute_install_plan reaches entry i, or its end.
Proceed(p, i) ==
    /\ at' = [at EXCEPT ![p] = i]
    /\ IF i <= Len(plan[p])
       THEN /\ Goto(p, IF plan[p][i] \in SourceBuilt THEN "build" ELSE "etcvar")
            /\ UNCHANGED <<todo, outcome>>
       ELSE IF op[p] = "upgrade"
       THEN /\ Goto(p, "next")
            /\ todo' = [todo EXCEPT ![p] = Tail(@)]
            /\ UNCHANGED outcome
       ELSE Return(p, "ok") /\ UNCHANGED todo

\* Mutant of AcquireDone: the threads' JoinHandles are not awaited.
AcquireDoneUnjoined(p) ==
    /\ pc[p] = "acquire" /\ next[p] = Len(plan[p])
    /\ \A f \in Entries(p) : task[p][f] # "fetching"
    /\ Proceed(p, 1)
    /\ UNCHANGED <<prefix, lock, op, wanted, plan, next, task, budget>>

\* The barrier between the stages.
AcquireDone(p) ==
    /\ pc[p] = "acquire" /\ next[p] = Len(plan[p])
    /\ \A f \in Entries(p) : task[p][f] = "acquired"
    /\ Proceed(p, 1)
    /\ UNCHANGED <<prefix, lock, op, wanted, plan, next, task, budget>>

\* The parts of a step of finalize that every one of them shares.
At(p, step) == pc[p] = step
Stay == UNCHANGED <<lock, job, next, task, at, budget>>
StepTo(p, step) == Goto(p, step) /\ UNCHANGED outcome /\ Stay

\* Mutant of StepFails: the error is logged and the loop goes on.
StepSkipped(p) ==
    Proceed(p, at[p] + 1) /\ UNCHANGED <<lock, op, wanted, plan, next, task, budget>>

StepFails(p) == PlanFails(p) /\ Stay

\* An error that is answered with cleanup_failed_install.  (A fault has the name of
\* the step it strikes.)
CanFail(p) ==
    \/ pc[p] \in {"build", "etcvar", "hook", "link", "receipt"} \intersect Faults
    \/ pc[p] \in {"hook", "link"} /\ Collides(Entry(p), "new")
    \/ At(p, "receipt") /\ keg[Entry(p)] = "absent"

\* build_source_to_keg: make install writes straight into the keg.
Build(p) ==
    /\ At(p, "build")
    /\ keg' = [keg EXCEPT ![Entry(p)] = "ready"]
    /\ StepTo(p, "optlink")
    /\ UNCHANGED <<oldKeg, tmp, receipt, opt, links>>

BuildFails(p) ==
    /\ At(p, "build") /\ CanFail(p)
    /\ CleanupFailedInstall(Entry(p))
    /\ StepFails(p)

OptLink(p) ==
    /\ At(p, "optlink")
    /\ RefreshOptLink(Entry(p), "new")
    /\ StepTo(p, "etcvar")
    /\ UNCHANGED <<oldKeg, keg, tmp, receipt, links>>

\* Its error leaves through `?`: the built keg stays.
OptLinkFails(p) ==
    /\ At(p, "optlink") /\ "optlink" \in Faults
    /\ StepFails(p)
    /\ UNCHANGED prefix

\* install_bottle_etc_var; its files are modelled by their rollback only.
EtcVar(p) ==
    /\ At(p, "etcvar")
    /\ StepTo(p, IF Entry(p) \in PostInstall THEN "hook" ELSE "link")
    /\ UNCHANGED prefix

EtcVarFails(p) ==
    /\ At(p, "etcvar") /\ CanFail(p)
    /\ CleanupFailedInstall(Entry(p))
    /\ StepFails(p)

\* execute_post_install: link first, then run the hook.
Hook(p) ==
    /\ At(p, "hook") /\ ~Collides(Entry(p), "new")
    /\ LinkKeg(Entry(p), "new")
    /\ StepTo(p, "link")
    /\ UNCHANGED <<oldKeg, keg, tmp, receipt, opt>>

\* Fetching its source, the pre-link or the hook fails.  A failing rollback of
\* the bottle's etc/var files is only logged here, so the cleanup runs.
HookFails(p) ==
    /\ At(p, "hook") /\ CanFail(p)
    /\ CleanupFailedInstall(Entry(p))
    /\ StepFails(p)

\* finalize_installed_formula.
Link(p) ==
    /\ At(p, "link") /\ ~Collides(Entry(p), "new")
    /\ LinkKeg(Entry(p), "new")
    /\ StepTo(p, "receipt")
    /\ UNCHANGED <<oldKeg, keg, tmp, receipt, opt>>

Receipt(p) ==
    /\ At(p, "receipt") /\ keg[Entry(p)] # "absent"
    /\ WriteReceipt(Entry(p))
    /\ StepTo(p, "commit")
    /\ UNCHANGED <<oldKeg, keg, tmp, opt, links>>

\* Linking or the receipt fails: both transactions roll back, then the cleanup.
FinalizeFails(p) ==
    /\ pc[p] \in {"link", "receipt"} /\ CanFail(p)
    /\ CleanupFailedInstall(Entry(p))
    /\ StepFails(p)

\* A rollback that fails leaves through `?`, before the cleanup: partial links,
\* or a receipt that was not written out, stay with the keg.
RollbackFails(p) ==
    /\ pc[p] \in {"link", "receipt"} /\ CanFail(p) /\ "rollback" \in Faults
    /\ receipt' \in {receipt, IF At(p, "receipt") /\ keg[Entry(p)] # "absent"
                              THEN [receipt EXCEPT ![Entry(p)] = "torn"] ELSE receipt}
    /\ \/ At(p, "link") /\ LinkPartly(Entry(p), "new")
       \/ UNCHANGED links
    /\ StepFails(p)
    /\ UNCHANGED <<oldKeg, keg, tmp, opt>>

Commit(p) ==
    /\ At(p, "commit")
    /\ Proceed(p, at[p] + 1)
    /\ UNCHANGED <<prefix, lock, op, wanted, plan, next, task, budget>>

\* PostInstallTransaction::commit removes the backups, after the receipt.
CommitFails(p) ==
    /\ At(p, "commit") /\ "commit" \in Faults /\ Entry(p) \in PostInstall
    /\ StepFails(p)
    /\ UNCHANGED prefix

----------------------------------------------------------------------------
(***************************************************************************)
(* The end of an operation, and of a process.                              *)
(***************************************************************************)

\* Mutant of Unlock: a lock file whose existence is the lock, not removed.
LeaveLock(p) ==
    /\ pc[p] = "unlock"
    /\ Goto(p, "exit")
    /\ UNCHANGED <<prefix, lock, job, next, task, at, outcome, budget>>

\* The FileLock is dropped when the operation returns.
Unlock(p) ==
    /\ pc[p] = "unlock"
    /\ lock' = NoProc
    /\ Goto(p, "exit")
    /\ UNCHANGED <<prefix, job, next, task, at, outcome, budget>>

\* The runtime is dropped at the end of main: it waits for its threads.
Exit(p) ==
    /\ pc[p] = "exit"
    /\ \A f \in Formula : task[p][f] \notin Running
    /\ Gone(p)
    /\ UNCHANGED <<prefix, lock, budget>>

\* Where the process may be in the middle of cleanup_failed_install.
Cleaning(p) ==
    \/ CanFail(p)
    \/ pc[p] = "abort" /\ at[p] <= Len(plan[p]) /\ keg[Entry(p)] # "absent"

\* Where it may be in the middle of linking or unlinking.
LinkingPartly(p) ==
    \/ /\ pc[p] \in {"hook", "link"} /\ ~Collides(Entry(p), "new")
       /\ LinkPartly(Entry(p), "new")
    \/ pc[p] = "next" /\ todo[p] # <<>> /\ UnlinkPartly(Candidate(p), "old")
    \/ pc[p] = "restore" /\ LinkPartly(Candidate(p), "old")

\* What a step that changes several files leaves when it is cut in the middle.
CutShort(p) ==
    \/ UNCHANGED <<keg, receipt, opt, links>>
    \/ Cleaning(p) /\ CleanupPartly(Entry(p))
    \/ LinkingPartly(p) /\ UNCHANGED <<keg, receipt, opt>>
    \/ /\ At(p, "receipt") /\ keg[Entry(p)] # "absent"
       /\ receipt' = [receipt EXCEPT ![Entry(p)] = "torn"]
       /\ UNCHANGED <<keg, opt, links>>
    \/ /\ At(p, "build")
       /\ keg' = [keg EXCEPT ![Entry(p)] = "raw"]
       /\ UNCHANGED <<receipt, opt, links>>
    \/ /\ \E f \in Formula : task[p][f] = "swapping" /\ RemoveKegPartly(f)
       /\ UNCHANGED <<opt, links>>

\* The process dies with its threads; the kernel releases the lock.
Crash(p) ==
    /\ "crash" \in Faults /\ pc[p] # "idle"
    /\ CutShort(p)
    /\ lock' = IF lock = p THEN NoProc ELSE lock
    /\ Gone(p)
    /\ UNCHANGED <<oldKeg, tmp, budget>>

----------------------------------------------------------------------------
Planning(p) ==
    \/ AcquireLock(p) \/ ResolvePlanOnly(p) \/ ResolveInstall(p)
    \/ ResolveUpgrade(p) \/ ResolveFails(p)

Upgrading(p) ==
    \/ UpgradeDone(p) \/ UnlinkOld(p) \/ UnlinkOldFails(p)
    \/ PlanUpgrade(p) \/ PlanUpgradeFails(p) \/ Restore(p)

Acquiring(p) ==
    \/ PullEntry(p) \/ AbortEntry(p) \/ AbortDone(p) \/ AcquireDone(p)
    \/ \E f \in Formula : Fetched(p, f) \/ Acquired(p, f) \/ AcquireFails(p, f)

Finalizing(p) ==
    \/ Build(p) \/ BuildFails(p) \/ OptLink(p) \/ OptLinkFails(p)
    \/ EtcVar(p) \/ EtcVarFails(p) \/ Hook(p) \/ HookFails(p)
    \/ Link(p) \/ Receipt(p) \/ FinalizeFails(p) \/ RollbackFails(p)
    \/ Commit(p) \/ CommitFails(p)

Ending(p) == Unlock(p) \/ Exit(p)

Thread(p, f) ==
    \/ CopyTree(p, f) \/ SwapKeg(p, f) \/ SwitchOpt(p, f) \/ RelocateKeg(p, f)
    \/ Unpack(p, f) \/ ThreadFails(p, f)

Async(p) ==
    Planning(p) \/ Upgrading(p) \/ Acquiring(p) \/ Finalizing(p) \/ Ending(p)

Next ==
    \E p \in Proc :
        \/ Start(p)
        \/ Async(p)
        \/ \E f \in Formula : Thread(p, f)
        \/ Crash(p)

Spec == Init /\ [][Next]_vars

\* A process that runs is scheduled, and so are its threads: downloads end (or
\* fail), and the lock of an operation that ended is free.
Fairness ==
    \A p \in Proc : /\ WF_vars(Async(p))
                    /\ \A f \in Formula : WF_vars(Thread(p, f))

FairSpec == Spec /\ Fairness

----------------------------------------------------------------------------
(***************************************************************************)
(* Properties of one process at a time.                                    *)
(***************************************************************************)
Quiet == lock = NoProc

\* A formula seen at version v is linked from v, and only from v.
Whole(f, v) ==
    /\ v = "new" => keg[f] = "ready"
    /\ KegExists(f, v)
    /\ f \notin KegOnly => links[f][v] = "full"
    /\ links[f][Other(v)] = "none"

\* Between operations whatever bd list shows is complete: its keg is relocated,
\* all its links are there, and no link of the other version is left, whatever
\* failed on the way (orchestrate.rs upgrade, execution.rs finalize_with_keg).
ShownIsWhole == Quiet => \A f \in Formula : Installed(f) => Whole(f, Visible(f))

\* Between operations the dependencies of an installed formula are installed:
\* the finalize loop goes in topological order and stops at the first error.
DepsInstalled ==
    Quiet => \A f \in Formula : Installed(f) => \A d \in Deps[f] : Installed(d)

\* A formula with a keg of an older version is installed between operations: a
\* failed upgrade puts that version back (restore_previous_upgrade).
NeverLost == Quiet => \A f \in Formula : oldKeg[f] => Installed(f)

Clean(f) ==
    /\ keg[f] = "absent" /\ receipt[f] = "none" /\ opt[f] # "new"
    /\ links[f]["new"] = "none"

\* When finalizing an entry failed, nothing of the new version is left.
FailedEntryClean ==
    \A p \in Proc :
        (pc[p] \in {"restore", "unlock"} /\ outcome[p] = "err" /\ at[p] <= Len(plan[p]))
            => Clean(Entry(p))

\* install returned Ok: the names and all they need are installed, and what this
\* run installed is complete; upgrade returned Ok: no name is left outdated but
\* those whose post_install is not supported.  Whatever crashed before.
OkMeansInstalled ==
    \A p \in Proc : (pc[p] = "unlock" /\ outcome[p] = "ok") =>
        CASE op[p] = "install" ->
                /\ \A f \in Closure(wanted[p]) : Installed(f)
                /\ \A f \in Entries(p) : Visible(f) = "new" /\ Whole(f, "new")
          [] op[p] = "upgrade" ->
                \A f \in wanted[p] \ PostInstall : Visible(f) # "old"
          [] OTHER -> TRUE

\* What is seen at its latest version is relocated, or built to the end, at every
\* moment: neither a keg that is being replaced nor one that a crash left half
\* copied, half built or half removed is taken for an installed one.  (The receipt
\* is the last thing written, materialize drops it with the keg, and what is being
\* worked on is not shown: execution.rs, materialize.rs, discover.rs.)
ShownIsReady == \A f \in Formula : Visible(f) = "new" => keg[f] = "ready"

\* No step makes an installed formula vanish or change version, except an upgrade that
\* is at this formula, and a source build of it that fails or dies after its opt link, when
\* that link showed the receipt of an earlier run that was cut short.
OnlyUpgradeTouches ==
    [][\A f \in Formula : (Installed(f) /\ Visible(f)' # Visible(f)) =>
            \E p \in Proc :
                \/ op[p] = "upgrade" /\ todo[p] # <<>> /\ f = Candidate(p)
                \/ pc[p] \in FinalizeSteps /\ f = Entry(p) /\ f \in SourceBuilt]_vars

----------------------------------------------------------------------------
(***************************************************************************)
(* Properties of several processes.                                        *)
(***************************************************************************)

\* A blocking thread lives only while its process holds the lock.
NoOrphans ==
    \A p \in Proc, f \in Formula : task[p][f] \in Running => lock = p

\* The prefix changes only while brewdock.lock is held.
MutatedUnderLock == [][prefix' # prefix => lock # NoProc]_vars

\* A process between acquiring and dropping its FileLock is the lock's holder.
HoldsLock ==
    \A p \in Proc : pc[p] \notin {"idle", "lock", "exit"} <=> lock = p

\* Every operation ends, and a blocked one gets its turn.
OperationsEnd == \A p \in Proc : pc[p] # "idle" ~> pc[p] = "idle"

----------------------------------------------------------------------------
(***************************************************************************)
(* What bd list shows implements the life cycle of a formula.              *)
(***************************************************************************)
Stage(f) ==
    IF Installed(f) THEN Visible(f)
    ELSE IF oldKeg[f] THEN "replacing" ELSE "absent"

Lifecycle == INSTANCE FormulaLifecycle WITH stage <- [f \in Formula |-> Stage(f)]

ImplementsLifecycle == Lifecycle!Spec

----------------------------------------------------------------------------
(***************************************************************************)
(* A claim of the documentation.                                           *)
(***************************************************************************)

\* TODO.md:295: a failing formula is rolled back and does "not leave unrelated
\* successful formulae in an inconsistent linked state".
NoHalfInstalled ==
    Quiet => \A f \in Formula : Clean(f) \/ (Installed(f) /\ Whole(f, Visible(f)))
=============================================================================
