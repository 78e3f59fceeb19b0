------------------------ MODULE InstallOutcome_proofs ------------------------
(***************************************************************************)
(* What an operation returns, and what it leaves: Ok means installed, and  *)
(* a failed entry is gone.  For every set of formulae, graph and number of *)
(* processes, when no download and no blocking thread fails; the rest may  *)
(* fail, and processes crash.                                              *)
(***************************************************************************)
EXTENDS InstallPipeline_proofs

\* The steps of a process that has the lock, and those at the ends of a command.
Inside(p) ==
    \/ Resolving(p) \/ Upgrading(p) \/ Acquiring(p) \/ Finalizing(p)
    \/ \E f \in Formula : Thread(p, f)

Ends(p) == Start(p) \/ AcquireLock(p) \/ Unlock(p) \/ Exit(p) \/ Crash(p)

\* The install step of a command runs: its plan is being carried out.
Working(p) == pc[p] \in FinalizeSteps \union {"acquire"}

SameShown(f) == opt'[f] = opt[f] /\ receipt'[f] = receipt[f]
Same(f) == SameShown(f) /\ keg'[f] = keg[f] /\ links'[f] = links[f]

\* The step of another process leaves q alone, and what q is at.
Undisturbed(q) ==
    /\ pc'[q] = pc[q] /\ op'[q] = op[q] /\ wanted'[q] = wanted[q] /\ todo'[q] = todo[q]
    /\ plan'[q] = plan[q] /\ task'[q] = task[q] /\ at'[q] = at[q] /\ outcome'[q] = outcome[q]
    /\ pc[q] \in Outside \/ UNCHANGED <<oldKeg, keg, receipt, opt, links>>

----------------------------------------------------------------------------
(***************************************************************************)
(* One process works at a time, and on the entries of its plan.            *)
(***************************************************************************)
LEMMA NextIsOfOne ==
    ASSUME Next
    PROVE  \E p \in Proc : Inside(p) \/ Ends(p)
BY DEF Next, Async, Planning, Resolving, Ending, Inside, Ends

LEMMA InsideKeepsOthers ==
    ASSUME Safe, NEW p \in Proc, Inside(p), NEW q \in Proc, q # p
    PROVE  /\ op'[q] = op[q] /\ wanted'[q] = wanted[q] /\ todo'[q] = todo[q]
           /\ plan'[q] = plan[q] /\ task'[q] = task[q] /\ at'[q] = at[q] /\ outcome'[q] = outcome[q]
<1> DEFINE Others ==
        /\ op'[q] = op[q] /\ wanted'[q] = wanted[q] /\ todo'[q] = todo[q]
        /\ plan'[q] = plan[q] /\ task'[q] = task[q] /\ at'[q] = at[q] /\ outcome'[q] = outcome[q]
<1> SUFFICES Others
  OBVIOUS
<1> USE DEF Safe, Typed, TypeOK, job, BeginPlan, Return, PlanFails
<1>1. CASE Resolving(p)
  BY <1>1 DEF Resolving, ResolvePlanOnly, ResolveInstall, ResolveUpgrade, ResolveFails
<1>2. CASE Upgrading(p)
  <2>1. CASE PlanUpgrade(p)
    <3>1. \E s : BeginPlan(p, s)
      BY <2>1 DEF PlanUpgrade
    <3> QED
      BY <2>1, <3>1 DEF PlanUpgrade
  <2>2. CASE ~PlanUpgrade(p)
    BY <1>2, <2>2 DEF Upgrading, UpgradeDone, UnlinkOld, UnlinkOldFails, PlanUpgradeFails, Restore
  <2> QED
    BY <2>1, <2>2
<1>3. CASE Acquiring(p)
  <2>1. CASE PullEntry(p) \/ AbortEntry(p) \/ AbortDone(p)
    BY <2>1 DEF PullEntry, AbortEntry, AbortDone, SetTask
  <2>2. CASE AcquireDone(p)
    BY <2>2 DEF AcquireDone, Proceed
  <2>3. ASSUME NEW f \in Formula, Fetched(p, f) \/ Acquired(p, f) \/ AcquireFails(p, f) PROVE Others
    BY <2>3 DEF Fetched, Acquired, AcquireFails, SetTask
  <2> QED
    BY <1>3, <2>1, <2>2, <2>3 DEF Acquiring
<1>4. CASE Finalizing(p)
  <2>1. CASE Commit(p)
    BY <2>1 DEF Commit, Proceed
  <2>2. CASE ~Commit(p)
    BY <1>4, <2>2 DEF Finalizing, Build, OptLink, EtcVar, Hook, Link, Receipt, BuildFails, OptLinkFails,
       EtcVarFails, HookFails, FinalizeFails, RollbackFails, CommitFails, StepFails, Stay, StepTo
  <2> QED
    BY <2>1, <2>2
<1>5. CASE \E f \in Formula : Thread(p, f)
  BY <1>5 DEF Thread, CopyTree, SwapKeg, SwitchOpt, RelocateKeg, Unpack, ThreadFails, SetTask
<1> QED
  BY <1>1, <1>2, <1>3, <1>4, <1>5 DEF Inside

\* A process that takes a step of its operation is in it: the others are not.
LEMMA InsideHasLock ==
    ASSUME Safe, NEW p \in Proc, Inside(p)
    PROVE  pc[p] \notin Outside /\ \A q \in Proc : q # p => pc[q] \in Outside /\ pc'[q] = pc[q]
<1>0. Typed /\ HoldsLock /\ Awaited
  BY DEF Safe
<1>1. pc[p] \notin Outside /\ \A q \in Proc : q # p => pc'[q] = pc[q]
  <2>1. CASE \E f \in Formula : Thread(p, f)
    BY <1>0, <2>1, ThreadsKeepLock DEF Thread, CopyTree, SwapKeg, SwitchOpt, RelocateKeg, Unpack,
       ThreadFails, Running, Awaited, Outside
  <2>2. CASE ~\E f \in Formula : Thread(p, f)
    BY <1>0, <2>2, StepsInside DEF Inside, Typed, TypeOK
  <2> QED
    BY <2>1, <2>2
<1> QED
  BY <1>0, <1>1 DEF HoldsLock, Outside

LEMMA OthersUndisturbed ==
    ASSUME Safe, NEW p \in Proc, Inside(p) \/ Ends(p), NEW q \in Proc, q # p
    PROVE  Undisturbed(q)
<1>0. Typed /\ HoldsLock /\ Awaited
  BY DEF Safe
<1>1. CASE Inside(p)
  BY <1>1, InsideKeepsOthers, InsideHasLock DEF Undisturbed
<1>2. CASE Ends(p)
  <2>1. /\ pc'[q] = pc[q] /\ task'[q] = task[q] /\ plan'[q] = plan[q] /\ at'[q] = at[q]
        /\ op'[q] = op[q] /\ todo'[q] = todo[q] /\ wanted'[q] = wanted[q] /\ outcome'[q] = outcome[q]
    BY <1>0, <1>2 DEF Ends, Start, AcquireLock, Unlock, Exit, Crash, Gone, BeginPlan, Goto, job,
       Typed, TypeOK
  <2>2. CASE UNCHANGED <<oldKeg, keg, receipt, opt, links>>
    BY <2>1, <2>2 DEF Undisturbed
  <2>3. CASE ~UNCHANGED <<oldKeg, keg, receipt, opt, links>>
    <3>1. Crash(p)
      BY <1>2, <2>3 DEF Ends, Start, AcquireLock, Unlock, Exit, prefix
    <3>2. pc[p] \notin Outside
      BY <1>0, <2>3, <3>1, CrashInside DEF Crash
    <3>3. pc[q] \in Outside
      BY <1>0, <3>2 DEF HoldsLock, Outside
    <3> QED
      BY <2>1, <3>3 DEF Undisturbed
  <2> QED
    BY <2>2, <2>3
<1> QED
  BY <1>1, <1>2

LEMMA AfterEnds ==
    ASSUME Safe, NEW p \in Proc, Ends(p)
    PROVE  pc'[p] \in Outside \union {"resolve"}
BY DEF Ends, Start, AcquireLock, Unlock, Exit, Crash, Gone, Goto, Outside, Safe, Typed, TypeOK

\* A step of the plan changes of the prefix what belongs to an entry at hand.
LEMMA ThreadOnEntry ==
    ASSUME Safe, NEW p \in Proc, NEW f \in Formula, Thread(p, f)
    PROVE  /\ pc[p] = "acquire" /\ f \in Entries(p)
           /\ UNCHANGED <<pc, op, wanted, todo, plan, at, outcome, oldKeg, links>>
           /\ \A g \in Formula : g # f => Same(g)
<1>1. Typed /\ Awaited
  BY DEF Safe
<1>2. pc[p] = "acquire" /\ f \in Entries(p)
  BY <1>1 DEF Thread, CopyTree, SwapKeg, SwitchOpt, RelocateKeg, Unpack, ThreadFails, Running, Awaited
<1> USE DEF Thread, CopyTree, SwapKeg, SwitchOpt, RelocateKeg, Unpack, ThreadFails, prefix, job
<1>3. UNCHANGED <<pc, op, wanted, todo, plan, at, outcome, oldKeg, links>>
  OBVIOUS
<1>4. \A g \in Formula : g # f => Same(g)
  BY <1>1 DEF RefreshOptLink, Same, SameShown, Typed, TypeOK, PrefixTypeOK
<1> QED
  BY <1>2, <1>3, <1>4

LEMMA FinalizeOnEntry ==
    ASSUME Safe, NEW p \in Proc, Finalizing(p)
    PROVE  /\ pc[p] \in FinalizeSteps /\ Entry(p) \in Entries(p) /\ Entry(p) \in Formula
           /\ UNCHANGED <<op, wanted, plan, oldKeg>>
           /\ \A g \in Formula : g # Entry(p) => Same(g)
<1>1. Typed /\ PrefixTypeOK
  BY DEF Safe, Typed, TypeOK
<1>2. pc[p] \in FinalizeSteps
  BY DEF Finalizing, Build, BuildFails, OptLink, OptLinkFails, EtcVar, EtcVarFails,
     Hook, HookFails, Link, Receipt, FinalizeFails, RollbackFails, Commit, CommitFails,
     At, FinalizeSteps
<1>3. at[p] \in DOMAIN plan[p] /\ Entry(p) \in Formula
  BY <1>2, EntriesAreFormulae
<1>4. Entry(p) \in Entries(p)
  BY <1>3 DEF Entry, Entries, Range
<1>5. UNCHANGED <<op, wanted, plan, oldKeg>>
  BY DEF Finalizing, Build, BuildFails, OptLink, OptLinkFails, EtcVar, EtcVarFails,
     Hook, HookFails, Link, Receipt, FinalizeFails, RollbackFails, Commit, CommitFails,
     StepTo, StepFails, Stay, job, prefix, CleanupFailedInstall
<1>6. \A g \in Formula : g # Entry(p) => Same(g)
  <2> USE <1>1 DEF PrefixTypeOK, Same, SameShown, prefix
  <2>1. CASE UNCHANGED prefix
    BY <2>1
  <2>2. CASE CleanupFailedInstall(Entry(p))
    BY <2>2 DEF CleanupFailedInstall, Unlinked
  <2>3. CASE RollbackFails(p)
    BY <2>3 DEF RollbackFails, LinkPartly
  <2>4. CASE Build(p) \/ OptLink(p)
    BY <2>4 DEF Build, OptLink, RefreshOptLink
  <2>5. CASE Hook(p) \/ Link(p)
    BY <2>5 DEF Hook, Link, LinkKeg
  <2>6. CASE Receipt(p)
    BY <2>6 DEF Receipt, WriteReceipt
  <2> QED
    BY <2>1, <2>2, <2>3, <2>4, <2>5, <2>6 DEF Finalizing, BuildFails, OptLinkFails, EtcVar, EtcVarFails,
       HookFails, FinalizeFails, Commit, CommitFails
<1> QED
  BY <1>2, <1>3, <1>4, <1>5, <1>6

LEMMA AcquireLeavesPrefix ==
    ASSUME NoAcquireFaults, Kept, NEW p \in Proc, Acquiring(p)
    PROVE  /\ pc[p] = "acquire" /\ UNCHANGED <<prefix, op, wanted, plan>>
           /\ AcquireDone(p) \/ UNCHANGED <<pc, todo, at, outcome>>
<1>1. ~AbortEntry(p) /\ ~AbortDone(p)
  BY DEF Kept, Spared, AbortEntry, AbortDone
<1>2. ASSUME NEW f \in Formula, AcquireFails(p, f) PROVE FALSE
  BY <1>2 DEF AcquireFails, Kept, Safe, Awaited, NoAcquireFaults
<1> QED
  BY <1>1, <1>2 DEF Acquiring, PullEntry, AcquireDone, Fetched, Acquired, job

\* No step of the plan puts an opt link back to the old version.
LEMMA WorksOnEntries ==
    ASSUME NoAcquireFaults, Kept, NEW p \in Proc,
           Acquiring(p) \/ Finalizing(p) \/ \E f \in Formula : Thread(p, f)
    PROVE  /\ Working(p) /\ UNCHANGED <<op, wanted, plan, oldKeg>>
           /\ \A f \in Formula \ Entries(p) : Same(f)
           /\ \A f \in Formula : Visible(f)' = "old" => Visible(f) = "old"
<1>0. Safe /\ PrefixTypeOK
  BY DEF Kept, Safe, Typed, TypeOK
<1>1. /\ Working(p) /\ UNCHANGED <<op, wanted, plan, oldKeg>>
      /\ \A f \in Formula \ Entries(p) : Same(f)
  <2>1. CASE Acquiring(p)
    BY <2>1, AcquireLeavesPrefix DEF Working, Same, SameShown, prefix
  <2>2. CASE Finalizing(p)
    BY <1>0, <2>2, FinalizeOnEntry DEF Working
  <2>3. CASE \E f \in Formula : Thread(p, f)
    BY <1>0, <2>3, ThreadOnEntry DEF Working
  <2> QED
    BY <2>1, <2>2, <2>3
<1>2. \A f \in Formula : opt'[f] = "old" => opt[f] = "old"
  <2> USE <1>0 DEF PrefixTypeOK
  <2>1. CASE Acquiring(p)
    BY <2>1, AcquireLeavesPrefix DEF prefix
  <2>2. CASE Finalizing(p)
    BY <2>2 DEF Finalizing, Build, BuildFails, OptLink, OptLinkFails, EtcVar, EtcVarFails,
       Hook, HookFails, Link, Receipt, FinalizeFails, RollbackFails, Commit, CommitFails,
       CleanupFailedInstall, RefreshOptLink, prefix
  <2>3. CASE \E f \in Formula : Thread(p, f)
    BY <2>3 DEF Thread, CopyTree, SwapKeg, SwitchOpt, RelocateKeg, Unpack, ThreadFails,
       RefreshOptLink, prefix
  <2> QED
    BY <2>1, <2>2, <2>3
<1>3. \A f \in Formula : Visible(f)' = "old" => Visible(f) = "old"
  BY <1>1, <1>2 DEF Visible
<1> QED
  BY <1>1, <1>3

----------------------------------------------------------------------------
(***************************************************************************)
(* What the entries of a plan have on the way to their receipt.            *)
(***************************************************************************)
Linked(f) ==
    /\ f \notin KegOnly => links[f]["new"] = "full"
    /\ links[f]["old"] = "none"

Complete(f) == ShownNew(f) /\ keg[f] = "ready" /\ Linked(f)

\* A bottle has its opt link from the acquire stage on, a source build from its opt
\* step; the entry at hand has its links, then its receipt; those before it have all.
OpenedBy(p) ==
    /\ pc[p] = "acquire" => \A f \in Formula \ SourceBuilt :
            task[p][f] \in {"relocating", "prepared", "acquired"} => opt[f] = "new"
    /\ pc[p] \in FinalizeSteps => \A i \in DOMAIN plan[p] :
            /\ i >= at[p] /\ plan[p][i] \notin SourceBuilt => opt[plan[p][i]] = "new"
            /\ i < at[p] => Complete(plan[p][i])
    /\ pc[p] \in FinalizeSteps \ {"build", "optlink"} => opt[Entry(p)] = "new"
    /\ pc[p] \in {"receipt", "commit"} => Linked(Entry(p))
    /\ pc[p] = "commit" => receipt[Entry(p)] = "valid"

\* Nothing of a keg-only formula is linked into the prefix.
KegOnlyBare == \A f \in KegOnly, v \in Version : links[f][v] = "none"

Opened == KegOnlyBare /\ \A p \in Proc : OpenedBy(p)

\* Every step links, or unlinks, one version of one formula.
LEMMA LinksStep ==
    ASSUME Safe, Next
    PROVE  \E f : \E v \in Version :
                \/ LinkKeg(f, v) \/ LinkPartly(f, v) \/ UnlinkPartly(f, v)
                \/ links' = Unlinked(f, v) \/ UNCHANGED links
<1> DEFINE OneLinked ==
        \E f : \E v \in Version :
            \/ LinkKeg(f, v) \/ LinkPartly(f, v) \/ UnlinkPartly(f, v)
            \/ links' = Unlinked(f, v) \/ UNCHANGED links
<1> SUFFICES OneLinked
  OBVIOUS
<1> USE DEF Version
<1>1. PICK p \in Proc : Inside(p) \/ Ends(p)
  BY NextIsOfOne
<1>2. CASE UNCHANGED links
  BY <1>2
<1>3. CASE Upgrading(p)
  <2>1. CASE UnlinkOld(p)
    BY <2>1 DEF UnlinkOld
  <2>2. CASE UnlinkOldFails(p)
    BY <2>2 DEF UnlinkOldFails
  <2>3. CASE Restore(p)
    BY <2>3 DEF Restore, Relinked
  <2> QED
    BY <1>2, <1>3, <2>1, <2>2, <2>3 DEF Upgrading, UpgradeDone, PlanUpgrade, PlanUpgradeFails, prefix
<1>4. CASE Acquiring(p)
  <2>1. CASE AbortEntry(p)
    BY <1>2, <2>1 DEF AbortEntry, CleanupFailedInstall, prefix
  <2> QED
    BY <1>2, <1>4, <2>1 DEF Acquiring, PullEntry, AbortDone, AcquireDone, Fetched, Acquired,
       AcquireFails, prefix
<1>5. CASE Finalizing(p)
  <2>1. CASE CleanupFailedInstall(Entry(p))
    BY <2>1 DEF CleanupFailedInstall
  <2>2. CASE Hook(p) \/ Link(p)
    BY <2>2 DEF Hook, Link
  <2>3. CASE RollbackFails(p)
    BY <2>3 DEF RollbackFails
  <2> QED
    BY <1>2, <1>5, <2>1, <2>2, <2>3 DEF Finalizing, Build, BuildFails, OptLink, OptLinkFails, EtcVar,
       EtcVarFails, HookFails, Receipt, FinalizeFails, Commit, CommitFails, prefix
<1>6. CASE Crash(p)
  <2>1. CutShort(p)
    BY <1>6 DEF Crash
  <2>2. CASE CleanupPartly(Entry(p))
    BY <2>2 DEF CleanupPartly
  <2>3. CASE LinkingPartly(p)
    BY <2>3 DEF LinkingPartly
  <2> QED
    BY <1>2, <2>1, <2>2, <2>3 DEF CutShort
<1>7. CASE Resolving(p) \/ (\E f \in Formula : Thread(p, f)) \/ (Ends(p) /\ ~Crash(p))
  <2>1. UNCHANGED links
    BY <1>7, ThreadOnEntry DEF Resolving, ResolvePlanOnly, ResolveInstall, ResolveUpgrade, ResolveFails,
       Ends, Start, AcquireLock, Unlock, Exit, prefix
  <2> QED
    BY <1>2, <2>1
<1> QED
  BY <1>1, <1>3, <1>4, <1>5, <1>6, <1>7 DEF Inside

LEMMA KegOnlyStep ==
    ASSUME Safe, KegOnlyBare, Next
    PROVE  KegOnlyBare'
<1>1. PICK f : \E v \in Version :
            \/ LinkKeg(f, v) \/ LinkPartly(f, v) \/ UnlinkPartly(f, v)
            \/ links' = Unlinked(f, v) \/ UNCHANGED links
  BY LinksStep
<1> PICK v \in Version :
            \/ LinkKeg(f, v) \/ LinkPartly(f, v) \/ UnlinkPartly(f, v)
            \/ links' = Unlinked(f, v) \/ UNCHANGED links
  BY <1>1
<1> USE KegOnlyAssumption DEF KegOnlyBare, Version, Safe, Typed, TypeOK, PrefixTypeOK
<1>2. CASE LinkKeg(f, v)
  BY <1>2 DEF LinkKeg, Linkable
<1>3. CASE LinkPartly(f, v)
  BY <1>3 DEF LinkPartly, Linkable
<1>4. CASE UnlinkPartly(f, v)
  BY <1>4 DEF UnlinkPartly
<1>5. CASE links' = Unlinked(f, v)
  BY <1>5 DEF Unlinked
<1> QED
  BY <1>2, <1>3, <1>4, <1>5

LEMMA OpenedUndisturbed ==
    ASSUME NEW q \in Proc, OpenedBy(q), Undisturbed(q)
    PROVE  OpenedBy(q)'
BY DEF OpenedBy, Undisturbed, Outside, FinalizeSteps, Complete, Linked, ShownNew, Entry

LEMMA OpenedOutside ==
    ASSUME NEW p \in Proc, pc'[p] \notin FinalizeSteps \union {"acquire"}
    PROVE  OpenedBy(p)'
BY DEF OpenedBy, FinalizeSteps

LEMMA OpenedInPlanning ==
    ASSUME Safe, NEW p \in Proc, Resolving(p) \/ Upgrading(p)
    PROVE  OpenedBy(p)'
<1>0. Typed
  BY DEF Safe
<1>1. CASE ResolveInstall(p)
  <2>1. PICK s \in Orders(Pending(wanted[p], {})) : BeginPlan(p, s)
    BY <1>1 DEF ResolveInstall
  <2>2. pc'[p] = "acquire" /\ \A f \in Formula : task'[p][f] = "none"
    BY <1>0, <1>1, <2>1 DEF ResolveInstall, Goto, BeginPlan, Typed, TypeOK
  <2> QED
    BY <2>2 DEF OpenedBy, FinalizeSteps
<1>2. CASE PlanUpgrade(p)
  <2>1. \E s : BeginPlan(p, s)
    BY <1>2 DEF PlanUpgrade
  <2>2. pc'[p] = "acquire" /\ \A f \in Formula : task'[p][f] = "none"
    BY <1>0, <1>2, <2>1 DEF PlanUpgrade, Goto, BeginPlan, Typed, TypeOK
  <2> QED
    BY <2>2 DEF OpenedBy, FinalizeSteps
<1>3. CASE pc'[p] \in {"unlock", "next", "replan", "restore"}
  BY <1>3, OpenedOutside DEF FinalizeSteps
<1> QED
  BY <1>0, <1>1, <1>2, <1>3 DEF Resolving, ResolvePlanOnly, ResolveUpgrade, ResolveFails,
     Upgrading, UpgradeDone, UnlinkOld, UnlinkOldFails, PlanUpgradeFails, Restore,
     Return, PlanFails, Goto, Typed, TypeOK

\* The loop goes on to entry i: those before it are complete.
LEMMA OpenedInLoop ==
    ASSUME Safe, NEW p \in Proc, NEW i \in Nat \ {0}, Proceed(p, i), UNCHANGED <<prefix, op, plan>>,
           \A j \in DOMAIN plan[p] :
                /\ j >= i /\ plan[p][j] \notin SourceBuilt => opt[plan[p][j]] = "new"
                /\ j < i => Complete(plan[p][j])
    PROVE  OpenedBy(p)'
<1>0. Typed /\ DOMAIN plan[p] = 1 .. Len(plan[p]) /\ Len(plan[p]) \in Nat
  BY EntriesAreFormulae DEF Safe
<1>1. CASE i <= Len(plan[p])
  <2>1. /\ at'[p] = i /\ i \in DOMAIN plan[p]
        /\ pc'[p] = IF plan[p][i] \in SourceBuilt THEN "build" ELSE "etcvar"
    BY <1>0, <1>1 DEF Proceed, Goto, Typed, TypeOK
  <2>2. \A f : Complete(f)' <=> Complete(f)
    BY DEF Complete, ShownNew, Linked, prefix
  <2>3. pc'[p] = "etcvar" => opt'[plan[p][i]] = "new"
    BY <1>0, <2>1 DEF prefix
  <2> QED
    BY <1>0, <2>1, <2>2, <2>3 DEF OpenedBy, Entry, prefix, FinalizeSteps
<1>2. CASE ~(i <= Len(plan[p]))
  <2>1. pc'[p] \in {"next", "unlock"}
    BY <1>0, <1>2 DEF Proceed, Goto, Return, Typed, TypeOK
  <2> QED
    BY <2>1, OpenedOutside DEF FinalizeSteps
<1> QED
  BY <1>1, <1>2

LEMMA OpenedInThread ==
    ASSUME Safe, NEW p \in Proc, OpenedBy(p), NEW f \in Formula, Thread(p, f)
    PROVE  OpenedBy(p)'
<1>0. Typed /\ pc[p] = "acquire" /\ pc' = pc
  BY ThreadOnEntry DEF Safe
<1> USE <1>0 DEF OpenedBy, FinalizeSteps, Typed, TypeOK, PrefixTypeOK, SetTask
<1>1. CASE CopyTree(p, f)
  BY <1>1 DEF CopyTree
<1>2. CASE SwapKeg(p, f)
  BY <1>2 DEF SwapKeg
<1>3. CASE SwitchOpt(p, f)
  BY <1>3 DEF SwitchOpt, RefreshOptLink
<1>4. CASE RelocateKeg(p, f)
  BY <1>4 DEF RelocateKeg
<1>5. CASE Unpack(p, f)
  BY <1>5 DEF Unpack, prefix, Safe, Awaited
<1>6. CASE ThreadFails(p, f)
  BY <1>6 DEF ThreadFails, prefix
<1> QED
  BY <1>1, <1>2, <1>3, <1>4, <1>5, <1>6 DEF Thread

LEMMA OpenedInAcquire ==
    ASSUME NoAcquireFaults, Kept, NEW p \in Proc, OpenedBy(p), Acquiring(p)
    PROVE  OpenedBy(p)'
<1>0. Safe /\ Typed /\ pc[p] = "acquire" /\ UNCHANGED <<prefix, op, plan>>
  BY AcquireLeavesPrefix DEF Kept, Safe
<1>1. CASE AcquireDone(p)
  <2>1. \A j \in DOMAIN plan[p] : /\ plan[p][j] \in Formula /\ task[p][plan[p][j]] = "acquired"
                                  /\ ~(j < 1)
    BY <1>0, <1>1, EntriesAreFormulae DEF AcquireDone, Entries, Range
  <2>2. \A j \in DOMAIN plan[p] : plan[p][j] \notin SourceBuilt => opt[plan[p][j]] = "new"
    BY <1>0, <2>1 DEF OpenedBy
  <2>3. Proceed(p, 1)
    BY <1>1 DEF AcquireDone
  <2> QED
    BY <1>0, <2>1, <2>2, <2>3, OpenedInLoop
<1>2. CASE ~AcquireDone(p)
  <2>1. pc' = pc
    BY <1>2, AcquireLeavesPrefix
  <2>2. \A f \in Formula : task'[p][f] \in {"relocating", "prepared", "acquired"} =>
                              task[p][f] \in {"relocating", "prepared", "acquired"}
    <3>1. CASE PullEntry(p)
      BY <1>0, <3>1 DEF PullEntry, SetTask, Typed, TypeOK
    <3>2. ASSUME NEW f \in Formula, Fetched(p, f) \/ Acquired(p, f)
          PROVE  \A g \in Formula : task'[p][g] \in {"relocating", "prepared", "acquired"} =>
                                    task[p][g] \in {"relocating", "prepared", "acquired"}
      BY <1>0, <3>2 DEF Fetched, Acquired, SetTask, Typed, TypeOK
    <3>3. ~AbortEntry(p) /\ ~AbortDone(p)
      BY <1>0 DEF AbortEntry, AbortDone
    <3>4. ASSUME NEW f \in Formula, AcquireFails(p, f) PROVE FALSE
      BY <3>4 DEF AcquireFails, Kept, Safe, Awaited, NoAcquireFaults
    <3> QED
      BY <1>2, <3>1, <3>2, <3>3, <3>4 DEF Acquiring
  <2> QED
    BY <1>0, <2>1, <2>2 DEF OpenedBy, FinalizeSteps, prefix
<1> QED
  BY <1>1, <1>2

\* Where a step of finalize that succeeds leads, and what it gives its entry.
LEMMA OpenedInFinalize ==
    ASSUME Kept, KegOnlyBare, NEW p \in Proc, OpenedBy(p), Finalizing(p)
    PROVE  OpenedBy(p)'
<1>0. Safe /\ Typed /\ Ready(p) /\ PrefixTypeOK
  BY DEF Kept, Safe, Typed, TypeOK
<1> PICK e \in Formula : e = Entry(p)
  BY <1>0, FinalizeOnEntry
<1>1. /\ pc[p] \in FinalizeSteps /\ e = Entry(p)
      /\ UNCHANGED <<op, plan>> /\ \A g \in Formula : g # e => Same(g)
  BY <1>0, FinalizeOnEntry
<1>2. at[p] \in DOMAIN plan[p] /\ e = plan[p][at[p]]
  BY <1>0, <1>1, EntriesAreFormulae DEF Entry
<1>3. \A i \in DOMAIN plan[p] : plan[p][i] \in Formula /\ i \in Nat /\ (i # at[p] => plan[p][i] # e)
  BY <1>0, <1>1, <1>2, EntriesAreFormulae DEF Ready, FreshBy, IsInjective
<1>4. pc[p] # "build" => keg[e] = "ready"
  BY <1>0, <1>1 DEF Ready, PreparedBy
<1>5. ASSUME at' = at, opt'[e] \in {"new", opt[e]},
             pc'[p] \in FinalizeSteps \ {"build"},
             pc'[p] # "optlink" => opt'[e] = "new",
             pc'[p] \in {"receipt", "commit"} => Linked(e)',
             pc'[p] = "commit" => receipt'[e] = "valid"
      PROVE  OpenedBy(p)'
  <2>1. at' = at /\ Entry(p)' = e
    BY <1>1, <1>5 DEF Entry
  <2>2. \A i \in DOMAIN plan[p] : i < at[p] => Complete(plan[p][i])'
    <3> SUFFICES ASSUME NEW i \in DOMAIN plan[p], i < at[p] PROVE Complete(plan[p][i])'
      OBVIOUS
    <3>1. plan[p][i] # e /\ Same(plan[p][i])
      BY <1>1, <1>2, <1>3
    <3>2. Complete(plan[p][i])
      BY <1>1 DEF OpenedBy
    <3> QED
      BY <1>1, <3>1, <3>2 DEF Complete, ShownNew, Linked, Same, SameShown
  <2>3. \A i \in DOMAIN plan[p] : i >= at[p] /\ plan[p][i] \notin SourceBuilt => opt'[plan[p][i]] = "new"
    <3> SUFFICES ASSUME NEW i \in DOMAIN plan[p], i >= at[p], plan[p][i] \notin SourceBuilt
                 PROVE  opt'[plan[p][i]] = "new"
      OBVIOUS
    <3>1. opt[plan[p][i]] = "new"
      BY <1>1 DEF OpenedBy
    <3> QED
      BY <1>1, <1>2, <1>3, <1>5, <3>1 DEF Same, SameShown
  <2> QED
    BY <1>1, <1>5, <2>1, <2>2, <2>3 DEF OpenedBy, FinalizeSteps
<1> USE DEF At, StepTo, Stay, Goto, FinalizeSteps
<1>6. CASE Build(p)
  BY <1>0, <1>1, <1>5, <1>6 DEF Build, Typed, TypeOK
<1>7. CASE OptLink(p)
  BY <1>0, <1>1, <1>5, <1>7 DEF OptLink, RefreshOptLink, Typed, TypeOK, PrefixTypeOK
<1>8. CASE EtcVar(p)
  <2>1. pc'[p] \in {"hook", "link"} /\ opt'[e] = opt[e] /\ opt[e] = "new" /\ at' = at
    BY <1>0, <1>1, <1>8 DEF EtcVar, prefix, OpenedBy, Typed, TypeOK
  <2> QED
    BY <1>5, <2>1
<1>9. CASE Hook(p)
  BY <1>0, <1>1, <1>5, <1>9 DEF Hook, OpenedBy, Typed, TypeOK
<1>10. CASE Link(p)
  <2>1. Linked(e)'
    <3>1. CASE e \in KegOnly
      BY <1>10, <3>1 DEF Link, LinkKeg, Linkable, KegOnlyBare, Linked, Version
    <3>2. CASE e \notin KegOnly
      <4>1. Linkable(e, "new") /\ links[e]["old"] = "none"
        BY <1>4, <1>10, <3>2 DEF Link, Collides, Linkable, KegExists, Other
      <4>2. links' = [links EXCEPT ![e]["new"] = "full"]
        BY <1>10, <4>1 DEF Link, LinkKeg
      <4> QED
        BY <1>0, <1>1, <4>1, <4>2 DEF Linked, PrefixTypeOK, Version
    <3> QED
      BY <3>1, <3>2
  <2>2. pc'[p] = "receipt" /\ at' = at /\ opt'[e] = opt[e] /\ opt[e] = "new"
    BY <1>0, <1>1, <1>10 DEF Link, OpenedBy, Typed, TypeOK
  <2> QED
    BY <1>5, <2>1, <2>2
<1>11. CASE Receipt(p)
  <2>1. pc'[p] = "commit" /\ at' = at /\ opt'[e] = opt[e] /\ opt[e] = "new" /\ Linked(e)
        /\ UNCHANGED links /\ receipt'[e] = "valid"
    BY <1>0, <1>1, <1>11 DEF Receipt, WriteReceipt, OpenedBy, Typed, TypeOK, PrefixTypeOK
  <2>2. Linked(e)'
    BY <1>1, <1>2, <2>1 DEF Linked
  <2> QED
    BY <1>5, <2>1, <2>2
<1>12. CASE Commit(p)
  <2>1. Complete(e)
    BY <1>1, <1>4, <1>12 DEF Commit, OpenedBy, Complete, ShownNew
  <2>2. \A j \in DOMAIN plan[p] :
            /\ j >= at[p] + 1 /\ plan[p][j] \notin SourceBuilt => opt[plan[p][j]] = "new"
            /\ j < at[p] + 1 => Complete(plan[p][j])
    BY <1>1, <1>2, <1>3, <2>1 DEF OpenedBy
  <2>3. at[p] + 1 \in Nat \ {0}
    BY <1>2, <1>3
  <2>4. Proceed(p, at[p] + 1) /\ UNCHANGED <<prefix, op, plan>>
    BY <1>12 DEF Commit
  <2> QED
    BY <1>0, <2>2, <2>3, <2>4, OpenedInLoop
<1>13. CASE BuildFails(p) \/ OptLinkFails(p) \/ EtcVarFails(p) \/ HookFails(p)
            \/ FinalizeFails(p) \/ RollbackFails(p) \/ CommitFails(p)
  <2>1. pc'[p] \in {"restore", "unlock"}
    BY <1>0, <1>13 DEF BuildFails, OptLinkFails, EtcVarFails, HookFails, FinalizeFails, RollbackFails,
       CommitFails, StepFails, PlanFails, Typed, TypeOK
  <2> QED
    BY <2>1, OpenedOutside
<1> QED
  BY <1>6, <1>7, <1>8, <1>9, <1>10, <1>11, <1>12, <1>13 DEF Finalizing

LEMMA OpenedStep ==
    ASSUME NoAcquireFaults, Kept, Opened, [Next]_vars
    PROVE  Opened'
<1>0. Safe
  BY DEF Kept
<1>1. CASE UNCHANGED vars
  BY <1>1 DEF vars, job, prefix, Opened, KegOnlyBare, OpenedBy, Complete, Linked, ShownNew, Entry
<1>2. CASE Next
  <2>1. PICK p \in Proc : Inside(p) \/ Ends(p)
    BY <1>2, NextIsOfOne
  <2>2. OpenedBy(p)'
    <3>1. CASE Inside(p)
      BY <1>0, <3>1, OpenedInPlanning, OpenedInAcquire, OpenedInFinalize, OpenedInThread DEF Inside, Opened
    <3>2. CASE Ends(p)
      BY <1>0, <3>2, AfterEnds, OpenedOutside DEF Outside, FinalizeSteps
    <3> QED
      BY <2>1, <3>1, <3>2
  <2>3. \A q \in Proc : q # p => OpenedBy(q)'
    BY <1>0, <2>1, OthersUndisturbed, OpenedUndisturbed DEF Opened
  <2> QED
    BY <1>0, <1>2, <2>2, <2>3, KegOnlyStep DEF Opened
<1> QED
  BY <1>1, <1>2

LEMMA InitOpened == Init => Opened
BY KegOnlyAssumption DEF Init, Opened, KegOnlyBare, OpenedBy, FinalizeSteps

----------------------------------------------------------------------------
(***************************************************************************)
(* Ok.                                                                     *)
(***************************************************************************)

\* An order of a set names all of its members.
LEMMA OrdersCover ==
    ASSUME NEW S \in SUBSET Formula, NEW s \in SetToSeqs(S)
    PROVE  Range(s) = S
<1>1. IsFiniteSet(S)
  BY PipelineAssumption, FS_Subset
<1>2. Cardinality(S) \in Nat
  BY <1>1, FS_CardinalityType
<1>3. /\ s \in [1..Cardinality(S) -> S]
      /\ \A i, j \in 1..Cardinality(S) : i # j => s[i] # s[j]
  BY DEF SetToSeqs
<1>4. s \in Injection(1..Cardinality(S), S)
  BY <1>3 DEF Injection, IsInjective
<1>5. Cardinality(1..Cardinality(S)) = Cardinality(S)
  BY <1>2, FS_Interval
<1>6. s \in Surjection(1..Cardinality(S), S)
  BY <1>1, <1>4, <1>5, FS_Injection
<1> QED
  BY <1>3, <1>6 DEF Surjection, Range

LEMMA CompleteIsWhole ==
    ASSUME NEW f, Complete(f)
    PROVE  Visible(f) = "new" /\ Installed(f) /\ Whole(f, "new")
<1>1. Visible(f) = "new"
  BY ShownIsVisible DEF Complete
<1>2. Whole(f, "new")
  BY DEF Complete, Linked, Whole, KegExists, Other
<1> QED
  BY <1>1, <1>2 DEF Installed

\* What the operation of p promises when it returns Ok.
Result(p) ==
    /\ op[p] = "install" =>
        /\ \A f \in Closure(wanted[p]) : Installed(f)
        /\ \A f \in Entries(p) : Complete(f)
    /\ op[p] = "upgrade" => \A f \in wanted[p] \ PostInstall : Visible(f) # "old"

\* What p has yet to do covers what it was asked for.
AimsBy(p) ==
    /\ op[p] = "install" /\ Working(p) =>
        \A f \in Closure(wanted[p]) : Installed(f) \/ f \in Entries(p)
    /\ op[p] = "upgrade" /\ (Working(p) \/ pc[p] \in {"next", "replan"}) =>
        \A f \in wanted[p] \ PostInstall : Visible(f) = "old" => f \in Range(todo[p])
    /\ op[p] = "upgrade" /\ Working(p) => Candidate(p) \in Entries(p)
    /\ pc[p] = "restore" => outcome[p] = "err"
    /\ pc[p] = "unlock" /\ outcome[p] = "ok" => Result(p)

LEMMA AimsUndisturbed ==
    ASSUME NEW q \in Proc, AimsBy(q), Undisturbed(q)
    PROVE  AimsBy(q)'
<1>1. CASE pc[q] \in Outside
  BY <1>1 DEF Undisturbed, AimsBy, Working, Outside, FinalizeSteps
<1>2. CASE UNCHANGED <<oldKeg, keg, receipt, opt, links>>
  <2>1. \A f : Visible(f)' = Visible(f) /\ (Installed(f)' <=> Installed(f)) /\ (Complete(f)' <=> Complete(f))
    BY <1>2, NothingShownChanges DEF Complete, ShownNew, Linked
  <2>2. Result(q) => Result(q)'
    BY <2>1 DEF Undisturbed, Result, Entries
  <2> QED
    BY <2>1, <2>2 DEF Undisturbed, AimsBy, Working, Candidate, Entries
<1> QED
  BY <1>1, <1>2 DEF Undisturbed

LEMMA AimsOutside ==
    ASSUME NEW p \in Proc, pc'[p] \in Outside \union {"resolve"}
    PROVE  AimsBy(p)'
BY DEF AimsBy, Working, Outside, FinalizeSteps

LEMMA AimsInResolve ==
    ASSUME Safe, NEW p \in Proc, Resolving(p)
    PROVE  AimsBy(p)'
<1>0. Typed
  BY DEF Safe
<1>1. \A f : Visible(f)' = Visible(f) /\ (Installed(f)' <=> Installed(f))
  BY NothingShownChanges DEF Resolving, ResolvePlanOnly, ResolveInstall, ResolveUpgrade, ResolveFails, prefix
<1> USE DEF FinalizeSteps, Working
<1>2. CASE ResolvePlanOnly(p)
  <2>1. pc'[p] = "unlock" /\ op'[p] \in DryRuns
    BY <1>0, <1>2 DEF ResolvePlanOnly, Return, Goto, job, Typed, TypeOK
  <2> QED
    BY <2>1 DEF AimsBy, Result, DryRuns
<1>3. CASE ResolveFails(p)
  <2>1. pc'[p] = "unlock" /\ outcome'[p] = "err"
    BY <1>0, <1>3 DEF ResolveFails, Return, Goto, Typed, TypeOK
  <2> QED
    BY <2>1 DEF AimsBy
<1>4. CASE ResolveInstall(p)
  <2>1. PICK s \in Orders(Pending(wanted[p], {})) : BeginPlan(p, s)
    BY <1>4 DEF ResolveInstall
  <2>2. Pending(wanted[p], {}) \in SUBSET Formula /\ s \in SetToSeqs(Pending(wanted[p], {}))
    BY DEF Orders, Pending, Closure
  <2>3. Range(s) = Pending(wanted[p], {})
    BY <2>2, OrdersCover
  <2>4. pc'[p] = "acquire" /\ op'[p] = "install" /\ wanted' = wanted /\ plan'[p] = s
    BY <1>0, <1>4, <2>1 DEF ResolveInstall, Goto, BeginPlan, Typed, TypeOK
  <2>5. \A f \in Closure(wanted[p]) : Installed(f) \/ f \in Range(s)
    BY <2>3 DEF Pending
  <2> QED
    BY <1>1, <2>4, <2>5 DEF AimsBy, Entries
<1>5. CASE ResolveUpgrade(p)
  <2>1. PICK skipped \in SUBSET PostInstall :
            \E s \in SetToSeqs({f \in wanted[p] \ skipped : Visible(f) = "old"}) :
                todo' = [todo EXCEPT ![p] = s]
    BY <1>5 DEF ResolveUpgrade
  <2> DEFINE S == {f \in wanted[p] \ skipped : Visible(f) = "old"}
  <2>2. PICK s \in SetToSeqs(S) : todo' = [todo EXCEPT ![p] = s]
    BY <2>1
  <2>3. S \in SUBSET Formula
    BY <1>0 DEF Typed, TypeOK
  <2>4. Range(s) = S
    BY <2>3, OrdersCover
  <2>5. pc'[p] = "next" /\ op'[p] = "upgrade" /\ wanted' = wanted /\ todo'[p] = s
    BY <1>0, <1>5, <2>2 DEF ResolveUpgrade, Goto, Typed, TypeOK
  <2>6. \A f \in wanted[p] \ PostInstall : Visible(f) = "old" => f \in Range(s)
    BY <2>4
  <2> QED
    BY <1>1, <2>5, <2>6 DEF AimsBy
<1> QED
  BY <1>2, <1>3, <1>4, <1>5 DEF Resolving

LEMMA AimsInUpgrade ==
    ASSUME Kept, NEW p \in Proc, AimsBy(p), Upgrading(p)
    PROVE  AimsBy(p)'
<1>0. Safe /\ Typed
  BY DEF Kept, Safe
<1> USE DEF FinalizeSteps, Working
<1>1. CASE UpgradeDone(p)
  <2>1. pc[p] = "next" /\ op[p] = "upgrade" /\ Range(todo[p]) = {}
    BY <1>1 DEF UpgradeDone, Kept, Spared, Range
  <2>2. \A f \in wanted[p] \ PostInstall : Visible(f) # "old"
    BY <2>1 DEF AimsBy
  <2>3. pc'[p] = "unlock" /\ UNCHANGED <<op, wanted>>
    BY <1>0, <1>1 DEF UpgradeDone, Return, Goto, job, Typed, TypeOK
  <2>4. \A f : Visible(f)' = Visible(f)
    BY <1>1, NothingShownChanges DEF UpgradeDone, prefix
  <2>5. Result(p)'
    BY <2>1, <2>2, <2>3, <2>4 DEF Result
  <2> QED
    BY <2>3, <2>5 DEF AimsBy
<1>2. CASE UnlinkOldFails(p) \/ PlanUpgradeFails(p) \/ Restore(p)
  <2>1. pc'[p] \in {"unlock", "restore"} /\ outcome'[p] = "err"
    BY <1>0, <1>2 DEF UnlinkOldFails, PlanUpgradeFails, Restore, PlanFails, Return, Goto, AimsBy,
       Typed, TypeOK
  <2> QED
    BY <2>1 DEF AimsBy
<1>3. CASE UnlinkOld(p)
  <2>1. pc[p] = "next" /\ pc'[p] = "replan" /\ UNCHANGED <<op, wanted, todo>>
    BY <1>0, <1>3 DEF UnlinkOld, Goto, job, Typed, TypeOK
  <2>2. \A f : Visible(f)' = Visible(f)
    BY <1>3, NothingShownChanges DEF UnlinkOld
  <2> QED
    BY <2>1, <2>2 DEF AimsBy
<1>4. CASE PlanUpgrade(p)
  <2>1. /\ pc[p] = "replan" /\ pc'[p] = "acquire" /\ op[p] = "upgrade"
        /\ UNCHANGED <<prefix, todo, op, wanted>>
    BY <1>0, <1>4 DEF PlanUpgrade, Goto, Kept, Spared, Typed, TypeOK
  <2>2. PICK f \in Formula : f = Candidate(p)
    BY <1>0, <2>1, HeadOfTodo DEF Typed, HasCandidate
  <2>3. f \in Range(plan'[p])
    <3>1. CASE f \in SourceBuilt
      <4>1. PICK s \in Orders(Pending({f}, {f})) : BeginPlan(p, s)
        BY <1>4, <2>2, <3>1 DEF PlanUpgrade
      <4>2. Pending({f}, {f}) \in SUBSET Formula /\ s \in SetToSeqs(Pending({f}, {f}))
        BY DEF Orders, Pending, Closure
      <4>3. Range(s) = Pending({f}, {f}) /\ plan'[p] = s
        BY <1>0, <4>1, <4>2, OrdersCover DEF BeginPlan, Typed, TypeOK
      <4>4. f \in Pending({f}, {f})
        BY DEF Pending, Closure
      <4> QED
        BY <4>3, <4>4
    <3>2. CASE f \notin SourceBuilt
      <4>1. plan'[p] = <<f>>
        BY <1>0, <1>4, <2>2, <3>2 DEF PlanUpgrade, BeginPlan, Typed, TypeOK
      <4> QED
        BY <4>1 DEF Range
    <3> QED
      BY <3>1, <3>2
  <2>4. Candidate(p)' \in Entries(p)'
    BY <2>1, <2>2, <2>3 DEF Candidate, Entries
  <2>5. \A g : Visible(g)' = Visible(g)
    BY <2>1, NothingShownChanges DEF prefix
  <2> QED
    BY <2>1, <2>4, <2>5 DEF AimsBy
<1> QED
  BY <1>1, <1>2, <1>3, <1>4 DEF Upgrading

\* The loop goes on to entry i; at its end the whole plan is complete.
LEMMA AimsInLoop ==
    ASSUME Kept, NEW p \in Proc, AimsBy(p), Working(p), NEW i \in Nat \ {0}, Proceed(p, i),
           UNCHANGED <<prefix, op, wanted, plan>>,
           \A j \in DOMAIN plan[p] : j < i => Complete(plan[p][j])
    PROVE  AimsBy(p)'
<1>0. Typed /\ DOMAIN plan[p] = 1 .. Len(plan[p]) /\ Len(plan[p]) \in Nat
  BY EntriesAreFormulae DEF Kept, Safe
<1>1. \A f : Visible(f)' = Visible(f) /\ (Installed(f)' <=> Installed(f)) /\ (Complete(f)' <=> Complete(f))
  BY NothingShownChanges DEF Complete, ShownNew, Linked, prefix
<1>2. CASE i <= Len(plan[p])
  <2>1. pc'[p] \in {"build", "etcvar"} /\ UNCHANGED <<todo, outcome>>
    BY <1>0, <1>2 DEF Proceed, Goto, Typed, TypeOK
  <2> QED
    BY <1>1, <2>1 DEF AimsBy, Working, FinalizeSteps, Candidate, Entries
<1>3. CASE ~(i <= Len(plan[p]))
  <2>1. \A f \in Entries(p) : Complete(f) /\ Visible(f) = "new" /\ Installed(f)
    <3>1. \A j \in DOMAIN plan[p] : j < i
      BY <1>0, <1>3
    <3> QED
      BY <3>1, CompleteIsWhole DEF Entries, Range
  <2>2. CASE op[p] = "upgrade"
    <3>1. pc'[p] = "next" /\ todo' = [todo EXCEPT ![p] = Tail(todo[p])]
      BY <1>0, <1>3, <2>2 DEF Proceed, Goto, Typed, TypeOK
    <3>2. todo[p] \in Seq(Formula) /\ todo[p] # <<>> /\ todo'[p] = Tail(todo[p])
      BY <1>0, <2>2, <3>1 DEF Typed, TypeOK, HasCandidate, Working
    <3>3. Range(todo[p]) \subseteq {Candidate(p)} \union Range(Tail(todo[p]))
      <4> SUFFICES ASSUME NEW k \in DOMAIN todo[p], k # 1 PROVE todo[p][k] \in Range(Tail(todo[p]))
        BY <3>2 DEF Range, Candidate
      <4>1. /\ Tail(todo[p]) \in Seq(Formula) /\ Len(Tail(todo[p])) = Len(todo[p]) - 1
            /\ \A m \in 1 .. Len(Tail(todo[p])) : Tail(todo[p])[m] = todo[p][m + 1]
        BY <3>2, HeadTailProperties
      <4>2. Len(todo[p]) \in Nat /\ DOMAIN todo[p] = 1 .. Len(todo[p])
            /\ DOMAIN Tail(todo[p]) = 1 .. Len(Tail(todo[p]))
        BY <3>2, <4>1, LenProperties
      <4>3. k - 1 \in DOMAIN Tail(todo[p]) /\ Tail(todo[p])[k - 1] = todo[p][k]
        BY <4>1, <4>2
      <4> QED
        BY <4>3 DEF Range
    <3>4. \A f \in wanted[p] \ PostInstall : Visible(f) = "old" => f \in Range(todo[p]) /\ f # Candidate(p)
      BY <2>1, <2>2 DEF AimsBy
    <3>5. \A f \in wanted[p] \ PostInstall : Visible(f) = "old" => f \in Range(todo'[p])
      BY <3>2, <3>3, <3>4
    <3> QED
      BY <1>1, <2>2, <3>1, <3>5 DEF AimsBy, Working, FinalizeSteps, Typed, TypeOK
  <2>3. CASE op[p] # "upgrade"
    <3>1. pc'[p] = "unlock"
      BY <1>0, <1>3, <2>3 DEF Proceed, Goto, Return, Typed, TypeOK
    <3>2. op[p] = "install" => \A f \in Closure(wanted[p]) : Installed(f)
      BY <2>1 DEF AimsBy
    <3>3. Result(p)'
      BY <1>1, <2>1, <2>3, <3>2 DEF Result, Entries
    <3> QED
      BY <3>1, <3>3 DEF AimsBy, Working, FinalizeSteps
  <2> QED
    BY <2>2, <2>3
<1> QED
  BY <1>2, <1>3

LEMMA AimsInWork ==
    ASSUME NoAcquireFaults, Kept, NEW p \in Proc, AimsBy(p), OpenedBy(p),
           Acquiring(p) \/ Finalizing(p) \/ \E f \in Formula : Thread(p, f)
    PROVE  AimsBy(p)'
<1>0. Safe /\ Typed /\ Ready(p)
  BY DEF Kept, Safe
<1>1. /\ Working(p) /\ UNCHANGED <<op, wanted, plan, oldKeg>>
      /\ \A f \in Formula \ Entries(p) : Same(f)
      /\ \A f \in Formula : Visible(f)' = "old" => Visible(f) = "old"
  BY WorksOnEntries
<1>2. ASSUME pc'[p] \in FinalizeSteps \union {"acquire"}, todo' = todo
      PROVE  AimsBy(p)'
  <2>1. \A f \in Formula : f \notin Entries(p) => (Installed(f)' <=> Installed(f))
    BY <1>1, VisibleKept DEF Same, SameShown
  <2>2. Closure(wanted[p]) \subseteq Formula /\ wanted[p] \subseteq Formula
    BY <1>0 DEF Closure, Typed, TypeOK
  <2> QED
    BY <1>1, <1>2, <2>1, <2>2 DEF AimsBy, Working, FinalizeSteps, Candidate, Entries
<1>3. ASSUME PlanFails(p) PROVE AimsBy(p)'
  <2>1. pc'[p] \in {"unlock", "restore"} /\ outcome'[p] = "err"
    BY <1>0, <1>3 DEF PlanFails, Goto, Typed, TypeOK
  <2> QED
    BY <2>1 DEF AimsBy, Working, FinalizeSteps
<1>4. CASE Acquiring(p)
  <2>1. CASE AcquireDone(p)
    <3>1. \A j \in DOMAIN plan[p] : ~(j < 1)
      BY <1>0, EntriesAreFormulae
    <3>2. Proceed(p, 1) /\ UNCHANGED <<prefix, op, wanted, plan>>
      BY <2>1 DEF AcquireDone
    <3> QED
      BY <1>1, <3>1, <3>2, AimsInLoop
  <2>2. CASE UNCHANGED <<pc, todo, at, outcome>>
    BY <1>1, <1>2, <2>2 DEF Working
  <2> QED
    BY <1>4, <2>1, <2>2, AcquireLeavesPrefix
<1>5. CASE Finalizing(p)
  <2>1. CASE BuildFails(p) \/ OptLinkFails(p) \/ EtcVarFails(p) \/ HookFails(p)
             \/ FinalizeFails(p) \/ RollbackFails(p) \/ CommitFails(p)
    BY <1>3, <2>1 DEF BuildFails, OptLinkFails, EtcVarFails, HookFails, FinalizeFails, RollbackFails,
       CommitFails, StepFails
  <2>2. CASE Build(p) \/ OptLink(p) \/ EtcVar(p) \/ Hook(p) \/ Link(p) \/ Receipt(p)
    BY <1>0, <1>2, <2>2, EntryOnly
  <2>3. CASE Commit(p)
    <3>1. pc[p] = "commit" /\ Proceed(p, at[p] + 1) /\ UNCHANGED <<prefix, op, wanted, plan>>
      BY <2>3 DEF Commit, At
    <3>2. at[p] \in DOMAIN plan[p] /\ \A j \in DOMAIN plan[p] : j \in Nat
      BY <1>0, <3>1, EntriesAreFormulae DEF FinalizeSteps
    <3>3. Complete(plan[p][at[p]])
      BY <1>0, <3>1 DEF OpenedBy, Ready, PreparedBy, Complete, ShownNew, Entry, FinalizeSteps
    <3>4. \A j \in DOMAIN plan[p] : j < at[p] => Complete(plan[p][j])
      BY <3>1 DEF OpenedBy, FinalizeSteps
    <3>5. at[p] + 1 \in Nat \ {0} /\ \A j \in DOMAIN plan[p] : j < at[p] + 1 => Complete(plan[p][j])
      BY <3>2, <3>3, <3>4
    <3> QED
      BY <1>1, <3>1, <3>5, AimsInLoop
  <2> QED
    BY <1>5, <2>1, <2>2, <2>3 DEF Finalizing
<1>6. CASE \E f \in Formula : Thread(p, f)
  <2>1. pc' = pc /\ todo' = todo
    BY <1>0, <1>6, ThreadOnEntry
  <2> QED
    BY <1>1, <1>2, <2>1 DEF Working
<1> QED
  BY <1>4, <1>5, <1>6

Aimed == \A p \in Proc : AimsBy(p)

LEMMA AimedStep ==
    ASSUME NoAcquireFaults, Kept, Opened, Aimed, [Next]_vars
    PROVE  Aimed'
<1>0. Safe
  BY DEF Kept
<1>1. CASE UNCHANGED vars
  <2>1. \A q \in Proc : Undisturbed(q)
    BY <1>1 DEF vars, job, prefix, Undisturbed
  <2> QED
    BY <2>1, AimsUndisturbed DEF Aimed
<1>2. CASE Next
  <2>1. PICK p \in Proc : Inside(p) \/ Ends(p)
    BY <1>2, NextIsOfOne
  <2>2. AimsBy(p)'
    BY <1>0, <2>1, AimsInResolve, AimsInUpgrade, AimsInWork, AfterEnds, AimsOutside
       DEF Inside, Opened, Aimed
  <2>3. \A q \in Proc : q # p => AimsBy(q)'
    BY <1>0, <2>1, OthersUndisturbed, AimsUndisturbed DEF Aimed
  <2> QED
    BY <2>2, <2>3 DEF Aimed
<1> QED
  BY <1>1, <1>2

\* When no download and no blocking thread fails: an install that returns Ok leaves its
\* names and all they need installed, and what it installed complete; an upgrade that
\* returns Ok leaves none of its names outdated but those it may skip.  Whatever else
\* failed or crashed before, and however many processes run (orchestrate.rs install and
\* upgrade, execution.rs execute_install_plan).
THEOREM OkIsInstalled ==
    ASSUME NoAcquireFaults
    PROVE  Spec => []OkMeansInstalled
<1>1. Init => Aimed
  BY DEF Init, Aimed, AimsBy, Working, FinalizeSteps
<1>2. Kept /\ Opened /\ [Next]_vars => Opened'
  BY OpenedStep
<1>3. Kept /\ Opened /\ Aimed /\ [Next]_vars => Aimed'
  BY AimedStep
<1>4. Aimed => OkMeansInstalled
  <2> SUFFICES ASSUME Aimed, NEW p \in Proc, pc[p] = "unlock", outcome[p] = "ok"
               PROVE  CASE op[p] = "install" ->
                            /\ \A f \in Closure(wanted[p]) : Installed(f)
                            /\ \A f \in Entries(p) : Visible(f) = "new" /\ Whole(f, "new")
                        [] op[p] = "upgrade" ->
                            \A f \in wanted[p] \ PostInstall : Visible(f) # "old"
                        [] OTHER -> TRUE
    BY DEF OkMeansInstalled
  <2>1. Result(p)
    BY DEF Aimed, AimsBy
  <2>2. CASE op[p] = "install"
    <3>1. \A f \in Entries(p) : Visible(f) = "new" /\ Whole(f, "new")
      BY <2>1, <2>2, CompleteIsWhole DEF Result
    <3> QED
      BY <2>1, <2>2, <3>1 DEF Result
  <2>3. CASE op[p] = "upgrade"
    BY <2>1, <2>3 DEF Result
  <2> QED
    BY <2>2, <2>3
<1> QED
  BY <1>1, <1>2, <1>3, <1>4, AlwaysKept, InitOpened, PTL DEF Spec

----------------------------------------------------------------------------
(***************************************************************************)
(* Errors, when every one of them is answered with cleanup_failed_install: *)
(* not the opt link after a source build, a failing rollback and the       *)
(* removal of the backups, which leave through `?`.                        *)
(***************************************************************************)
AnsweredFaults == {"optlink", "rollback", "commit"} \intersect Faults = {}

\* Between plans no entry is at hand; a source build has no blocking thread that
\* writes into its keg.
CleanBy(p) ==
    /\ pc[p] \in {"idle", "lock", "resolve", "next", "replan"} => at[p] > Len(plan[p])
    /\ \A f \in Formula :
        task[p][f] \in {"copying", "swapping", "opting", "relocating"} => f \notin SourceBuilt
    /\ (pc[p] \in {"restore", "unlock"} /\ outcome[p] = "err" /\ at[p] <= Len(plan[p]))
            => at[p] \in DOMAIN plan[p] /\ Clean(Entry(p))

\* A source build that is not there has no links: its cleanup unlinks the keg
\* before it removes it.
Rooted == \A f \in SourceBuilt : keg[f] = "absent" => links[f]["new"] = "none"

Cleaned == Rooted /\ \A p \in Proc : CleanBy(p)

\* Linking or unlinking one version leaves the links of the other.
LEMMA OtherLinksKept ==
    ASSUME PrefixTypeOK, NEW c, NEW v \in Version, NEW w \in Version, w # v,
           \/ LinkKeg(c, v) \/ LinkPartly(c, v) \/ UnlinkPartly(c, v)
           \/ links' = Unlinked(c, v) \/ UNCHANGED links
    PROVE  \A f \in Formula : links'[f][w] = links[f][w]
<1> USE DEF PrefixTypeOK
<1>1. ASSUME NEW x, links' = [links EXCEPT ![c][v] = x]
      PROVE  \A f \in Formula : links'[f][w] = links[f][w]
  BY <1>1
<1> QED
  BY <1>1 DEF LinkKeg, LinkPartly, UnlinkPartly, Unlinked

LEMMA CleanUndisturbed ==
    ASSUME NEW q \in Proc, CleanBy(q), Undisturbed(q)
    PROVE  CleanBy(q)'
BY DEF Undisturbed, CleanBy, Clean, Entry, Outside

LEMMA CleanInEnding ==
    ASSUME Safe, NEW p \in Proc, CleanBy(p), Ends(p)
    PROVE  CleanBy(p)'
<1>0. Typed
  BY DEF Safe
<1>1. CASE Start(p) \/ AcquireLock(p)
  BY <1>0, <1>1 DEF Start, AcquireLock, Goto, job, CleanBy, Typed, TypeOK
<1>2. CASE Unlock(p)
  BY <1>0, <1>2 DEF Unlock, Goto, job, CleanBy, Typed, TypeOK
<1>3. CASE Exit(p) \/ Crash(p)
  <2>1. Gone(p)
    BY <1>3 DEF Exit, Crash
  <2>2. pc'[p] = "idle" /\ plan'[p] = <<>> /\ at'[p] = 1 /\ \A f \in Formula : task'[p][f] = "none"
    BY <1>0, <2>1 DEF Gone, Goto, BeginPlan, Typed, TypeOK
  <2> QED
    BY <2>2 DEF CleanBy
<1> QED
  BY <1>1, <1>2, <1>3 DEF Ends

\* A step that leaves at and plan alone, or begins a plan.
LEMMA CleanInPlanning ==
    ASSUME Kept, NEW p \in Proc, CleanBy(p), Resolving(p) \/ Upgrading(p)
    PROVE  CleanBy(p)'
<1>0. Typed
  BY DEF Kept, Safe
<1>1. CASE ResolvePlanOnly(p) \/ ResolveUpgrade(p) \/ ResolveFails(p) \/ UpgradeDone(p)
           \/ UnlinkOld(p) \/ UnlinkOldFails(p)
  <2>1. pc[p] \in {"resolve", "next"} /\ UNCHANGED <<task, plan, at>>
    BY <1>1 DEF ResolvePlanOnly, ResolveUpgrade, ResolveFails, UpgradeDone, UnlinkOld, UnlinkOldFails, job
  <2> QED
    BY <1>0, <2>1 DEF CleanBy, Typed, TypeOK
<1>2. CASE ResolveInstall(p) \/ PlanUpgrade(p)
  <2>1. \E s : BeginPlan(p, s)
    BY <1>2 DEF ResolveInstall, PlanUpgrade
  <2>2. pc'[p] = "acquire" /\ \A f \in Formula : task'[p][f] = "none"
    BY <1>0, <1>2, <2>1 DEF ResolveInstall, PlanUpgrade, Goto, BeginPlan, Typed, TypeOK
  <2> QED
    BY <2>2 DEF CleanBy
<1>3. CASE PlanUpgradeFails(p)
  <2>1. at'[p] = 1 /\ plan'[p] = <<>> /\ (\A f \in Formula : task'[p][f] = "none")
        /\ pc'[p] \in {"restore", "unlock"}
    BY <1>0, <1>3 DEF PlanUpgradeFails, PlanFails, Goto, BeginPlan, Typed, TypeOK
  <2> QED
    BY <2>1 DEF CleanBy
<1>4. CASE Restore(p)
  <2>1. pc[p] = "restore" /\ pc'[p] = "unlock" /\ UNCHANGED <<task, plan, at, outcome, keg, receipt>>
    BY <1>0, <1>4 DEF Restore, Goto, job, Typed, TypeOK
  <2>2. \A f \in Formula : Clean(f) => Clean(f)'
    <3>1. \A f \in Formula : opt'[f] = "new" => opt[f] = "new"
      BY <1>0, <1>4 DEF Restore, RefreshOptLink, Typed, TypeOK, PrefixTypeOK
    <3>2. \A f \in Formula : links'[f]["new"] = links[f]["new"]
      BY <1>0, <1>4, OtherLinksKept DEF Restore, Relinked, Version, Typed, TypeOK
    <3> QED
      BY <2>1, <3>1, <3>2 DEF Clean
  <2>3. ASSUME at[p] <= Len(plan[p]), outcome[p] = "err"
        PROVE  at[p] \in DOMAIN plan[p] /\ Clean(Entry(p))'
    <3>1. at[p] \in DOMAIN plan[p] /\ Clean(Entry(p))
      BY <2>1, <2>3 DEF CleanBy
    <3>2. PICK e \in Formula : e = Entry(p)
      BY <1>0, <3>1 DEF Entry, Typed, TypeOK
    <3>3. Entry(p)' = e
      BY <2>1, <3>2 DEF Entry
    <3> QED
      BY <2>2, <3>1, <3>2, <3>3 DEF Clean
  <2> QED
    BY <2>1, <2>3 DEF CleanBy
<1> QED
  BY <1>1, <1>2, <1>3, <1>4 DEF Resolving, Upgrading

LEMMA CleanInThread ==
    ASSUME Safe, NEW p \in Proc, CleanBy(p), NEW f \in Formula, Thread(p, f)
    PROVE  CleanBy(p)'
<1>0. Typed /\ pc[p] = "acquire" /\ pc' = pc
  BY ThreadOnEntry DEF Safe
<1>1. \A g \in Formula :
        task'[p][g] \in {"copying", "swapping", "opting", "relocating"} => g \notin SourceBuilt
  BY <1>0 DEF Thread, CopyTree, SwapKeg, SwitchOpt, RelocateKeg, Unpack, ThreadFails, SetTask, CleanBy,
     Typed, TypeOK
<1> QED
  BY <1>0, <1>1 DEF CleanBy

\* The loop goes on to entry i.
LEMMA CleanInLoop ==
    ASSUME Safe, NEW p \in Proc, CleanBy(p), NEW i \in Nat, Proceed(p, i), UNCHANGED <<plan, task>>
    PROVE  CleanBy(p)'
<1>0. Typed /\ Len(plan[p]) \in Nat
  BY EntriesAreFormulae DEF Safe
<1>1. at'[p] = i
  BY <1>0 DEF Proceed, Typed, TypeOK
<1>2. CASE i <= Len(plan[p])
  <2>1. pc'[p] \in {"build", "etcvar"}
    BY <1>0, <1>2 DEF Proceed, Goto, Typed, TypeOK
  <2> QED
    BY <2>1 DEF CleanBy
<1>3. CASE ~(i <= Len(plan[p]))
  <2>1. pc'[p] = "next" \/ (pc'[p] = "unlock" /\ outcome'[p] = "ok")
    BY <1>0, <1>3 DEF Proceed, Goto, Return, Typed, TypeOK
  <2> QED
    BY <1>0, <1>1, <1>3, <2>1 DEF CleanBy
<1> QED
  BY <1>2, <1>3

LEMMA CleanInAcquire ==
    ASSUME NoAcquireFaults, Kept, NEW p \in Proc, CleanBy(p), Acquiring(p)
    PROVE  CleanBy(p)'
<1>0. Safe /\ Typed /\ pc[p] = "acquire"
  BY AcquireLeavesPrefix DEF Kept, Safe
<1>1. CASE AcquireDone(p)
  <2>1. Proceed(p, 1) /\ UNCHANGED <<plan, task>>
    BY <1>1 DEF AcquireDone
  <2> QED
    BY <1>0, <2>1, CleanInLoop
<1>2. CASE PullEntry(p) \/ \E f \in Formula : Fetched(p, f) \/ Acquired(p, f)
  <2>1. pc' = pc
    BY <1>2 DEF PullEntry, Fetched, Acquired
  <2>2. \A g \in Formula :
            task'[p][g] \in {"copying", "swapping", "opting", "relocating"} => g \notin SourceBuilt
    BY <1>0, <1>2 DEF PullEntry, Fetched, Acquired, SetTask, CleanBy, Typed, TypeOK
  <2> QED
    BY <1>0, <2>1, <2>2 DEF CleanBy
<1>3. ~AbortEntry(p) /\ ~AbortDone(p)
  BY <1>0 DEF AbortEntry, AbortDone
<1>4. ASSUME NEW f \in Formula, AcquireFails(p, f) PROVE FALSE
  BY <1>4 DEF AcquireFails, Kept, Safe, Awaited, NoAcquireFaults
<1> QED
  BY <1>1, <1>2, <1>3, <1>4 DEF Acquiring

\* cleanup_failed_install leaves nothing of the entry at hand.
LEMMA CleanInFinalize ==
    ASSUME AnsweredFaults, Kept, Rooted, NEW p \in Proc, CleanBy(p), Finalizing(p)
    PROVE  CleanBy(p)'
<1>0. Safe /\ Typed /\ Ready(p) /\ PrefixTypeOK
  BY DEF Kept, Safe, Typed, TypeOK
<1>1. /\ pc[p] \in FinalizeSteps /\ at[p] \in DOMAIN plan[p] /\ UNCHANGED plan
  BY <1>0, FinalizeOnEntry, EntriesAreFormulae
<1>2. PICK e \in Formula : e = Entry(p)
  BY <1>0, FinalizeOnEntry
<1>3. CASE Commit(p)
  <2>1. Proceed(p, at[p] + 1) /\ UNCHANGED <<plan, task>> /\ at[p] + 1 \in Nat
    BY <1>0, <1>3 DEF Commit, Typed, TypeOK
  <2> QED
    BY <1>0, <2>1, CleanInLoop
<1>4. CASE Build(p) \/ OptLink(p) \/ EtcVar(p) \/ Hook(p) \/ Link(p) \/ Receipt(p)
  <2>1. pc'[p] \in FinalizeSteps /\ UNCHANGED task
    BY <1>0, <1>4, EntryOnly DEF Build, OptLink, EtcVar, Hook, Link, Receipt, StepTo, Stay
  <2> QED
    BY <2>1 DEF CleanBy, FinalizeSteps
<1>5. CASE OptLinkFails(p) \/ RollbackFails(p) \/ CommitFails(p)
  BY <1>5 DEF AnsweredFaults, OptLinkFails, RollbackFails, CommitFails
<1>6. CASE BuildFails(p) \/ EtcVarFails(p) \/ HookFails(p) \/ FinalizeFails(p)
  <2>1. CleanupFailedInstall(e) /\ StepFails(p)
    BY <1>2, <1>6 DEF BuildFails, EtcVarFails, HookFails, FinalizeFails
  <2>2. pc'[p] \in {"restore", "unlock"} /\ UNCHANGED <<at, task>>
    BY <1>0, <2>1 DEF StepFails, Stay, PlanFails, Goto, Typed, TypeOK
  <2>3. keg[e] = "absent" => links[e]["new"] = "none"
    <3>1. CASE pc[p] = "build"
      BY <1>2, <3>1 DEF Kept, Spared, Rooted
    <3>2. CASE pc[p] # "build"
      BY <1>0, <1>1, <1>2, <3>2 DEF Ready, PreparedBy
    <3> QED
      BY <3>1, <3>2
  <2>4. links'[e]["new"] = "none"
    BY <1>0, <2>1, <2>3 DEF CleanupFailedInstall, Unlinked, KegExists, PrefixTypeOK, Version
  <2>5. keg'[e] = "absent" /\ receipt'[e] = "none" /\ opt'[e] = "none"
    BY <1>0, <2>1 DEF CleanupFailedInstall, PrefixTypeOK
  <2>6. Entry(p)' = e
    BY <1>1, <1>2, <2>2 DEF Entry
  <2>7. Clean(Entry(p))'
    BY <2>4, <2>5, <2>6 DEF Clean
  <2> QED
    BY <1>1, <2>2, <2>7 DEF CleanBy
<1> QED
  BY <1>3, <1>4, <1>5, <1>6 DEF Finalizing

\* A keg that goes has lost its links first.
LEMMA RootedKept ==
    ASSUME Safe, Rooted, Next,
           \A f \in SourceBuilt : keg'[f] = "absent" => keg[f] = "absent" \/ links'[f]["new"] = "none"
    PROVE  Rooted'
<1>1. PrefixTypeOK
  BY DEF Safe, Typed, TypeOK
<1>2. PICK c : \E v \in Version :
            \/ LinkKeg(c, v) \/ LinkPartly(c, v) \/ UnlinkPartly(c, v)
            \/ links' = Unlinked(c, v) \/ UNCHANGED links
  BY LinksStep
<1>3. PICK v \in Version :
            \/ LinkKeg(c, v) \/ LinkPartly(c, v) \/ UnlinkPartly(c, v)
            \/ links' = Unlinked(c, v) \/ UNCHANGED links
  BY <1>2
<1> SUFFICES ASSUME NEW f \in SourceBuilt, keg[f] = "absent", links[f]["new"] = "none"
             PROVE  links'[f]["new"] = "none"
  BY DEF Rooted
<1>4. f \in Formula
  BY PipelineAssumption
<1>5. CASE v = "old"
  BY <1>1, <1>3, <1>4, <1>5, OtherLinksKept DEF Version
<1>6. CASE v = "new"
  BY <1>1, <1>3, <1>4, <1>6 DEF LinkKeg, LinkPartly, UnlinkPartly, Unlinked, Linkable, KegExists,
     PrefixTypeOK, Version
<1> QED
  BY <1>5, <1>6 DEF Version

LEMMA RootedStep ==
    ASSUME NoAcquireFaults, Kept, Cleaned, Next
    PROVE  Rooted'
<1> DEFINE Unrooted == \A f \in SourceBuilt :
                keg'[f] = "absent" => keg[f] = "absent" \/ links'[f]["new"] = "none"
<1> SUFFICES Unrooted
  BY RootedKept DEF Kept, Cleaned
<1>0. Safe /\ PrefixTypeOK
  BY DEF Kept, Safe, Typed, TypeOK
<1>1. PICK p \in Proc : Inside(p) \/ Ends(p)
  BY NextIsOfOne
<1>2. CASE UNCHANGED keg
  BY <1>2
<1>3. ASSUME NEW e, links' = Unlinked(e, "new"), \A g \in Formula : g # e => keg'[g] = keg[g]
      PROVE  Unrooted
  BY <1>0, <1>3, PipelineAssumption DEF Unlinked, KegExists, PrefixTypeOK, Version
<1>4. CASE Acquiring(p)
  BY <1>2, <1>4, AcquireLeavesPrefix DEF prefix
<1>5. CASE Finalizing(p)
  <2>1. CASE CleanupFailedInstall(Entry(p))
    <3>1. \A g \in Formula : g # Entry(p) => keg'[g] = keg[g]
      BY <1>0, <2>1 DEF CleanupFailedInstall, PrefixTypeOK
    <3> QED
      BY <1>3, <2>1, <3>1 DEF CleanupFailedInstall
  <2>2. CASE Build(p)
    BY <1>0, <2>2, PipelineAssumption DEF Build, PrefixTypeOK
  <2> QED
    BY <1>2, <1>5, <2>1, <2>2 DEF Finalizing, BuildFails, OptLink, OptLinkFails, EtcVar, EtcVarFails,
       Hook, HookFails, Link, Receipt, FinalizeFails, RollbackFails, Commit, CommitFails, prefix
<1>6. ASSUME NEW f \in Formula, Thread(p, f) PROVE Unrooted
  <2>1. CASE SwapKeg(p, f)
    <3>1. f \notin SourceBuilt
      BY <2>1 DEF SwapKeg, Cleaned, CleanBy
    <3> QED
      BY <1>0, <2>1, <3>1, PipelineAssumption DEF SwapKeg, PrefixTypeOK
  <2>2. CASE RelocateKeg(p, f)
    BY <1>0, <2>2, PipelineAssumption DEF RelocateKeg, PrefixTypeOK
  <2> QED
    BY <1>2, <1>6, <2>1, <2>2 DEF Thread, CopyTree, SwitchOpt, Unpack, ThreadFails, prefix
<1>7. CASE Crash(p)
  <2>1. CutShort(p)
    BY <1>7 DEF Crash
  <2>2. CASE CleanupPartly(Entry(p))
    <3>1. CASE UNCHANGED keg
      BY <1>2, <3>1
    <3>2. CASE links' = Unlinked(Entry(p), "new") /\ RemoveKegPartly(Entry(p))
      <4>1. \A g \in Formula : g # Entry(p) => keg'[g] = keg[g]
        BY <1>0, <3>2 DEF RemoveKegPartly, PrefixTypeOK
      <4> QED
        BY <1>3, <3>2, <4>1
    <3> QED
      BY <2>2, <3>1, <3>2 DEF CleanupPartly
  <2>3. CASE keg' = [keg EXCEPT ![Entry(p)] = "raw"]
    BY <1>0, <2>3, PipelineAssumption DEF PrefixTypeOK
  <2>4. CASE \E f \in Formula : task[p][f] = "swapping" /\ RemoveKegPartly(f)
    <3>1. PICK f \in Formula : task[p][f] = "swapping" /\ RemoveKegPartly(f)
      BY <2>4
    <3>2. f \notin SourceBuilt
      BY <3>1 DEF Cleaned, CleanBy
    <3> QED
      BY <1>0, <3>1, <3>2, PipelineAssumption DEF RemoveKegPartly, PrefixTypeOK
  <2> QED
    BY <1>2, <2>1, <2>2, <2>3, <2>4 DEF CutShort
<1>8. CASE Resolving(p) \/ Upgrading(p) \/ (Ends(p) /\ ~Crash(p))
  <2>1. UNCHANGED keg
    BY <1>8 DEF Resolving, ResolvePlanOnly, ResolveInstall, ResolveUpgrade, ResolveFails, Upgrading,
       UpgradeDone, UnlinkOld, UnlinkOldFails, PlanUpgrade, PlanUpgradeFails, Restore,
       Ends, Start, AcquireLock, Unlock, Exit, prefix
  <2> QED
    BY <1>2, <2>1
<1> QED
  BY <1>1, <1>4, <1>5, <1>6, <1>7, <1>8 DEF Inside

LEMMA CleanedStep ==
    ASSUME NoAcquireFaults, AnsweredFaults, Kept, Cleaned, [Next]_vars
    PROVE  Cleaned'
<1>0. Safe
  BY DEF Kept
<1>1. CASE UNCHANGED vars
  <2>1. \A q \in Proc : Undisturbed(q)
    BY <1>1 DEF vars, job, prefix, Undisturbed
  <2> QED
    BY <1>1, <2>1, CleanUndisturbed DEF Cleaned, Rooted, vars, prefix
<1>2. CASE Next
  <2>1. PICK p \in Proc : Inside(p) \/ Ends(p)
    BY <1>2, NextIsOfOne
  <2>2. CleanBy(p)'
    BY <1>0, <2>1, CleanInPlanning, CleanInAcquire, CleanInThread, CleanInFinalize, CleanInEnding
       DEF Inside, Cleaned
  <2>3. \A q \in Proc : q # p => CleanBy(q)'
    BY <1>0, <2>1, OthersUndisturbed, CleanUndisturbed DEF Cleaned
  <2> QED
    BY <1>2, <2>2, <2>3, RootedStep DEF Cleaned
<1> QED
  BY <1>1, <1>2

\* When an operation returns an error of an entry, nothing of the entry is left: keg,
\* receipt, opt link and links, and what upgrade then restores brings none of it back.
\* Whatever a crash left before; when every error is answered with the cleanup
\* (finalize.rs cleanup_failed_install, execution.rs finalize_with_keg).
THEOREM FailureIsClean ==
    ASSUME NoAcquireFaults, AnsweredFaults
    PROVE  Spec => []FailedEntryClean
<1>1. Init => Cleaned
  BY PipelineAssumption DEF Init, Cleaned, Rooted, CleanBy, Version
<1>2. Kept /\ Cleaned /\ [Next]_vars => Cleaned'
  BY CleanedStep
<1>3. Cleaned => FailedEntryClean
  BY DEF Cleaned, CleanBy, FailedEntryClean
<1> QED
  BY <1>1, <1>2, <1>3, AlwaysKept, PTL DEF Spec
=============================================================================
