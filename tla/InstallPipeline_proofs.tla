----------------------- MODULE InstallPipeline_proofs -----------------------
(***************************************************************************)
(* Theorems about InstallPipeline, for every set of formulae, dependency   *)
(* graph, number of processes, concurrency limit and number of operations. *)
(***************************************************************************)
EXTENDS InstallPipeline, FiniteSetTheorems, SequenceTheorems, TLAPS

\* While the install step of upgrade runs there is a candidate.
HasCandidate ==
    \A p \in Proc :
        (\/ pc[p] = "replan"
         \/ op[p] = "upgrade" /\ pc[p] \in FinalizeSteps \union {"acquire", "abort", "restore"})
        => todo[p] # <<>>

Typed == TypeOK /\ HasCandidate

----------------------------------------------------------------------------
\* The orders of a set of formulae are sequences of formulae.
LEMMA SeqsOfFormulae ==
    ASSUME NEW S \in SUBSET Formula, NEW s \in SetToSeqs(S)
    PROVE  s \in Seq(Formula)
<1>1. IsFiniteSet(Formula)
  BY PipelineAssumption
<1>2. Cardinality(S) \in Nat
  BY <1>1, FS_Subset, FS_CardinalityType
<1>3. s \in [1..Cardinality(S) -> Formula]
  BY DEF SetToSeqs
<1> QED
  BY <1>2, <1>3

LEMMA HeadOfTodo ==
    ASSUME TypeOK, NEW p \in Proc, todo[p] # <<>>
    PROVE  Candidate(p) \in Formula /\ Tail(todo[p]) \in Seq(Formula)
<1>1. todo[p] \in Seq(Formula)
  BY DEF TypeOK
<1> QED
  BY <1>1, HeadTailProperties DEF Candidate

\* The operators of module Prefix keep the types of what they change.
LEMMA LinksTyped ==
    ASSUME PrefixTypeOK, NEW f, NEW v \in Version,
           \/ LinkKeg(f, v) \/ LinkPartly(f, v) \/ UnlinkPartly(f, v)
           \/ links' = Unlinked(f, v) \/ UNCHANGED links
    PROVE  links' \in [Formula -> [Version -> LinkState]]
<1> USE DEF PrefixTypeOK, LinkState
<1>1. CASE LinkKeg(f, v)
  BY <1>1 DEF LinkKeg
<1>2. CASE LinkPartly(f, v)
  BY <1>2 DEF LinkPartly
<1>3. CASE UnlinkPartly(f, v)
  BY <1>3 DEF UnlinkPartly
<1>4. CASE links' = Unlinked(f, v)
  BY <1>4 DEF Unlinked
<1> QED
  BY <1>1, <1>2, <1>3, <1>4

LEMMA CleanupTyped ==
    ASSUME PrefixTypeOK, NEW f, CleanupFailedInstall(f)
    PROVE  PrefixTypeOK'
<1>1. links' \in [Formula -> [Version -> LinkState]]
  BY LinksTyped DEF CleanupFailedInstall, Version
<1> QED
  BY <1>1 DEF CleanupFailedInstall, PrefixTypeOK

LEMMA InitTyped == Init => Typed
<1> SUFFICES ASSUME Init PROVE Typed
  OBVIOUS
<1>1. PrefixTypeOK
  BY DEF Init, PrefixTypeOK, Version, LinkState
<1>2. TypeOK
  BY <1>1, PipelineAssumption DEF Init, TypeOK, Steps, TaskState, Commands
<1>3. HasCandidate
  BY DEF Init, HasCandidate, FinalizeSteps
<1> QED
  BY <1>2, <1>3 DEF Typed

\* The finalize loop, and the loop of upgrade around it, go on or return.
LEMMA ProceedTyped ==
    ASSUME Typed, NEW p \in Proc, NEW i \in Nat, Proceed(p, i),
           pc[p] \in FinalizeSteps \union {"acquire"},
           UNCHANGED <<prefix, lock, op, wanted, plan, next, task, budget>>
    PROVE  Typed'
<1>1. CASE i <= Len(plan[p])
  BY <1>1 DEF Proceed, Goto, Typed, TypeOK, HasCandidate, PrefixTypeOK, prefix, Steps, FinalizeSteps
<1>2. CASE i > Len(plan[p]) /\ op[p] = "upgrade"
  <2>1. ~(i <= Len(plan[p]))
    BY <1>2 DEF Typed, TypeOK
  <2>2. todo[p] # <<>>
    BY <1>2 DEF Typed, HasCandidate
  <2>3. Tail(todo[p]) \in Seq(Formula)
    BY <2>2, HeadOfTodo DEF Typed
  <2> QED
    <3>1. /\ pc' = [pc EXCEPT ![p] = "next"]
          /\ todo' = [todo EXCEPT ![p] = Tail(todo[p])]
          /\ outcome' = outcome /\ at' = [at EXCEPT ![p] = i]
      BY <1>2, <2>1 DEF Proceed, Goto, Typed, TypeOK
    <3>2. TypeOK'
      BY <2>3, <3>1 DEF Typed, TypeOK, PrefixTypeOK, prefix, Steps
    <3>3. HasCandidate'
      BY <3>1 DEF Typed, TypeOK, HasCandidate, FinalizeSteps, Steps
    <3> QED
      BY <3>2, <3>3 DEF Typed
<1>3. CASE i > Len(plan[p]) /\ op[p] # "upgrade"
  <2>1. ~(i <= Len(plan[p]))
    BY <1>3 DEF Typed, TypeOK
  <2> QED
    BY <1>3, <2>1 DEF Proceed, Return, Goto, Typed, TypeOK, HasCandidate, PrefixTypeOK, prefix, Steps, FinalizeSteps
<1>4. Len(plan[p]) \in Nat
  BY DEF Typed, TypeOK
<1> QED
  BY <1>1, <1>2, <1>3, <1>4

LEMMA PlanningTyped ==
    ASSUME Typed, NEW p \in Proc, Start(p) \/ Planning(p)
    PROVE  Typed'
<1> USE DEF Typed, job
<1>1. CASE Start(p)
  BY <1>1 DEF Start, Commands, Goto, TypeOK, HasCandidate, PrefixTypeOK, prefix, Steps, FinalizeSteps
<1>2. CASE AcquireLock(p)
  BY <1>2 DEF AcquireLock, Goto, TypeOK, HasCandidate, PrefixTypeOK, prefix, Steps, FinalizeSteps
<1>3. CASE ResolvePlanOnly(p)
  BY <1>3 DEF ResolvePlanOnly, Return, Goto, TypeOK, HasCandidate, PrefixTypeOK, prefix, Steps, FinalizeSteps
<1>4. CASE ResolveInstall(p)
  <2>1. PICK s \in Orders(Pending(wanted[p], {})) : BeginPlan(p, s)
    BY <1>4 DEF ResolveInstall
  <2>2. s \in Seq(Formula)
    BY SeqsOfFormulae DEF Orders, Pending, Closure
  <2> QED
    BY <1>4, <2>1, <2>2 DEF ResolveInstall, BeginPlan, Goto, TypeOK, HasCandidate, PrefixTypeOK, prefix, Steps, FinalizeSteps, TaskState
<1>5. CASE ResolveUpgrade(p)
  <2>1. PICK skipped \in SUBSET PostInstall :
            \E s \in SetToSeqs({f \in wanted[p] \ skipped : Visible(f) = "old"}) :
                todo' = [todo EXCEPT ![p] = s]
    BY <1>5 DEF ResolveUpgrade
  <2>2. PICK s \in SetToSeqs({f \in wanted[p] \ skipped : Visible(f) = "old"}) :
            todo' = [todo EXCEPT ![p] = s]
    BY <2>1
  <2>3. s \in Seq(Formula)
    <3>1. {f \in wanted[p] \ skipped : Visible(f) = "old"} \in SUBSET Formula
      BY DEF TypeOK
    <3> QED
      BY <3>1, SeqsOfFormulae
  <2> QED
    BY <1>5, <2>2, <2>3 DEF ResolveUpgrade, Goto, TypeOK, HasCandidate, PrefixTypeOK, prefix, Steps, FinalizeSteps
<1>6. CASE ResolveFails(p)
  BY <1>6 DEF ResolveFails, Return, Goto, TypeOK, HasCandidate, PrefixTypeOK, prefix, Steps, FinalizeSteps
<1> QED
  BY <1>1, <1>2, <1>3, <1>4, <1>5, <1>6 DEF Planning

LEMMA UpgradingTyped ==
    ASSUME Typed, NEW p \in Proc, Upgrading(p)
    PROVE  Typed'
<1> USE DEF Typed, job
<1>1. CASE UpgradeDone(p)
  BY <1>1 DEF UpgradeDone, Return, Goto, TypeOK, HasCandidate, PrefixTypeOK, prefix, Steps, FinalizeSteps
<1>2. CASE UnlinkOld(p)
  BY <1>2 DEF UnlinkOld, Unlinked, Version, LinkState, Goto, TypeOK, HasCandidate, PrefixTypeOK, prefix, Steps, FinalizeSteps
<1>3. CASE UnlinkOldFails(p)
  BY <1>3 DEF UnlinkOldFails, UnlinkPartly, Return, Version, LinkState, Goto, TypeOK, HasCandidate, PrefixTypeOK, prefix, Steps, FinalizeSteps
<1>4. CASE PlanUpgrade(p)
  <2>1. todo[p] # <<>>
    BY <1>4 DEF PlanUpgrade, HasCandidate
  <2>2. Candidate(p) \in Formula
    BY <2>1, HeadOfTodo
  <2>3. PICK s : BeginPlan(p, s) /\ s \in Seq(Formula)
    <3>1. CASE Candidate(p) \in SourceBuilt
      <4>1. PICK s \in Orders(Pending({Candidate(p)}, {Candidate(p)})) : BeginPlan(p, s)
        BY <1>4, <3>1 DEF PlanUpgrade
      <4>2. s \in Seq(Formula)
        BY SeqsOfFormulae DEF Orders, Pending, Closure
      <4> QED
        BY <4>1, <4>2
    <3>2. CASE Candidate(p) \notin SourceBuilt
      <4>1. BeginPlan(p, <<Candidate(p)>>)
        BY <1>4, <3>2 DEF PlanUpgrade
      <4>2. <<Candidate(p)>> \in Seq(Formula)
        BY <2>2
      <4> QED
        BY <4>1, <4>2
    <3> QED
      BY <3>1, <3>2
  <2> QED
    BY <1>4, <2>1, <2>3 DEF PlanUpgrade, BeginPlan, TaskState, Goto, TypeOK, HasCandidate, PrefixTypeOK, prefix, Steps, FinalizeSteps
<1>5. CASE PlanUpgradeFails(p)
  BY <1>5 DEF PlanUpgradeFails, BeginPlan, PlanFails, TaskState, Goto, TypeOK, HasCandidate, PrefixTypeOK, prefix, Steps, FinalizeSteps
<1>6. CASE Restore(p)
  <2>1. links' \in [Formula -> [Version -> LinkState]]
    BY <1>6, LinksTyped DEF Restore, Relinked, Version, TypeOK
  <2>2. opt' \in [Formula -> {"none"} \union Version]
    BY <1>6 DEF Restore, RefreshOptLink, Version, TypeOK, PrefixTypeOK
  <2> QED
    BY <1>6, <2>1, <2>2 DEF Restore, Goto, TypeOK, HasCandidate, PrefixTypeOK, prefix, Steps, FinalizeSteps
<1> QED
  BY <1>1, <1>2, <1>3, <1>4, <1>5, <1>6 DEF Upgrading


LEMMA AcquiringTyped ==
    ASSUME Typed, NEW p \in Proc, Acquiring(p)
    PROVE  Typed'
<1> USE DEF Typed, job
<1>1. CASE PullEntry(p)
  <2>1. plan[p][next[p] + 1] \in Formula
    BY <1>1 DEF PullEntry, TypeOK
  <2> QED
    BY <1>1, <2>1 DEF PullEntry, SetTask, TaskState, Goto, TypeOK, HasCandidate, PrefixTypeOK, prefix, Steps, FinalizeSteps
<1>2. CASE AbortEntry(p)
  <2>1. PrefixTypeOK'
    BY <1>2, CleanupTyped DEF AbortEntry, prefix, TypeOK, PrefixTypeOK
  <2> QED
    BY <1>2, <2>1 DEF AbortEntry, Goto, TypeOK, HasCandidate, Steps, FinalizeSteps
<1>3. CASE AbortDone(p)
  BY <1>3 DEF AbortDone, PlanFails, Goto, TypeOK, HasCandidate, PrefixTypeOK, prefix, Steps, FinalizeSteps
<1>4. CASE AcquireDone(p)
  BY <1>4, ProceedTyped DEF AcquireDone
<1>5. CASE (\E f \in Formula : Fetched(p, f) \/ Acquired(p, f) \/ AcquireFails(p, f))
  <2> PICK f \in Formula : Fetched(p, f) \/ Acquired(p, f) \/ AcquireFails(p, f)
    BY <1>5
  <2>1. CASE Fetched(p, f)
    BY <2>1 DEF Fetched, SetTask, TaskState, Running, Goto, TypeOK, HasCandidate, PrefixTypeOK, prefix, Steps, FinalizeSteps
  <2>2. CASE Acquired(p, f)
    BY <2>2 DEF Acquired, SetTask, TaskState, Goto, TypeOK, HasCandidate, PrefixTypeOK, prefix, Steps, FinalizeSteps
  <2>3. CASE AcquireFails(p, f)
    BY <2>3 DEF AcquireFails, TaskState, Goto, TypeOK, HasCandidate, PrefixTypeOK, prefix, Steps, FinalizeSteps
  <2> QED
    BY <2>1, <2>2, <2>3
<1> QED
  BY <1>1, <1>2, <1>3, <1>4, <1>5 DEF Acquiring

LEMMA ThreadTyped ==
    ASSUME Typed, NEW p \in Proc, NEW f \in Formula, Thread(p, f)
    PROVE  Typed'
<1> USE DEF Typed, job
<1>1. CASE CopyTree(p, f)
  BY <1>1 DEF CopyTree, SetTask, TaskState, Running, Goto, TypeOK, HasCandidate, PrefixTypeOK, prefix, Steps, FinalizeSteps
<1>2. CASE SwapKeg(p, f)
  BY <1>2 DEF SwapKeg, SetTask, TaskState, Running, Goto, TypeOK, HasCandidate, PrefixTypeOK, prefix, Steps, FinalizeSteps
<1>3. CASE SwitchOpt(p, f)
  BY <1>3 DEF SwitchOpt, RefreshOptLink, SetTask, TaskState, Running, Version, Goto, TypeOK, HasCandidate, PrefixTypeOK, prefix, Steps, FinalizeSteps
<1>4. CASE RelocateKeg(p, f)
  BY <1>4 DEF RelocateKeg, SetTask, TaskState, Running, Goto, TypeOK, HasCandidate, PrefixTypeOK, prefix, Steps, FinalizeSteps
<1>5. CASE Unpack(p, f)
  BY <1>5 DEF Unpack, SetTask, TaskState, Goto, TypeOK, HasCandidate, PrefixTypeOK, prefix, Steps, FinalizeSteps
<1>6. CASE ThreadFails(p, f)
  BY <1>6 DEF ThreadFails, SetTask, TaskState, Goto, TypeOK, HasCandidate, PrefixTypeOK, prefix, Steps, FinalizeSteps
<1> QED
  BY <1>1, <1>2, <1>3, <1>4, <1>5, <1>6 DEF Thread

LEMMA FinalizingTyped ==
    ASSUME Typed, NEW p \in Proc, Finalizing(p)
    PROVE  Typed'
<1> USE DEF Typed, job
<1>1. CASE Build(p)
  BY <1>1 DEF Build, At, StepTo, Stay, Goto, TypeOK, HasCandidate, PrefixTypeOK, prefix, Steps, FinalizeSteps
<1>2. CASE BuildFails(p)
  BY <1>2 DEF BuildFails, CanFail, At, StepTo, Stay, CleanupFailedInstall, Unlinked, StepFails, PlanFails, Version, LinkState, Goto, TypeOK, HasCandidate, PrefixTypeOK, prefix, Steps, FinalizeSteps
<1>3. CASE OptLink(p)
  BY <1>3 DEF OptLink, At, StepTo, Stay, RefreshOptLink, Version, Goto, TypeOK, HasCandidate, PrefixTypeOK, prefix, Steps, FinalizeSteps
<1>4. CASE OptLinkFails(p)
  BY <1>4 DEF OptLinkFails, At, StepTo, Stay, CleanupFailedInstall, Unlinked, StepFails, PlanFails, Version, LinkState, Goto, TypeOK, HasCandidate, PrefixTypeOK, prefix, Steps, FinalizeSteps
<1>5. CASE EtcVar(p)
  BY <1>5 DEF EtcVar, At, StepTo, Stay, Goto, TypeOK, HasCandidate, PrefixTypeOK, prefix, Steps, FinalizeSteps
<1>6. CASE EtcVarFails(p)
  BY <1>6 DEF EtcVarFails, CanFail, At, StepTo, Stay, CleanupFailedInstall, Unlinked, StepFails, PlanFails, Version, LinkState, Goto, TypeOK, HasCandidate, PrefixTypeOK, prefix, Steps, FinalizeSteps
<1>7. CASE Hook(p)
  BY <1>7 DEF Hook, At, StepTo, Stay, LinkKeg, Version, LinkState, Goto, TypeOK, HasCandidate, PrefixTypeOK, prefix, Steps, FinalizeSteps
<1>8. CASE HookFails(p)
  BY <1>8 DEF HookFails, CanFail, At, StepTo, Stay, CleanupFailedInstall, Unlinked, StepFails, PlanFails, Version, LinkState, Goto, TypeOK, HasCandidate, PrefixTypeOK, prefix, Steps, FinalizeSteps
<1>9. CASE Link(p)
  BY <1>9 DEF Link, At, StepTo, Stay, LinkKeg, Version, LinkState, Goto, TypeOK, HasCandidate, PrefixTypeOK, prefix, Steps, FinalizeSteps
<1>10. CASE Receipt(p)
  BY <1>10 DEF Receipt, At, StepTo, Stay, WriteReceipt, Goto, TypeOK, HasCandidate, PrefixTypeOK, prefix, Steps, FinalizeSteps
<1>11. CASE FinalizeFails(p)
  BY <1>11 DEF FinalizeFails, CanFail, At, StepTo, Stay, CleanupFailedInstall, Unlinked, StepFails, PlanFails, Version, LinkState, Goto, TypeOK, HasCandidate, PrefixTypeOK, prefix, Steps, FinalizeSteps
<1>12. CASE RollbackFails(p)
  <2>1. links' \in [Formula -> [Version -> LinkState]]
    BY <1>12, LinksTyped DEF RollbackFails, Version, TypeOK
  <2>2. receipt' \in [Formula -> {"none", "torn", "valid"}]
    BY <1>12 DEF RollbackFails, TypeOK, PrefixTypeOK
  <2> QED
    BY <1>12, <2>1, <2>2 DEF RollbackFails, CanFail, At, Stay, StepFails, PlanFails, Goto,
       TypeOK, HasCandidate, PrefixTypeOK, Steps, FinalizeSteps
<1>13. CASE Commit(p)
  <2>1. at[p] + 1 \in Nat
    BY DEF TypeOK
  <2> QED
    BY <1>13, <2>1, ProceedTyped DEF Commit, At, FinalizeSteps
<1>14. CASE CommitFails(p)
  BY <1>14 DEF CommitFails, At, StepTo, Stay, CleanupFailedInstall, Unlinked, StepFails, PlanFails, Version, LinkState, Goto, TypeOK, HasCandidate, PrefixTypeOK, prefix, Steps, FinalizeSteps
<1> QED
  BY <1>1, <1>2, <1>3, <1>4, <1>5, <1>6, <1>7, <1>8, <1>9, <1>10, <1>11, <1>12, <1>13, <1>14 DEF Finalizing

\* A step cut in the middle leaves a prefix of the right type.
LEMMA CleanupPartlyTyped ==
    ASSUME PrefixTypeOK, NEW f, CleanupPartly(f), UNCHANGED <<oldKeg, tmp>>
    PROVE  PrefixTypeOK'
<1>1. links' \in [Formula -> [Version -> LinkState]]
  BY LinksTyped DEF CleanupPartly, Version
<1>2. keg' \in [Formula -> {"absent", "raw", "ready"}]
  BY DEF CleanupPartly, RemoveKegPartly, PrefixTypeOK
<1>3. receipt' \in [Formula -> {"none", "torn", "valid"}]
  BY DEF CleanupPartly, RemoveKegPartly, PrefixTypeOK
<1>4. opt' \in [Formula -> {"none"} \union Version]
  BY DEF CleanupPartly, PrefixTypeOK
<1> QED
  BY <1>1, <1>2, <1>3, <1>4 DEF PrefixTypeOK

LEMMA CutShortTyped ==
    ASSUME PrefixTypeOK, NEW p \in Proc, CutShort(p), UNCHANGED <<oldKeg, tmp>>
    PROVE  PrefixTypeOK'
<1>1. CASE CleanupPartly(Entry(p))
  BY <1>1, CleanupPartlyTyped
<1>2. CASE LinkingPartly(p) /\ UNCHANGED <<keg, receipt, opt>>
  <2>1. links' \in [Formula -> [Version -> LinkState]]
    BY <1>2, LinksTyped DEF LinkingPartly, Version
  <2> QED
    BY <1>2, <2>1 DEF PrefixTypeOK
<1>3. CASE /\ \/ UNCHANGED keg
              \/ keg' = [keg EXCEPT ![Entry(p)] = "raw"]
           /\ \/ UNCHANGED receipt
              \/ receipt' = [receipt EXCEPT ![Entry(p)] = "torn"]
           /\ UNCHANGED <<opt, links>>
  BY <1>3 DEF PrefixTypeOK
<1>4. CASE (\E f \in Formula : RemoveKegPartly(f)) /\ UNCHANGED <<opt, links>>
  BY <1>4 DEF RemoveKegPartly, PrefixTypeOK
<1> QED
  BY <1>1, <1>2, <1>3, <1>4 DEF CutShort

LEMMA EndingTyped ==
    ASSUME Typed, NEW p \in Proc, Ending(p) \/ Crash(p)
    PROVE  Typed'
<1> USE DEF Typed, job
<1>1. CASE Unlock(p)
  BY <1>1 DEF Unlock, Goto, TypeOK, HasCandidate, PrefixTypeOK, prefix, Steps, FinalizeSteps
<1>2. CASE Exit(p)
  BY <1>2 DEF Exit, Gone, BeginPlan, TaskState, Commands, Goto, TypeOK, HasCandidate, PrefixTypeOK, prefix, Steps, FinalizeSteps
<1>3. CASE Crash(p)
  <2>1. PrefixTypeOK'
    BY <1>3, CutShortTyped DEF Crash, TypeOK
  <2> QED
    BY <1>3, <2>1 DEF Crash, Gone, BeginPlan, Goto, TypeOK, HasCandidate,
       TaskState, Steps, FinalizeSteps, Commands
<1> QED
  BY <1>1, <1>2, <1>3 DEF Ending

LEMMA NextTyped == Typed /\ [Next]_vars => Typed'
<1> SUFFICES ASSUME Typed, [Next]_vars PROVE Typed'
  OBVIOUS
<1>1. CASE UNCHANGED vars
  BY <1>1 DEF Typed, TypeOK, HasCandidate, PrefixTypeOK, vars, job, prefix
<1>2. CASE Next
  <2> PICK p \in Proc : \/ Start(p) \/ Async(p) \/ Crash(p)
                         \/ \E f \in Formula : Thread(p, f)
    BY <1>2 DEF Next
  <2> QED
    BY PlanningTyped, UpgradingTyped, AcquiringTyped, FinalizingTyped,
       EndingTyped, ThreadTyped DEF Async
<1> QED
  BY <1>1, <1>2

\* Every variable keeps its type, and upgrade never looks for a candidate in an
\* empty list.
THEOREM TypeCorrect == Spec => []TypeOK
<1>1. Spec => []Typed
  BY InitTyped, NextTyped, PTL DEF Spec
<1>2. Typed => TypeOK
  BY DEF Typed
<1> QED
  BY <1>1, <1>2, PTL

----------------------------------------------------------------------------
(***************************************************************************)
(* The lock.                                                               *)
(***************************************************************************)
Outside == {"idle", "lock", "exit"}

Resolving(p) ==
    ResolvePlanOnly(p) \/ ResolveInstall(p) \/ ResolveUpgrade(p) \/ ResolveFails(p)

\* An operation that has the lock keeps it, whichever step it takes next.
LEMMA StepsInside ==
    ASSUME Typed, NEW p \in Proc,
           Resolving(p) \/ Upgrading(p) \/ Acquiring(p) \/ Finalizing(p)
    PROVE  /\ lock' = lock
           /\ pc[p] \notin Outside
           /\ \E x \in Steps \ Outside : pc' = [pc EXCEPT ![p] = x]
<1> DEFINE Inside ==
        /\ lock' = lock
        /\ pc[p] \notin Outside
        /\ \E x \in Steps \ Outside : pc' = [pc EXCEPT ![p] = x]
<1> SUFFICES Inside
  OBVIOUS
<1> USE DEF Outside, Steps, FinalizeSteps, Goto, Return
<1>1. CASE Resolving(p)
  BY <1>1 DEF Resolving, ResolvePlanOnly, ResolveInstall, ResolveUpgrade, ResolveFails
<1>2. CASE Upgrading(p)
  BY <1>2 DEF Upgrading, UpgradeDone, UnlinkOld, UnlinkOldFails, PlanUpgrade,
     PlanUpgradeFails, PlanFails, Restore
<1>3. CASE Acquiring(p)
  <2>1. CASE UNCHANGED <<lock, pc>> /\ pc[p] \in {"acquire", "abort"}
    BY <2>1 DEF Typed, TypeOK
  <2>2. CASE AbortDone(p)
    BY <2>2 DEF AbortDone, PlanFails
  <2>3. CASE AcquireDone(p)
    BY <2>3 DEF AcquireDone, Proceed
  <2>4. CASE \E f \in Formula : AcquireFails(p, f)
    BY <2>4 DEF AcquireFails
  <2> QED
    BY <1>3, <2>1, <2>2, <2>3, <2>4 DEF Acquiring, PullEntry, AbortEntry, Fetched, Acquired
<1>4. CASE Finalizing(p)
  <2> USE DEF At, Stay, StepTo, StepFails, PlanFails
  <2>1. CASE Commit(p)
    BY <2>1 DEF Commit, Proceed
  <2>2. CASE Build(p) \/ OptLink(p) \/ EtcVar(p) \/ Hook(p) \/ Link(p) \/ Receipt(p)
    BY <2>2 DEF Build, OptLink, EtcVar, Hook, Link, Receipt
  <2>3. CASE BuildFails(p) \/ OptLinkFails(p) \/ EtcVarFails(p) \/ HookFails(p)
             \/ FinalizeFails(p) \/ RollbackFails(p) \/ CommitFails(p)
    BY <2>3 DEF BuildFails, OptLinkFails, EtcVarFails, HookFails, FinalizeFails,
       RollbackFails, CommitFails, CanFail
  <2> QED
    BY <1>4, <2>1, <2>2, <2>3 DEF Finalizing
<1> QED
  BY <1>1, <1>2, <1>3, <1>4

LEMMA ThreadsKeepLock ==
    ASSUME NEW p \in Proc, NEW f \in Formula, Thread(p, f)
    PROVE  UNCHANGED <<lock, pc, op, plan, next, at>>
BY DEF Thread, CopyTree, SwapKeg, SwitchOpt, RelocateKeg, Unpack, ThreadFails, job

LEMMA LockStep == Typed /\ HoldsLock /\ [Next]_vars => HoldsLock'
<1> SUFFICES ASSUME Typed, HoldsLock, [Next]_vars PROVE HoldsLock'
  OBVIOUS
<1>1. CASE UNCHANGED vars
  BY <1>1 DEF HoldsLock, vars
<1>2. ASSUME NEW p \in Proc, Resolving(p) \/ Upgrading(p) \/ Acquiring(p) \/ Finalizing(p)
      PROVE  HoldsLock'
  BY <1>2, StepsInside DEF HoldsLock, Outside, Typed, TypeOK
<1>3. ASSUME NEW p \in Proc, NEW f \in Formula, Thread(p, f)
      PROVE  HoldsLock'
  BY <1>3, ThreadsKeepLock DEF HoldsLock
<1>4. ASSUME NEW p \in Proc, Start(p) PROVE HoldsLock'
  BY <1>4 DEF Start, Goto, HoldsLock, Typed, TypeOK
<1>5. ASSUME NEW p \in Proc, AcquireLock(p) PROVE HoldsLock'
  BY <1>5, PipelineAssumption DEF AcquireLock, Goto, HoldsLock, Typed, TypeOK
<1>6. ASSUME NEW p \in Proc, Unlock(p) PROVE HoldsLock'
  BY <1>6, PipelineAssumption DEF Unlock, Goto, HoldsLock, Typed, TypeOK
<1>7. ASSUME NEW p \in Proc, Exit(p) PROVE HoldsLock'
  BY <1>7 DEF Exit, Gone, Goto, HoldsLock, Typed, TypeOK
<1>8. ASSUME NEW p \in Proc, Crash(p) PROVE HoldsLock'
  <2>1. pc' = [pc EXCEPT ![p] = "idle"] /\ lock' = IF lock = p THEN NoProc ELSE lock
    BY <1>8 DEF Crash, Gone, Goto
  <2> QED
    BY <2>1, PipelineAssumption DEF HoldsLock, Typed, TypeOK
<1> QED
  BY <1>1, <1>2, <1>3, <1>4, <1>5, <1>6, <1>7, <1>8 DEF Next, Async, Planning, Ending, Resolving

\* A process holds brewdock.lock exactly from FileLock::acquire to the return of
\* the operation, on every path, errors and crashes included: two operations
\* never overlap (core/src/lock.rs, and the _lock of each operation).
THEOREM LockCorrect == Spec => []HoldsLock
<1>1. Init => HoldsLock
  BY PipelineAssumption DEF Init, HoldsLock
<1>2. Spec => []Typed
  BY InitTyped, NextTyped, PTL DEF Spec
<1> QED
  BY <1>1, <1>2, LockStep, PTL DEF Spec

----------------------------------------------------------------------------
(***************************************************************************)
(* The blocking threads, when no download and no thread fails.  (When one  *)
(* does, the threads of the other entries run on without the lock: TLC     *)
(* refutes MutatedUnderLock in run pipeline_orphan.)                       *)
(***************************************************************************)
NoAcquireFaults == "fetch" \notin Faults /\ "materialize" \notin Faults

\* The acquire stage waits for its threads, and what a thread relies on is there:
\* its temporary keg until the swap, its keg until it has been relocated.
Awaited ==
    \A p \in Proc, f \in Formula :
        /\ task[p][f] \notin {"none", "acquired"} => pc[p] = "acquire"
        /\ task[p][f] # "failed"
        /\ task[p][f] # "none" => f \in Entries(p)
        /\ task[p][f] = "unpacking" => f \in SourceBuilt
        /\ task[p][f] = "swapping" => tmp[f]
        /\ task[p][f] \in {"opting", "relocating"} => keg[f] # "absent"

\* While one process is in its operation the threads of the others are done.
LEMMA OthersSettled ==
    ASSUME Typed, HoldsLock, Awaited, NEW p \in Proc, pc[p] \notin Outside,
           NEW q \in Proc, q # p, NEW f \in Formula
    PROVE  pc[q] \in Outside /\ task[q][f] \in {"none", "acquired"}
BY DEF HoldsLock, Awaited, Outside

\* Outside the acquire stage an operation leaves the tasks alone, or begins a
\* plan with none.
LEMMA StepsSettled ==
    ASSUME Typed, NEW p \in Proc,
           \/ Resolving(p) \/ Upgrading(p) \/ Finalizing(p)
           \/ AbortEntry(p) \/ AbortDone(p)
    PROVE  /\ pc[p] # "acquire"
           /\ \/ UNCHANGED <<task, plan>>
              \/ \E s : /\ task' = [task EXCEPT ![p] = [f \in Formula |-> "none"]]
                       /\ plan' = [plan EXCEPT ![p] = s]
<1> DEFINE Settles ==
        /\ pc[p] # "acquire"
        /\ \/ UNCHANGED <<task, plan>>
           \/ \E s : /\ task' = [task EXCEPT ![p] = [f \in Formula |-> "none"]]
                    /\ plan' = [plan EXCEPT ![p] = s]
<1> SUFFICES Settles
  OBVIOUS
<1> USE DEF job
<1>1. CASE Resolving(p)
  BY <1>1 DEF Resolving, ResolvePlanOnly, ResolveInstall, ResolveUpgrade, ResolveFails, BeginPlan
<1>2. CASE PlanUpgrade(p)
  <2>1. \E s : BeginPlan(p, s)
    BY <1>2 DEF PlanUpgrade
  <2> QED
    BY <1>2, <2>1 DEF PlanUpgrade, BeginPlan
<1>3. CASE Upgrading(p) /\ ~PlanUpgrade(p)
  BY <1>3 DEF Upgrading, UpgradeDone, UnlinkOld, UnlinkOldFails, PlanUpgradeFails, BeginPlan, Restore
<1>4. CASE Finalizing(p)
  <2> USE DEF At, Stay, StepTo, StepFails
  <2>1. CASE Commit(p)
    BY <2>1 DEF Commit
  <2>2. CASE Build(p) \/ OptLink(p) \/ EtcVar(p) \/ Hook(p) \/ Link(p) \/ Receipt(p)
    BY <2>2 DEF Build, OptLink, EtcVar, Hook, Link, Receipt
  <2>3. CASE BuildFails(p) \/ OptLinkFails(p) \/ EtcVarFails(p) \/ HookFails(p)
             \/ FinalizeFails(p) \/ RollbackFails(p) \/ CommitFails(p)
    BY <2>3 DEF BuildFails, OptLinkFails, EtcVarFails, HookFails, FinalizeFails,
       RollbackFails, CommitFails, CanFail
  <2> QED
    BY <1>4, <2>1, <2>2, <2>3 DEF Finalizing
<1>5. CASE AbortEntry(p) \/ AbortDone(p)
  BY <1>5 DEF AbortEntry, AbortDone
<1> QED
  BY <1>1, <1>2, <1>3, <1>4, <1>5

LEMMA AwaitedInStep ==
    ASSUME Typed, HoldsLock, Awaited, NEW p \in Proc,
           \/ Resolving(p) \/ Upgrading(p) \/ Finalizing(p)
           \/ AbortEntry(p) \/ AbortDone(p)
    PROVE  Awaited'
<1>1. pc[p] \notin Outside
  BY StepsInside DEF Acquiring
<1> SUFFICES ASSUME NEW q \in Proc, NEW f \in Formula
             PROVE  task'[q][f] \in {"none", "acquired"}
                    /\ (task'[q][f] # "none" => f \in Range(plan'[q]))
  BY DEF Awaited, Entries
<1>2. task[q][f] \in {"none", "acquired"}
  BY <1>1, OthersSettled, StepsSettled DEF Awaited
<1>3. task[q][f] # "none" => f \in Range(plan[q])
  BY DEF Awaited, Entries
<1>4. CASE UNCHANGED <<task, plan>>
  BY <1>2, <1>3, <1>4
<1>5. CASE \E s : /\ task' = [task EXCEPT ![p] = [g \in Formula |-> "none"]]
                 /\ plan' = [plan EXCEPT ![p] = s]
  BY <1>2, <1>3, <1>5 DEF Typed, TypeOK
<1> QED
  BY <1>4, <1>5, StepsSettled

LEMMA AwaitedInAcquire ==
    ASSUME NoAcquireFaults, Typed, HoldsLock, Awaited, NEW p \in Proc,
           \/ PullEntry(p) \/ AcquireDone(p)
           \/ \E f \in Formula : Fetched(p, f) \/ Acquired(p, f) \/ AcquireFails(p, f)
    PROVE  Awaited'
<1> USE DEF Typed, TypeOK, job, prefix
<1>1. CASE PullEntry(p)
  <2> DEFINE e == plan[p][next[p] + 1]
  <2>1. e \in Formula /\ e \in Entries(p)
    BY <1>1 DEF PullEntry, Entries, Range
  <2> QED
    BY <1>1, <2>1 DEF PullEntry, SetTask, Awaited, Entries
<1>2. CASE AcquireDone(p)
  <2>1. \A f \in Formula : task[p][f] \in {"none", "acquired"}
    BY <1>2 DEF AcquireDone, Awaited, Entries
  <2>2. UNCHANGED <<prefix, plan, task>> /\ \A q \in Proc : q # p => pc'[q] = pc[q]
    BY <1>2 DEF AcquireDone, Proceed, Goto, Return
  <2> QED
    BY <2>1, <2>2 DEF Awaited, Entries
<1>3. ASSUME NEW f \in Formula, Fetched(p, f) PROVE Awaited'
  BY <1>3 DEF Fetched, SetTask, Awaited, Entries
<1>4. ASSUME NEW f \in Formula, Acquired(p, f) PROVE Awaited'
  BY <1>4 DEF Acquired, SetTask, Awaited, Entries
<1>5. ASSUME NEW f \in Formula, AcquireFails(p, f) PROVE FALSE
  BY <1>5 DEF AcquireFails, Awaited, NoAcquireFaults
<1> QED
  BY <1>1, <1>2, <1>3, <1>4, <1>5

LEMMA AwaitedInThread ==
    ASSUME NoAcquireFaults, Typed, HoldsLock, Awaited,
           NEW p \in Proc, NEW f \in Formula, Thread(p, f)
    PROVE  Awaited'
<1>1. pc[p] = "acquire"
  BY DEF Thread, CopyTree, SwapKeg, SwitchOpt, RelocateKeg, Unpack, ThreadFails, Running, Awaited
<1>2. \A q \in Proc, g \in Formula : q # p => task[q][g] \in {"none", "acquired"}
  BY <1>1, OthersSettled DEF Outside
<1> USE DEF Typed, TypeOK, PrefixTypeOK, job, SetTask, Awaited, Entries
<1>3. CASE CopyTree(p, f)
  BY <1>1, <1>2, <1>3 DEF CopyTree
<1>4. CASE SwapKeg(p, f)
  BY <1>1, <1>2, <1>4 DEF SwapKeg
<1>5. CASE SwitchOpt(p, f)
  BY <1>1, <1>2, <1>5 DEF SwitchOpt
<1>6. CASE RelocateKeg(p, f)
  BY <1>1, <1>2, <1>6 DEF RelocateKeg
<1>7. CASE Unpack(p, f)
  BY <1>1, <1>2, <1>7 DEF Unpack, prefix
<1>8. CASE ThreadFails(p, f)
  BY <1>8 DEF ThreadFails, NoAcquireFaults
<1> QED
  BY <1>3, <1>4, <1>5, <1>6, <1>7, <1>8 DEF Thread

\* Where a crash may leave a prefix that is not as it was, the process had the
\* lock: it was in one of the steps of its operation, or its thread was.
LEMMA CrashInside ==
    ASSUME Awaited, NEW p \in Proc, CutShort(p)
    PROVE  UNCHANGED <<keg, receipt, opt, links>> \/ pc[p] \notin Outside
BY DEF CutShort, Cleaning, CanFail, LinkingPartly, At, Awaited, Outside

LEMMA AwaitedOutside ==
    ASSUME Typed, HoldsLock, Awaited, NEW p \in Proc,
           Start(p) \/ AcquireLock(p) \/ Unlock(p) \/ Exit(p) \/ Crash(p)
    PROVE  Awaited'
<1> USE DEF Typed, TypeOK, job, prefix, Goto, Awaited, Entries
<1>1. CASE Start(p)
  BY <1>1 DEF Start
<1>2. CASE AcquireLock(p)
  BY <1>2 DEF AcquireLock
<1>3. CASE Unlock(p)
  BY <1>3 DEF Unlock
<1>4. CASE Exit(p)
  BY <1>4 DEF Exit, Gone, BeginPlan
<1>5. CASE Crash(p)
  <2>1. /\ task' = [task EXCEPT ![p] = [g \in Formula |-> "none"]]
        /\ plan' = [plan EXCEPT ![p] = <<>>]
        /\ pc' = [pc EXCEPT ![p] = "idle"]
        /\ UNCHANGED tmp /\ CutShort(p)
    BY <1>5 DEF Crash, Gone, BeginPlan
  <2>2. CASE UNCHANGED <<keg, receipt, opt, links>>
    BY <2>1, <2>2
  <2>3. CASE pc[p] \notin Outside
    <3>1. \A q \in Proc, g \in Formula : q # p => task[q][g] \in {"none", "acquired"}
      BY <2>3, OthersSettled DEF Typed
    <3> QED
      BY <2>1, <3>1
  <2> QED
    BY <2>1, <2>2, <2>3, CrashInside
<1> QED
  BY <1>1, <1>2, <1>3, <1>4, <1>5

LEMMA AwaitedStep ==
    NoAcquireFaults /\ Typed /\ HoldsLock /\ Awaited /\ [Next]_vars => Awaited'
<1> SUFFICES ASSUME NoAcquireFaults, Typed, HoldsLock, Awaited, [Next]_vars
             PROVE  Awaited'
  OBVIOUS
<1>1. CASE UNCHANGED vars
  BY <1>1 DEF vars, job, prefix, Awaited, Entries
<1>2. CASE Next
  BY <1>2, AwaitedInStep, AwaitedInAcquire, AwaitedInThread, AwaitedOutside
     DEF Next, Async, Planning, Resolving, Acquiring, Ending
<1> QED
  BY <1>1, <1>2

LEMMA InitAwaited == Init => Awaited
BY DEF Init, Awaited

LEMMA AlwaysAwaited ==
    ASSUME NoAcquireFaults
    PROVE  Spec => [](Typed /\ HoldsLock /\ Awaited)
<1>1. Init => HoldsLock
  BY PipelineAssumption DEF Init, HoldsLock
<1>2. Typed /\ HoldsLock /\ Awaited /\ [Next]_vars => Awaited'
  BY AwaitedStep
<1> QED
  BY <1>1, <1>2, InitTyped, NextTyped, InitAwaited, LockStep, PTL DEF Spec

\* When no download and no blocking thread fails, a thread that writes into the
\* prefix never outlives the operation that spawned it: its JoinHandle is awaited
\* before finalize, so it runs under brewdock.lock (execution.rs:112-125).
THEOREM ThreadsUnderLock ==
    ASSUME NoAcquireFaults
    PROVE  Spec => []NoOrphans
<1>1. Typed /\ HoldsLock /\ Awaited => NoOrphans
  BY DEF HoldsLock, Awaited, NoOrphans, Running
<1> QED
  BY <1>1, AlwaysAwaited, PTL

\* A step that changes the prefix is a step of a process that is inside its
\* operation.
LEMMA ChangesInside ==
    ASSUME Typed, HoldsLock, Awaited, Next, prefix' # prefix
    PROVE  \E p \in Proc : pc[p] \notin Outside
<1>1. PICK p \in Proc : Start(p) \/ Async(p) \/ (\E f \in Formula : Thread(p, f)) \/ Crash(p)
  BY DEF Next
<1>2. CASE Start(p) \/ AcquireLock(p) \/ Unlock(p) \/ Exit(p)
  BY <1>2 DEF Start, AcquireLock, Unlock, Exit
<1>3. CASE Resolving(p) \/ Upgrading(p) \/ Acquiring(p) \/ Finalizing(p)
  BY <1>3, StepsInside
<1>4. CASE \E f \in Formula : Thread(p, f)
  <2>1. pc[p] = "acquire"
    BY <1>4 DEF Thread, CopyTree, SwapKeg, SwitchOpt, RelocateKeg, Unpack, ThreadFails, Running, Awaited
  <2> QED
    BY <2>1 DEF Outside
<1>5. CASE Crash(p)
  <2>1. ~UNCHANGED <<keg, receipt, opt, links>>
    BY <1>5 DEF Crash, prefix
  <2> QED
    BY <1>5, <2>1, CrashInside DEF Crash
<1> QED
  BY <1>1, <1>2, <1>3, <1>4, <1>5 DEF Async, Planning, Resolving, Ending

\* When no download and no blocking thread fails, the prefix changes only while
\* brewdock.lock is held (core/src/lock.rs:5).
THEOREM PrefixUnderLock ==
    ASSUME NoAcquireFaults
    PROVE  Spec => MutatedUnderLock
<1>1. Typed /\ HoldsLock /\ Awaited /\ [Next]_vars => [prefix' # prefix => lock # NoProc]_vars
  <2> SUFFICES ASSUME Typed, HoldsLock, Awaited, Next, prefix' # prefix
               PROVE  lock # NoProc
    OBVIOUS
  <2>1. PICK p \in Proc : pc[p] \notin Outside
    BY ChangesInside
  <2> QED
    BY <2>1, PipelineAssumption DEF HoldsLock, Outside
<1> QED
  BY <1>1, AlwaysAwaited, PTL DEF Spec, MutatedUnderLock

----------------------------------------------------------------------------
(***************************************************************************)
(* What is shown.                                                          *)
(***************************************************************************)
ShownNew(f) == opt[f] = "new" /\ receipt[f] = "valid"

ReadyNew == \A f \in Formula : ShownNew(f) => keg[f] = "ready"

\* In the acquire stage the bottles prepared so far, and in the finalize stage
\* those still to be finalized and the keg at hand, are relocated.  A new keg has
\* no receipt.
PreparedBy(p) ==
    /\ \A f \in Formula : pc[p] = "acquire" =>
        /\ task[p][f] \in {"opting", "relocating"} => receipt[f] # "valid"
        /\ task[p][f] \in {"prepared", "acquired"} => f \in SourceBuilt \/ keg[f] = "ready"
    /\ pc[p] \in FinalizeSteps =>
        /\ at[p] \in DOMAIN plan[p]
        /\ pc[p] # "build" => keg[Entry(p)] = "ready"
        /\ \A i \in DOMAIN plan[p] :
            (i >= at[p] /\ plan[p][i] \notin SourceBuilt) => keg[plan[p][i]] = "ready"

\* What is still to be installed is not shown at its latest version.
Awaiting(p, i) ==
    \/ pc[p] = "acquire"
    \/ pc[p] \in FinalizeSteps /\ (i > at[p] \/ (i = at[p] /\ pc[p] = "build"))

FreshBy(p) ==
    /\ pc[p] \in FinalizeSteps \union {"acquire"} => IsInjective(plan[p])
    /\ \A i \in DOMAIN plan[p] : Awaiting(p, i) => ~ShownNew(plan[p][i])

\* What is still to be upgraded is shown at its old version, and is not touched by
\* the plan for the candidate at hand.
Upgraded(p) == op[p] = "upgrade" /\ pc[p] \in FinalizeSteps \union {"acquire"}

QueueBy(p) ==
    /\ pc[p] \in {"next", "replan"} \/ Upgraded(p) => IsInjective(todo[p])
    /\ \A i \in DOMAIN todo[p] :
        /\ pc[p] \in {"next", "replan"} \/ (Upgraded(p) /\ i > 1) =>
                oldKeg[todo[p][i]] /\ opt[todo[p][i]] = "old"
        /\ Upgraded(p) /\ i > 1 => todo[p][i] \notin Entries(p)

Ready(p) == PreparedBy(p) /\ FreshBy(p) /\ QueueBy(p)

Safe == Typed /\ HoldsLock /\ Awaited /\ (\A p \in Proc : Ready(p)) /\ ReadyNew

LEMMA ShownIsVisible ==
    ASSUME NEW f
    PROVE  /\ Visible(f) = "new" => ShownNew(f)
           /\ ShownNew(f) => Visible(f) = "new"
           /\ Visible(f) = "old" <=> (opt[f] = "old" /\ oldKeg[f])
BY DEF Visible, ShownNew

\* An order of a set names each of its members once.
LEMMA OrdersAreInjective ==
    ASSUME NEW S \in SUBSET Formula, NEW s \in SetToSeqs(S)
    PROVE  IsInjective(s) /\ \A i \in DOMAIN s : s[i] \in S
<1>1. IsFiniteSet(Formula)
  BY PipelineAssumption
<1>2. Cardinality(S) \in Nat
  BY <1>1, FS_Subset, FS_CardinalityType
<1>3. /\ s \in [1..Cardinality(S) -> S]
      /\ \A i, j \in 1..Cardinality(S) : i # j => s[i] # s[j]
  BY DEF SetToSeqs
<1> QED
  BY <1>2, <1>3 DEF IsInjective

LEMMA TailKept ==
    ASSUME NEW s \in Seq(Formula), s # <<>>
    PROVE  /\ \A i \in DOMAIN Tail(s) :
                i + 1 \in DOMAIN s /\ i + 1 > 1 /\ Tail(s)[i] = s[i + 1]
           /\ IsInjective(s) => IsInjective(Tail(s))
<1>1. \A i \in DOMAIN Tail(s) :
        i \in Nat /\ i + 1 \in DOMAIN s /\ i + 1 > 1 /\ Tail(s)[i] = s[i + 1]
  <2>1. /\ Tail(s) \in Seq(Formula) /\ Len(Tail(s)) = Len(s) - 1
        /\ \A i \in 1 .. Len(Tail(s)) : Tail(s)[i] = s[i + 1]
    BY HeadTailProperties
  <2>2. Len(s) \in Nat /\ DOMAIN s = 1 .. Len(s) /\ DOMAIN Tail(s) = 1 .. Len(Tail(s))
    BY <2>1, LenProperties
  <2> QED
    BY <2>1, <2>2
<1>2. ASSUME IsInjective(s) PROVE IsInjective(Tail(s))
  <2> SUFFICES ASSUME NEW i \in DOMAIN Tail(s), NEW j \in DOMAIN Tail(s),
                      Tail(s)[i] = Tail(s)[j]
               PROVE  i = j
    BY DEF IsInjective
  <2>1. i + 1 = j + 1
    BY <1>1, <1>2 DEF IsInjective
  <2> QED
    BY <1>1, <2>1
<1> QED
  BY <1>1, <1>2

\* What a plan leaves alone: its entries are among S, and S is not shown at the
\* latest version.
LEMMA PlanBegins ==
    ASSUME Typed, NEW p \in Proc, NEW S \in SUBSET Formula, NEW s \in SetToSeqs(S),
           BeginPlan(p, s), pc' = [pc EXCEPT ![p] = "acquire"], UNCHANGED <<opt, receipt>>,
           \A f \in S : ~ShownNew(f)
    PROVE  PreparedBy(p)' /\ FreshBy(p)' /\ \A f \in Entries(p)' : f \in S
<1>1. /\ plan'[p] = s /\ pc'[p] = "acquire"
      /\ \A f \in Formula : task'[p][f] = "none"
  BY DEF BeginPlan, Typed, TypeOK
<1>2. IsInjective(s) /\ \A i \in DOMAIN s : s[i] \in S
  BY OrdersAreInjective
<1>3. PreparedBy(p)'
  BY <1>1 DEF PreparedBy, FinalizeSteps
<1>4. FreshBy(p)'
  BY <1>1, <1>2 DEF FreshBy, ShownNew
<1> QED
  BY <1>1, <1>2, <1>3, <1>4 DEF Entries, Range

\* Resolving reads the prefix and changes nothing of it.
LEMMA ReadyInResolve ==
    ASSUME Typed, NEW p \in Proc, Ready(p), ReadyNew, Resolving(p)
    PROVE  Ready(p)' /\ ReadyNew'
<1>1. UNCHANGED prefix
  BY DEF Resolving, ResolvePlanOnly, ResolveInstall, ResolveUpgrade, ResolveFails
<1>2. ReadyNew'
  BY <1>1 DEF ReadyNew, ShownNew, prefix
<1>3. CASE ResolvePlanOnly(p) \/ ResolveFails(p)
  <2>1. pc'[p] = "unlock"
    BY <1>3 DEF ResolvePlanOnly, ResolveFails, Return, Goto, Typed, TypeOK
  <2> QED
    BY <1>2, <2>1 DEF Ready, PreparedBy, FreshBy, Awaiting, QueueBy, Upgraded, FinalizeSteps
<1>4. CASE ResolveInstall(p)
  <2> DEFINE S == Pending(wanted[p], {})
  <2>1. PICK s \in Orders(S) : BeginPlan(p, s)
    BY <1>4 DEF ResolveInstall
  <2>2. S \in SUBSET Formula /\ s \in SetToSeqs(S)
    BY DEF Orders, Pending, Closure
  <2>3. \A f \in S : ~ShownNew(f)
    BY ShownIsVisible DEF Pending, Installed
  <2>4. pc' = [pc EXCEPT ![p] = "acquire"] /\ op' = op /\ op[p] = "install"
    BY <1>4 DEF ResolveInstall, Goto
  <2>5. PreparedBy(p)' /\ FreshBy(p)'
    BY <1>1, <2>1, <2>2, <2>3, <2>4, PlanBegins DEF prefix
  <2>6. QueueBy(p)'
    BY <2>4 DEF QueueBy, Upgraded, Typed, TypeOK
  <2> QED
    BY <1>2, <2>5, <2>6 DEF Ready
<1>5. CASE ResolveUpgrade(p)
  <2>1. PICK skipped \in SUBSET PostInstall :
            \E s \in SetToSeqs({f \in wanted[p] \ skipped : Visible(f) = "old"}) :
                todo' = [todo EXCEPT ![p] = s]
    BY <1>5 DEF ResolveUpgrade
  <2> DEFINE S == {f \in wanted[p] \ skipped : Visible(f) = "old"}
  <2>2. PICK s \in SetToSeqs(S) : todo' = [todo EXCEPT ![p] = s]
    BY <2>1
  <2>3. S \in SUBSET Formula
    BY DEF Typed, TypeOK
  <2>4. IsInjective(s) /\ \A i \in DOMAIN s : s[i] \in S
    BY <2>3, OrdersAreInjective
  <2>5. pc'[p] = "next" /\ todo'[p] = s
    BY <1>5, <2>2 DEF ResolveUpgrade, Goto, Typed, TypeOK
  <2>6. \A f \in S : oldKeg[f] /\ opt[f] = "old"
    BY ShownIsVisible
  <2>7. QueueBy(p)'
    BY <1>1, <2>4, <2>5, <2>6 DEF QueueBy, Upgraded, FinalizeSteps, prefix
  <2>8. PreparedBy(p)' /\ FreshBy(p)'
    BY <2>5 DEF PreparedBy, FreshBy, Awaiting, FinalizeSteps
  <2> QED
    BY <1>2, <2>7, <2>8 DEF Ready
<1> QED
  BY <1>3, <1>4, <1>5 DEF Resolving

\* An upgrade's plan is its candidate, and what the candidate needs and is not
\* installed: nothing of the rest of the queue.
LEMMA PlanLeavesQueue ==
    ASSUME Typed, NEW p \in Proc, QueueBy(p), pc[p] = "replan",
           NEW S \in SUBSET Formula,
           \A f \in S : f = Candidate(p) \/ ~Installed(f)
    PROVE  /\ \A f \in S : ~ShownNew(f)
           /\ \A i \in DOMAIN todo[p] : i > 1 => todo[p][i] \notin S
<1>1. todo[p] \in Seq(Formula) /\ todo[p] # <<>>
  BY DEF Typed, TypeOK, HasCandidate
<1>2. 1 \in DOMAIN todo[p] /\ Candidate(p) = todo[p][1]
  BY <1>1 DEF Candidate
<1>3. IsInjective(todo[p]) /\ \A i \in DOMAIN todo[p] : oldKeg[todo[p][i]] /\ opt[todo[p][i]] = "old"
  BY DEF QueueBy
<1>4. \A f \in S : ~ShownNew(f)
  BY <1>2, <1>3, ShownIsVisible DEF Installed, ShownNew
<1>5. \A i \in DOMAIN todo[p] : Installed(todo[p][i])
  BY <1>3, ShownIsVisible DEF Installed
<1> QED
  BY <1>2, <1>3, <1>4, <1>5 DEF IsInjective

LEMMA ReadyInUpgrade ==
    ASSUME Typed, NEW p \in Proc, Ready(p), ReadyNew, Upgrading(p)
    PROVE  Ready(p)' /\ ReadyNew'
<1> USE DEF FinalizeSteps
<1>1. CASE UpgradeDone(p) \/ UnlinkOldFails(p) \/ PlanUpgradeFails(p) \/ Restore(p)
  <2>1. pc'[p] \in {"unlock", "restore"}
    BY <1>1 DEF UpgradeDone, UnlinkOldFails, PlanUpgradeFails, PlanFails, Restore, Return,
       Goto, Typed, TypeOK
  <2>2. /\ UNCHANGED <<keg, receipt>>
        /\ UNCHANGED opt \/ opt' = [opt EXCEPT ![Candidate(p)] = "old"]
    BY <1>1 DEF UpgradeDone, UnlinkOldFails, PlanUpgradeFails, Restore, RefreshOptLink, prefix
  <2>3. ReadyNew'
    BY <2>2 DEF ReadyNew, ShownNew, Typed, TypeOK, PrefixTypeOK
  <2> QED
    BY <2>1, <2>3 DEF Ready, PreparedBy, FreshBy, Awaiting, QueueBy, Upgraded
<1>2. CASE UnlinkOld(p)
  <2>1. /\ pc[p] = "next" /\ pc'[p] = "replan"
        /\ UNCHANGED <<oldKeg, keg, receipt, opt, op, todo, plan>>
    BY <1>2 DEF UnlinkOld, Goto, job, Typed, TypeOK
  <2> QED
    BY <2>1 DEF Ready, PreparedBy, FreshBy, Awaiting, QueueBy, Upgraded, ReadyNew, ShownNew
<1>3. CASE PlanUpgrade(p)
  <2> DEFINE f == Candidate(p)
  <2>1. /\ pc[p] = "replan" /\ pc' = [pc EXCEPT ![p] = "acquire"]
        /\ UNCHANGED <<prefix, todo, op>>
    BY <1>3 DEF PlanUpgrade, Goto
  <2>2. f \in Formula
    BY <2>1, HeadOfTodo DEF Typed, HasCandidate
  <2>3. PICK S \in SUBSET Formula :
            /\ \E s \in SetToSeqs(S) : BeginPlan(p, s)
            /\ \A g \in S : g = f \/ ~Installed(g)
    <3>1. CASE f \in SourceBuilt
      <4>1. PICK s \in Orders(Pending({f}, {f})) : BeginPlan(p, s)
        BY <1>3, <3>1 DEF PlanUpgrade
      <4>2. Pending({f}, {f}) \in SUBSET Formula /\ s \in SetToSeqs(Pending({f}, {f}))
        BY DEF Orders, Pending, Closure
      <4>3. \A g \in Pending({f}, {f}) : g = f \/ ~Installed(g)
        BY DEF Pending
      <4> QED
        BY <4>1, <4>2, <4>3
    <3>2. CASE f \notin SourceBuilt
      <4>1. BeginPlan(p, <<f>>)
        BY <1>3, <3>2 DEF PlanUpgrade
      <4>2. Cardinality({f}) = 1
        BY FS_Singleton
      <4>3. <<f>> \in SetToSeqs({f})
        BY <4>2 DEF SetToSeqs
      <4> QED
        BY <2>2, <4>1, <4>3
    <3> QED
      BY <3>1, <3>2
  <2>4. /\ \A g \in S : ~ShownNew(g)
        /\ \A i \in DOMAIN todo[p] : i > 1 => todo[p][i] \notin S
    BY <2>1, <2>3, PlanLeavesQueue DEF Ready
  <2>5. PreparedBy(p)' /\ FreshBy(p)' /\ \A g \in Entries(p)' : g \in S
    BY <2>1, <2>3, <2>4, PlanBegins DEF prefix
  <2>6. QueueBy(p)'
    BY <2>1, <2>4, <2>5 DEF Ready, QueueBy, Upgraded, prefix, Typed, TypeOK
  <2>7. ReadyNew'
    BY <2>1 DEF ReadyNew, ShownNew, prefix
  <2> QED
    BY <2>5, <2>6, <2>7 DEF Ready
<1> QED
  BY <1>1, <1>2, <1>3 DEF Upgrading

LEMMA CleanupHides ==
    ASSUME PrefixTypeOK, ReadyNew, NEW f, CleanupFailedInstall(f)
    PROVE  ReadyNew'
BY DEF CleanupFailedInstall, ReadyNew, ShownNew, PrefixTypeOK

LEMMA ReadyInAbort ==
    ASSUME Typed, NEW p \in Proc, Ready(p), ReadyNew, AbortEntry(p) \/ AbortDone(p)
    PROVE  Ready(p)' /\ ReadyNew'
<1>1. ReadyNew'
  BY CleanupHides DEF AbortEntry, AbortDone, ReadyNew, ShownNew, prefix, Typed, TypeOK
<1>2. pc'[p] \in {"abort", "restore", "unlock"}
  BY DEF AbortEntry, AbortDone, PlanFails, Goto, Typed, TypeOK
<1> QED
  BY <1>1, <1>2 DEF Ready, PreparedBy, FreshBy, Awaiting, QueueBy, Upgraded, FinalizeSteps

\* The for loop goes on to entry i, or to the next candidate of upgrade.
LEMMA LoopGoesOn ==
    ASSUME Typed, NEW p \in Proc, Ready(p), NEW i \in Nat \ {0}, Proceed(p, i),
           pc[p] \in FinalizeSteps \union {"acquire"},
           UNCHANGED <<prefix, op, plan>>,
           \A j \in DOMAIN plan[p] : j >= i =>
                /\ plan[p][j] \notin SourceBuilt => keg[plan[p][j]] = "ready"
                /\ ~ShownNew(plan[p][j])
    PROVE  Ready(p)'
<1> USE DEF FinalizeSteps, Goto, Return, prefix
<1>1. Len(plan[p]) \in Nat /\ DOMAIN plan[p] = 1 .. Len(plan[p])
  BY DEF Typed, TypeOK
<1>2. CASE i <= Len(plan[p])
  <2>1. /\ at'[p] = i /\ UNCHANGED todo
        /\ pc'[p] = IF plan[p][i] \in SourceBuilt THEN "build" ELSE "etcvar"
    BY <1>2 DEF Proceed, Typed, TypeOK
  <2>2. i \in DOMAIN plan[p]
    BY <1>1, <1>2
  <2>3. PreparedBy(p)'
    BY <2>1, <2>2 DEF PreparedBy, Entry
  <2>4. FreshBy(p)'
    BY <1>1, <2>1 DEF Ready, FreshBy, Awaiting, ShownNew
  <2>5. QueueBy(p)'
    BY <2>1 DEF Ready, QueueBy, Upgraded, Entries
  <2> QED
    BY <2>3, <2>4, <2>5 DEF Ready
<1>3. CASE ~(i <= Len(plan[p])) /\ op[p] = "upgrade"
  <2>1. pc'[p] = "next" /\ todo'[p] = Tail(todo[p])
    BY <1>3 DEF Proceed, Typed, TypeOK
  <2>2. todo[p] \in Seq(Formula) /\ todo[p] # <<>>
    BY <1>3 DEF Typed, TypeOK, HasCandidate
  <2>3. /\ IsInjective(todo[p])
        /\ \A k \in DOMAIN todo[p] : k > 1 => oldKeg[todo[p][k]] /\ opt[todo[p][k]] = "old"
    BY <1>3 DEF Ready, QueueBy, Upgraded
  <2>4. IsInjective(todo'[p]) /\ \A k \in DOMAIN todo'[p] : oldKeg[todo'[p][k]] /\ opt[todo'[p][k]] = "old"
    BY <2>1, <2>2, <2>3, TailKept
  <2>5. QueueBy(p)'
    BY <2>1, <2>4 DEF QueueBy, Upgraded
  <2> QED
    BY <2>1, <2>5 DEF Ready, PreparedBy, FreshBy, Awaiting
<1>4. CASE ~(i <= Len(plan[p])) /\ op[p] # "upgrade"
  <2>1. pc'[p] = "unlock"
    BY <1>4 DEF Proceed, Typed, TypeOK
  <2> QED
    BY <2>1 DEF Ready, PreparedBy, FreshBy, Awaiting, QueueBy, Upgraded
<1> QED
  BY <1>2, <1>3, <1>4

LEMMA ReadyInAcquire ==
    ASSUME NoAcquireFaults, Typed, Awaited, NEW p \in Proc, Ready(p), ReadyNew,
           \/ PullEntry(p) \/ AcquireDone(p)
           \/ \E f \in Formula : Fetched(p, f) \/ Acquired(p, f) \/ AcquireFails(p, f)
    PROVE  Ready(p)' /\ ReadyNew'
<1>1. ReadyNew'
  BY DEF PullEntry, AcquireDone, Fetched, Acquired, AcquireFails, prefix, ReadyNew, ShownNew
<1>2. CASE AcquireDone(p)
  <2>1. \A j \in DOMAIN plan[p] : plan[p][j] \in Formula /\ task[p][plan[p][j]] = "acquired"
    BY <1>2 DEF AcquireDone, Entries, Range, Typed, TypeOK
  <2>2. \A j \in DOMAIN plan[p] :
            /\ plan[p][j] \notin SourceBuilt => keg[plan[p][j]] = "ready"
            /\ ~ShownNew(plan[p][j])
    BY <1>2, <2>1 DEF AcquireDone, Ready, PreparedBy, FreshBy, Awaiting
  <2> QED
    BY <1>1, <1>2, <2>2, LoopGoesOn DEF AcquireDone
<1>3. ASSUME NEW f \in Formula, NEW x \in {"fetching", "copying", "unpacking", "acquired"},
             task' = [task EXCEPT ![p][f] = x], pc[p] = "acquire",
             x = "acquired" => task[p][f] = "prepared",
             UNCHANGED <<prefix, pc, job>>
      PROVE  Ready(p)'
  <2>1. PreparedBy(p)'
    BY <1>3 DEF Ready, PreparedBy, FinalizeSteps, prefix, job, Typed, TypeOK
  <2>2. FreshBy(p)' /\ QueueBy(p)'
    BY <1>3 DEF Ready, FreshBy, Awaiting, ShownNew, QueueBy, Upgraded, Entries,
       FinalizeSteps, prefix, job
  <2> QED
    BY <2>1, <2>2 DEF Ready
<1>4. CASE PullEntry(p)
  <2>1. plan[p][next[p] + 1] \in Formula
    BY <1>4 DEF PullEntry, Typed, TypeOK
  <2> QED
    BY <1>1, <1>3, <1>4, <2>1 DEF PullEntry, SetTask
<1>5. ASSUME NEW f \in Formula, Fetched(p, f) PROVE Ready(p)'
  BY <1>3, <1>5 DEF Fetched, SetTask
<1>6. ASSUME NEW f \in Formula, Acquired(p, f) PROVE Ready(p)'
  BY <1>3, <1>6 DEF Acquired, SetTask
<1>7. ASSUME NEW f \in Formula, AcquireFails(p, f) PROVE FALSE
  BY <1>7 DEF AcquireFails, Awaited, NoAcquireFaults
<1> QED
  BY <1>1, <1>2, <1>4, <1>5, <1>6, <1>7

LEMMA ReadyInThread ==
    ASSUME NoAcquireFaults, Typed, Awaited, NEW p \in Proc, Ready(p), ReadyNew,
           NEW f \in Formula, Thread(p, f)
    PROVE  Ready(p)' /\ ReadyNew'
<1>1. pc[p] = "acquire" /\ UNCHANGED <<pc, op, plan, todo, oldKeg>>
  BY DEF Thread, CopyTree, SwapKeg, SwitchOpt, RelocateKeg, Unpack, ThreadFails, Running,
     Awaited, job, prefix
<1>2. f \in Entries(p)
  BY DEF Thread, CopyTree, SwapKeg, SwitchOpt, RelocateKeg, Unpack, ThreadFails, Running, Awaited
<1>3. ~ShownNew(f)
  BY <1>1, <1>2 DEF Ready, FreshBy, Awaiting, Entries, Range
<1>4. /\ PreparedBy(p)' /\ ReadyNew' /\ ~ShownNew(f)'
      /\ \A g \in Formula : g # f => opt'[g] = opt[g] /\ receipt'[g] = receipt[g]
  <2>1. PreparedBy(p)
    BY DEF Ready
  <2> USE <1>1, <1>3, <2>1 DEF Typed, TypeOK, PrefixTypeOK, FinalizeSteps, SetTask,
                               PreparedBy, ReadyNew, ShownNew
  <2>2. CASE CopyTree(p, f)
    BY <2>2 DEF CopyTree
  <2>3. CASE SwapKeg(p, f)
    BY <2>3 DEF SwapKeg
  <2>4. CASE SwitchOpt(p, f)
    BY <2>4 DEF SwitchOpt, RefreshOptLink
  <2>5. CASE RelocateKeg(p, f)
    BY <2>5 DEF RelocateKeg, Awaited
  <2>6. CASE Unpack(p, f)
    BY <2>6 DEF Unpack, prefix, Awaited
  <2>7. CASE ThreadFails(p, f)
    BY <2>7 DEF ThreadFails, NoAcquireFaults
  <2> QED
    BY <2>2, <2>3, <2>4, <2>5, <2>6, <2>7 DEF Thread
<1>5. FreshBy(p)'
  <2>1. \A i \in DOMAIN plan[p] : plan[p][i] \in Formula /\ ~ShownNew(plan[p][i])
    BY <1>1 DEF Ready, FreshBy, Awaiting, Typed, TypeOK
  <2> QED
    BY <1>1, <1>4, <2>1 DEF Ready, FreshBy, ShownNew
<1>6. QueueBy(p)'
  <2>1. \A i \in DOMAIN todo[p] : todo[p][i] \in Formula
    BY DEF Typed, TypeOK
  <2> QED
    BY <1>1, <1>2, <1>4, <2>1 DEF Ready, QueueBy, Upgraded, Entries
<1> QED
  BY <1>4, <1>5, <1>6 DEF Ready

\* A step of finalize that succeeds changes what is shown of its own entry only.
LEMMA EntryOnly ==
    ASSUME Typed, NEW p \in Proc,
           Build(p) \/ OptLink(p) \/ EtcVar(p) \/ Hook(p) \/ Link(p) \/ Receipt(p)
    PROVE  /\ pc[p] \in FinalizeSteps /\ pc'[p] \in FinalizeSteps \ {"build"}
           /\ UNCHANGED <<op, plan, todo, at, oldKeg>>
           /\ \A g \in Formula : g # Entry(p) =>
                opt'[g] = opt[g] /\ receipt'[g] = receipt[g] /\ keg'[g] = keg[g]
<1> USE DEF At, StepTo, Stay, Goto, job, prefix, FinalizeSteps, Typed, TypeOK, PrefixTypeOK
<1>1. CASE Build(p)
  BY <1>1 DEF Build
<1>2. CASE OptLink(p)
  BY <1>2 DEF OptLink, RefreshOptLink
<1>3. CASE EtcVar(p) \/ Hook(p) \/ Link(p)
  BY <1>3 DEF EtcVar, Hook, Link
<1>4. CASE Receipt(p)
  BY <1>4 DEF Receipt, WriteReceipt
<1> QED
  BY <1>1, <1>2, <1>3, <1>4

LEMMA ReadyInFinalize ==
    ASSUME Typed, NEW p \in Proc, Ready(p), ReadyNew, Finalizing(p)
    PROVE  Ready(p)' /\ ReadyNew'
<1>1. pc[p] \in FinalizeSteps
  BY DEF Finalizing, Build, BuildFails, OptLink, OptLinkFails, EtcVar, EtcVarFails,
     Hook, HookFails, Link, Receipt, FinalizeFails, RollbackFails, Commit, CommitFails,
     At, FinalizeSteps
<1>2. at[p] \in DOMAIN plan[p] /\ Entry(p) \in Formula
  BY <1>1 DEF Ready, PreparedBy, Entry, Typed, TypeOK
<1>3. CASE BuildFails(p) \/ OptLinkFails(p) \/ EtcVarFails(p) \/ HookFails(p)
           \/ FinalizeFails(p) \/ RollbackFails(p) \/ CommitFails(p)
  <2>1. pc'[p] \in {"restore", "unlock"}
    BY <1>3 DEF BuildFails, OptLinkFails, EtcVarFails, HookFails, FinalizeFails, RollbackFails,
       CommitFails, StepFails, PlanFails, Goto, Typed, TypeOK
  <2>2. ReadyNew'
    <3>1. CASE CleanupFailedInstall(Entry(p))
      BY <3>1, CleanupHides DEF Typed, TypeOK
    <3>2. CASE UNCHANGED <<keg, opt>> /\ receipt' \in {receipt, [receipt EXCEPT ![Entry(p)] = "torn"]}
      BY <3>2 DEF ReadyNew, ShownNew, Typed, TypeOK, PrefixTypeOK
    <3> QED
      BY <1>3, <3>1, <3>2 DEF BuildFails, OptLinkFails, EtcVarFails, HookFails, FinalizeFails,
         RollbackFails, CommitFails, prefix
  <2> QED
    BY <2>1, <2>2 DEF Ready, PreparedBy, FreshBy, Awaiting, QueueBy, Upgraded, FinalizeSteps
<1>4. CASE Build(p) \/ OptLink(p) \/ EtcVar(p) \/ Hook(p) \/ Link(p) \/ Receipt(p)
  <2>1. /\ pc'[p] \in FinalizeSteps \ {"build"}
        /\ UNCHANGED <<op, plan, todo, at, oldKeg>>
        /\ \A g \in Formula : g # Entry(p) =>
                opt'[g] = opt[g] /\ receipt'[g] = receipt[g] /\ keg'[g] = keg[g]
    BY <1>4, EntryOnly
  <2>2. keg'[Entry(p)] = "ready"
    <3>1. CASE Build(p)
      BY <1>2, <3>1 DEF Build, Typed, TypeOK, PrefixTypeOK
    <3>2. CASE OptLink(p) \/ EtcVar(p) \/ Hook(p) \/ Link(p) \/ Receipt(p)
      BY <1>1, <3>2 DEF OptLink, EtcVar, Hook, Link, Receipt, At, Ready, PreparedBy, prefix
    <3> QED
      BY <1>4, <3>1, <3>2
  <2>3. ReadyNew'
    BY <2>1, <2>2 DEF ReadyNew, ShownNew
  <2>4. \A i \in DOMAIN plan[p] : plan[p][i] \in Formula /\ i \in Nat
    BY DEF Typed, TypeOK
  <2>5. PreparedBy(p)'
    BY <1>1, <1>2, <2>1, <2>2, <2>4 DEF Ready, PreparedBy, Entry, FinalizeSteps
  <2>6. FreshBy(p)'
    <3>1. IsInjective(plan[p])
      BY <1>1 DEF Ready, FreshBy
    <3>2. \A i \in DOMAIN plan[p] : i > at[p] => plan[p][i] # Entry(p) /\ ~ShownNew(plan[p][i])
      BY <1>1, <1>2, <2>4, <3>1 DEF Ready, FreshBy, Awaiting, Entry, IsInjective, Typed, TypeOK
    <3>3. \A i \in DOMAIN plan[p] : Awaiting(p, i)' => i > at[p]
      BY <2>1 DEF Awaiting, FinalizeSteps
    <3> QED
      BY <2>1, <2>4, <3>1, <3>2, <3>3 DEF FreshBy, ShownNew
  <2>7. QueueBy(p)'
    <3>1. Upgraded(p)' => Upgraded(p)
      BY <1>1, <2>1 DEF Upgraded
    <3>2. \A i \in DOMAIN todo[p] : todo[p][i] \in Formula
      BY DEF Typed, TypeOK
    <3>3. Entry(p) \in Entries(p)
      BY <1>2 DEF Entry, Entries, Range
    <3> QED
      BY <2>1, <3>1, <3>2, <3>3 DEF Ready, QueueBy, Upgraded, Entries, FinalizeSteps
  <2> QED
    BY <2>3, <2>5, <2>6, <2>7 DEF Ready
<1>5. CASE Commit(p)
  <2>1. Proceed(p, at[p] + 1) /\ UNCHANGED <<prefix, op, plan>>
    BY <1>5 DEF Commit
  <2>2. at[p] \in Nat /\ at[p] + 1 \in Nat \ {0} /\ \A j \in DOMAIN plan[p] : j \in Nat
    BY DEF Typed, TypeOK
  <2>3. \A j \in DOMAIN plan[p] : j >= at[p] + 1 =>
            /\ plan[p][j] \notin SourceBuilt => keg[plan[p][j]] = "ready"
            /\ ~ShownNew(plan[p][j])
    BY <1>1, <2>2 DEF Ready, PreparedBy, FreshBy, Awaiting
  <2>4. ReadyNew'
    BY <2>1 DEF ReadyNew, ShownNew, prefix
  <2> QED
    BY <1>1, <2>1, <2>2, <2>3, <2>4, LoopGoesOn
<1> QED
  BY <1>3, <1>4, <1>5 DEF Finalizing

\* While p is in its operation the others are outside of theirs, whatever p does.
LEMMA ReadyOutside ==
    ASSUME NEW q \in Proc, pc[q] \in Outside
    PROVE  Ready(q)
BY DEF Ready, PreparedBy, FreshBy, Awaiting, QueueBy, Upgraded, Outside, FinalizeSteps

LEMMA OthersReady ==
    ASSUME Typed, HoldsLock, Awaited, NEW p \in Proc,
           \/ Resolving(p) \/ Upgrading(p) \/ Acquiring(p) \/ Finalizing(p)
           \/ \E f \in Formula : Thread(p, f),
           NEW q \in Proc, q # p
    PROVE  Ready(q)'
<1>1. pc[p] \notin Outside /\ pc'[q] = pc[q]
  <2>1. CASE \E f \in Formula : Thread(p, f)
    BY <2>1, ThreadsKeepLock DEF Thread, CopyTree, SwapKeg, SwitchOpt, RelocateKeg, Unpack,
       ThreadFails, Running, Awaited, Outside
  <2>2. CASE ~\E f \in Formula : Thread(p, f)
    BY <2>2, StepsInside DEF Typed, TypeOK
  <2> QED
    BY <2>1, <2>2
<1>2. pc'[q] \in Outside
  BY <1>1 DEF HoldsLock, Outside
<1> QED
  BY <1>2 DEF Ready, PreparedBy, FreshBy, Awaiting, QueueBy, Upgraded, Outside, FinalizeSteps

\* What is being worked on when a process dies is not shown, or no longer.
LEMMA CutShortHides ==
    ASSUME Typed, Awaited, NEW p \in Proc, Ready(p), ReadyNew, CutShort(p)
    PROVE  ReadyNew'
<1> USE DEF Typed, TypeOK, PrefixTypeOK, ReadyNew, ShownNew
<1>1. CASE UNCHANGED <<keg, receipt, opt>>
  BY <1>1
<1>2. CASE CleanupPartly(Entry(p))
  BY <1>2 DEF CleanupPartly, RemoveKegPartly
<1>3. CASE UNCHANGED <<keg, opt>> /\ receipt' = [receipt EXCEPT ![Entry(p)] = "torn"]
  BY <1>3
<1>4. CASE /\ At(p, "build") /\ keg' = [keg EXCEPT ![Entry(p)] = "raw"]
           /\ UNCHANGED <<receipt, opt>>
  <2>1. at[p] \in DOMAIN plan[p] /\ pc[p] = "build" /\ pc[p] \in FinalizeSteps
    BY <1>4 DEF Ready, PreparedBy, At, FinalizeSteps
  <2>2. ~ShownNew(Entry(p))
    BY <2>1 DEF Ready, FreshBy, Awaiting, Entry
  <2> QED
    BY <1>4, <2>2
<1>5. CASE (\E f \in Formula : task[p][f] = "swapping" /\ RemoveKegPartly(f)) /\ UNCHANGED opt
  <2>1. PICK f \in Formula : task[p][f] = "swapping" /\ RemoveKegPartly(f)
    BY <1>5
  <2>2. pc[p] = "acquire" /\ f \in Entries(p)
    BY <2>1 DEF Awaited
  <2>3. ~ShownNew(f)
    BY <2>2 DEF Ready, FreshBy, Awaiting, Entries, Range
  <2>4. \A g \in Formula : g # f => receipt'[g] = receipt[g] /\ keg'[g] = keg[g]
    BY <2>1 DEF RemoveKegPartly
  <2>5. ~ShownNew(f)'
    <3>1. opt[f] = "new" => receipt'[f] # "valid"
      BY <2>1, <2>3 DEF RemoveKegPartly
    <3> QED
      BY <1>5, <3>1
  <2> QED
    BY <1>5, <2>4, <2>5
<1> QED
  BY <1>1, <1>2, <1>3, <1>4, <1>5 DEF CutShort

LEMMA ReadyInEnding ==
    ASSUME Typed, HoldsLock, Awaited, \A q \in Proc : Ready(q), ReadyNew, NEW p \in Proc,
           Start(p) \/ AcquireLock(p) \/ Unlock(p) \/ Exit(p) \/ Crash(p)
    PROVE  (\A q \in Proc : Ready(q)') /\ ReadyNew'
<1>1. pc'[p] \in {"lock", "resolve", "exit", "idle"}
  BY DEF Start, AcquireLock, Unlock, Exit, Crash, Gone, Goto, Typed, TypeOK
<1>2. ASSUME NEW q \in Proc, q # p
      PROVE  /\ pc'[q] = pc[q] /\ task'[q] = task[q] /\ plan'[q] = plan[q] /\ at'[q] = at[q]
             /\ op'[q] = op[q] /\ todo'[q] = todo[q]
  BY <1>2 DEF Start, AcquireLock, Unlock, Exit, Crash, Gone, BeginPlan, Goto, job, Typed, TypeOK
<1>3. Ready(p)'
  BY <1>1 DEF Ready, PreparedBy, FreshBy, Awaiting, QueueBy, Upgraded, FinalizeSteps
<1>4. UNCHANGED oldKeg
  BY DEF Start, AcquireLock, Unlock, Exit, Crash, prefix
<1>5. CASE UNCHANGED <<keg, receipt, opt>>
  BY <1>2, <1>3, <1>4, <1>5 DEF Ready, PreparedBy, FreshBy, Awaiting, QueueBy, Upgraded,
     Entry, Entries, ReadyNew, ShownNew
<1>6. CASE ~UNCHANGED <<keg, receipt, opt>>
  <2>1. Crash(p)
    BY <1>6 DEF Start, AcquireLock, Unlock, Exit, prefix
  <2>2. CutShort(p) /\ pc[p] \notin Outside
    BY <1>6, <2>1, CrashInside DEF Crash
  <2>3. ASSUME NEW q \in Proc, q # p PROVE Ready(q)'
    <3>1. pc'[q] \in Outside
      BY <1>2, <2>2, <2>3 DEF HoldsLock, Outside
    <3> QED
      BY <3>1 DEF Ready, PreparedBy, FreshBy, Awaiting, QueueBy, Upgraded, Outside, FinalizeSteps
  <2> QED
    BY <1>3, <2>2, <2>3, CutShortHides
<1> QED
  BY <1>5, <1>6

LEMMA SafeStep ==
    NoAcquireFaults /\ Safe /\ [Next]_vars => (\A q \in Proc : Ready(q)') /\ ReadyNew'
<1> SUFFICES ASSUME NoAcquireFaults, Safe, [Next]_vars
             PROVE  (\A q \in Proc : Ready(q)') /\ ReadyNew'
  OBVIOUS
<1> USE DEF Safe
<1>1. CASE UNCHANGED vars
  BY <1>1 DEF vars, job, prefix, Ready, PreparedBy, FreshBy, Awaiting, QueueBy, Upgraded,
     Entry, Entries, ReadyNew, ShownNew
<1>2. ASSUME NEW p \in Proc,
             \/ Resolving(p) \/ Upgrading(p) \/ Acquiring(p) \/ Finalizing(p)
             \/ \E f \in Formula : Thread(p, f)
      PROVE  (\A q \in Proc : Ready(q)') /\ ReadyNew'
  <2>1. Ready(p)' /\ ReadyNew'
    BY <1>2, ReadyInResolve, ReadyInUpgrade, ReadyInAbort, ReadyInAcquire, ReadyInFinalize,
       ReadyInThread DEF Acquiring
  <2>2. \A q \in Proc : q # p => Ready(q)'
    BY <1>2, OthersReady
  <2> QED
    BY <2>1, <2>2
<1>3. CASE Next
  BY <1>2, <1>3, ReadyInEnding DEF Next, Async, Planning, Resolving, Ending
<1> QED
  BY <1>1, <1>3

\* When no download and no blocking thread fails, what is seen at its latest version
\* is relocated, or built to the end, whatever else fails and wherever a process
\* crashes: what the next command finds through find_installed_keg is whole
\* (finalize.rs:45-57, execution.rs:434-445, discover.rs:50-98).
THEOREM ShownCorrect ==
    ASSUME NoAcquireFaults
    PROVE  Spec => []ShownIsReady
<1>1. Init => Safe
  <2>1. Init => HoldsLock
    BY PipelineAssumption DEF Init, HoldsLock
  <2>2. Init => \A p \in Proc : Ready(p)
    BY ReadyOutside DEF Init, Outside
  <2>3. Init => ReadyNew
    BY DEF Init, ReadyNew, ShownNew
  <2> QED
    BY <2>1, <2>2, <2>3, InitTyped, InitAwaited DEF Safe
<1>2. Safe /\ [Next]_vars => Safe'
  BY NextTyped, LockStep, AwaitedStep, SafeStep DEF Safe
<1>3. Safe => ShownIsReady
  BY ShownIsVisible DEF Safe, ReadyNew, ShownIsReady
<1> QED
  BY <1>1, <1>2, <1>3, PTL DEF Spec

----------------------------------------------------------------------------
(***************************************************************************)
(* What is installed is touched only by an upgrade that is at it, when no  *)
(* download and no blocking thread fails.  The plan is filtered once,      *)
(* before the downloads; that it still names nothing installed when its    *)
(* entries come up rests on the lock, and on the entries being distinct.   *)
(***************************************************************************)
\* Entry i of the plan may still be taken down or replaced by the run.
InWork(p, i) ==
    \/ pc[p] = "acquire"
    \/ pc[p] \in FinalizeSteps /\ i > at[p]
    \/ pc[p] \in {"build", "optlink"} /\ i = at[p]
    \/ /\ pc[p] \in {"etcvar", "hook", "link", "receipt"} /\ i = at[p]
       /\ plan[p][i] \notin SourceBuilt

\* There is nothing to lose, or it is what the upgrade is at.
Replaceable(p, f) == ~Installed(f) \/ (op[p] = "upgrade" /\ f = Candidate(p))

Spared(p) ==
    /\ pc[p] # "abort"
    /\ pc[p] \in {"next", "replan", "restore"} => op[p] = "upgrade"
    /\ pc[p] \in {"build", "optlink"} => Entry(p) \in SourceBuilt
    /\ \A i \in DOMAIN plan[p] : InWork(p, i) => Replaceable(p, plan[p][i])

Kept == Safe /\ \A p \in Proc : Spared(p)

\* What OnlyUpgradeTouches allows p to change.
Allowed(p, f) ==
    \/ op[p] = "upgrade" /\ todo[p] # <<>> /\ f = Candidate(p)
    \/ pc[p] \in FinalizeSteps /\ f = Entry(p) /\ f \in SourceBuilt

Touches(p) == \A f \in Formula : Installed(f) /\ Visible(f)' # Visible(f) => Allowed(p, f)

----------------------------------------------------------------------------
LEMMA VisibleKept ==
    ASSUME NEW f, opt'[f] = opt[f], receipt'[f] = receipt[f], oldKeg'[f] = oldKeg[f]
    PROVE  Visible(f)' = Visible(f) /\ (Installed(f)' <=> Installed(f))
BY DEF Visible, Installed

LEMMA NothingShownChanges ==
    ASSUME UNCHANGED <<oldKeg, receipt, opt>>
    PROVE  /\ \A f : Visible(f)' = Visible(f) /\ (Installed(f)' <=> Installed(f))
           /\ \A p : Touches(p)
BY DEF Visible, Installed, Touches

\* The entry at hand, and every other one.
LEMMA EntriesAreFormulae ==
    ASSUME Safe, NEW p \in Proc
    PROVE  /\ \A i \in DOMAIN plan[p] : plan[p][i] \in Formula /\ i \in Nat
           /\ DOMAIN plan[p] = 1 .. Len(plan[p]) /\ Len(plan[p]) \in Nat
           /\ pc[p] \in FinalizeSteps => at[p] \in DOMAIN plan[p] /\ Entry(p) \in Formula
BY DEF Safe, Typed, TypeOK, Ready, PreparedBy, Entry

LEMMA InWorkAllowed ==
    ASSUME Safe, NEW p \in Proc, Spared(p), NEW i \in DOMAIN plan[p], InWork(p, i),
           Installed(plan[p][i])
    PROVE  Allowed(p, plan[p][i])
<1>1. op[p] = "upgrade" /\ plan[p][i] = Candidate(p)
  BY DEF Spared, Replaceable
<1>2. pc[p] \in FinalizeSteps \union {"acquire"}
  BY DEF InWork, FinalizeSteps
<1> QED
  BY <1>1, <1>2 DEF Allowed, Safe, Typed, HasCandidate

\* While p is at an entry, and its receipt is not written yet, it may take it down.
LEMMA EntryAllowed ==
    ASSUME Safe, NEW p \in Proc, Spared(p), pc[p] \in FinalizeSteps \ {"commit"}, Installed(Entry(p))
    PROVE  Allowed(p, Entry(p))
<1>1. at[p] \in DOMAIN plan[p]
  BY EntriesAreFormulae
<1>2. CASE Entry(p) \in SourceBuilt
  BY <1>2 DEF Allowed
<1>3. CASE Entry(p) \notin SourceBuilt
  <2>1. InWork(p, at[p])
    BY <1>3 DEF InWork, FinalizeSteps, Entry
  <2> QED
    BY <1>1, <2>1, InWorkAllowed DEF Entry
<1> QED
  BY <1>2, <1>3

\* A step that shows and hides nothing but the entry at hand.
LEMMA TouchesEntry ==
    ASSUME Safe, NEW p \in Proc, Spared(p), pc[p] \in FinalizeSteps \ {"commit"}, UNCHANGED oldKeg,
           \A f \in Formula : f # Entry(p) => opt'[f] = opt[f] /\ receipt'[f] = receipt[f]
    PROVE  Touches(p)
BY EntryAllowed, VisibleKept DEF Touches

----------------------------------------------------------------------------
LEMMA SparedInResolve ==
    ASSUME Safe, NEW p \in Proc, Spared(p), Resolving(p)
    PROVE  Spared(p)' /\ Touches(p)
<1>0. Typed
  BY DEF Safe
<1>1. UNCHANGED prefix /\ Touches(p)
  BY NothingShownChanges DEF Resolving, ResolvePlanOnly, ResolveInstall, ResolveUpgrade, ResolveFails, prefix
<1>2. CASE ResolvePlanOnly(p) \/ ResolveFails(p)
  <2>1. pc'[p] = "unlock"
    BY <1>0, <1>2 DEF ResolvePlanOnly, ResolveFails, Return, Goto, Typed, TypeOK
  <2> QED
    BY <1>1, <2>1 DEF Spared, InWork, FinalizeSteps
<1>3. CASE ResolveUpgrade(p)
  <2>1. pc'[p] = "next" /\ op'[p] = "upgrade"
    BY <1>0, <1>3 DEF ResolveUpgrade, Goto, Typed, TypeOK
  <2> QED
    BY <1>1, <2>1 DEF Spared, InWork, FinalizeSteps
<1>4. CASE ResolveInstall(p)
  <2> DEFINE S == Pending(wanted[p], {})
  <2>1. PICK s \in Orders(S) : BeginPlan(p, s)
    BY <1>4 DEF ResolveInstall
  <2>2. S \in SUBSET Formula /\ s \in SetToSeqs(S)
    BY DEF Orders, Pending, Closure
  <2>3. \A i \in DOMAIN s : s[i] \in S
    BY <2>2, OrdersAreInjective
  <2>4. pc'[p] = "acquire" /\ plan'[p] = s
    BY <1>0, <1>4, <2>1 DEF ResolveInstall, Goto, BeginPlan, Typed, TypeOK
  <2>5. \A f \in S : ~Installed(f)'
    BY <1>1, NothingShownChanges DEF Pending, prefix
  <2>6. \A i \in DOMAIN plan'[p] : Replaceable(p, plan[p][i])'
    BY <2>3, <2>4, <2>5 DEF Replaceable
  <2> QED
    BY <1>1, <2>4, <2>6 DEF Spared
<1> QED
  BY <1>2, <1>3, <1>4 DEF Resolving

LEMMA SparedInUpgrade ==
    ASSUME Safe, NEW p \in Proc, Spared(p), Upgrading(p)
    PROVE  Spared(p)' /\ Touches(p)
<1>0. Typed
  BY DEF Safe
<1>1. CASE UpgradeDone(p) \/ UnlinkOldFails(p)
  <2>1. pc'[p] = "unlock"
    BY <1>0, <1>1 DEF UpgradeDone, UnlinkOldFails, Return, Goto, Typed, TypeOK
  <2>2. UNCHANGED <<oldKeg, receipt, opt>>
    BY <1>1 DEF UpgradeDone, UnlinkOldFails, prefix
  <2> QED
    BY <2>1, <2>2, NothingShownChanges DEF Spared, InWork, FinalizeSteps
<1>2. CASE UnlinkOld(p)
  <2>1. pc[p] = "next" /\ pc'[p] = "replan" /\ op' = op
    BY <1>0, <1>2 DEF UnlinkOld, Goto, job, Typed, TypeOK
  <2>2. UNCHANGED <<oldKeg, receipt, opt>>
    BY <1>2 DEF UnlinkOld
  <2> QED
    BY <2>1, <2>2, NothingShownChanges DEF Spared, InWork, FinalizeSteps
<1>3. CASE PlanUpgradeFails(p)
  <2>1. pc[p] = "replan" /\ op[p] = "upgrade" /\ op' = op
    BY <1>3 DEF PlanUpgradeFails, Spared
  <2>2. pc'[p] = "restore" /\ UNCHANGED <<oldKeg, receipt, opt>>
    BY <1>0, <1>3, <2>1 DEF PlanUpgradeFails, PlanFails, Goto, prefix, Typed, TypeOK
  <2> QED
    BY <2>1, <2>2, NothingShownChanges DEF Spared, InWork, FinalizeSteps
<1>4. CASE Restore(p)
  <2>1. pc[p] = "restore" /\ pc'[p] = "unlock" /\ op[p] = "upgrade"
    BY <1>0, <1>4 DEF Restore, Goto, Spared, Typed, TypeOK
  <2>2. /\ UNCHANGED <<oldKeg, receipt>> /\ todo[p] # <<>>
        /\ \A f \in Formula : f # Candidate(p) => opt'[f] = opt[f]
    BY <1>0, <1>4, <2>1 DEF Restore, RefreshOptLink, Typed, TypeOK, PrefixTypeOK, HasCandidate
  <2>3. Touches(p)
    BY <2>1, <2>2, VisibleKept DEF Touches, Allowed
  <2> QED
    BY <2>1, <2>3 DEF Spared, InWork, FinalizeSteps
<1>5. CASE PlanUpgrade(p)
  <2> DEFINE f == Candidate(p)
  <2>1. /\ pc[p] = "replan" /\ pc'[p] = "acquire" /\ op[p] = "upgrade"
        /\ UNCHANGED <<prefix, todo, op>>
    BY <1>0, <1>5 DEF PlanUpgrade, Goto, Spared, Typed, TypeOK
  <2>2. \A i \in DOMAIN plan'[p] : plan'[p][i] = f \/ ~Installed(plan'[p][i])
    <3>1. CASE f \in SourceBuilt
      <4>1. PICK s \in Orders(Pending({f}, {f})) : BeginPlan(p, s)
        BY <1>5, <3>1 DEF PlanUpgrade
      <4>2. Pending({f}, {f}) \in SUBSET Formula /\ s \in SetToSeqs(Pending({f}, {f}))
        BY DEF Orders, Pending, Closure
      <4>3. \A i \in DOMAIN s : s[i] \in Pending({f}, {f})
        BY <4>2, OrdersAreInjective
      <4>4. \A g \in Pending({f}, {f}) : g = f \/ ~Installed(g)
        BY DEF Pending
      <4>5. plan'[p] = s
        BY <1>0, <4>1 DEF BeginPlan, Typed, TypeOK
      <4> QED
        BY <4>3, <4>4, <4>5
    <3>2. CASE f \notin SourceBuilt
      <4>1. plan'[p] = <<f>>
        BY <1>0, <1>5, <3>2 DEF PlanUpgrade, BeginPlan, Typed, TypeOK
      <4> QED
        BY <4>1
    <3> QED
      BY <3>1, <3>2
  <2>3. \A i \in DOMAIN plan'[p] : Replaceable(p, plan[p][i])'
    BY <2>1, <2>2, NothingShownChanges DEF Replaceable, Candidate, prefix
  <2> QED
    BY <2>1, <2>3, NothingShownChanges DEF Spared, prefix
<1> QED
  BY <1>1, <1>2, <1>3, <1>4, <1>5 DEF Upgrading

\* The loop goes on to entry i, with nothing changed.
LEMMA SparedInLoop ==
    ASSUME Safe, NEW p \in Proc, Spared(p), NEW i \in Nat \ {0}, Proceed(p, i),
           UNCHANGED <<prefix, op, plan>>,
           \A j \in DOMAIN plan[p] : j >= i => Replaceable(p, plan[p][j])
    PROVE  Spared(p)' /\ Touches(p)
<1>0. Typed /\ DOMAIN plan[p] = 1 .. Len(plan[p]) /\ Len(plan[p]) \in Nat
  BY EntriesAreFormulae DEF Safe
<1>1. UNCHANGED <<oldKeg, receipt, opt>>
  BY DEF prefix
<1>2. CASE i <= Len(plan[p])
  <2>1. /\ at'[p] = i /\ UNCHANGED todo
        /\ pc'[p] = IF plan[p][i] \in SourceBuilt THEN "build" ELSE "etcvar"
    BY <1>0, <1>2 DEF Proceed, Goto, Typed, TypeOK
  <2>2. \A j \in DOMAIN plan[p] : InWork(p, j)' => j >= i
    BY <1>0, <2>1 DEF InWork
  <2>3. \A j \in DOMAIN plan[p] : j >= i => Replaceable(p, plan[p][j])'
    BY <1>1, <2>1, NothingShownChanges DEF Replaceable, Candidate
  <2>4. pc'[p] \notin {"abort", "next", "replan", "restore", "optlink"}
    BY <2>1
  <2>5. pc'[p] = "build" => Entry(p)' \in SourceBuilt
    BY <2>1 DEF Entry
  <2> QED
    BY <1>1, <2>2, <2>3, <2>4, <2>5, NothingShownChanges DEF Spared
<1>3. CASE ~(i <= Len(plan[p]))
  <2>1. pc'[p] = IF op[p] = "upgrade" THEN "next" ELSE "unlock"
    BY <1>0, <1>3 DEF Proceed, Goto, Return, Typed, TypeOK
  <2>2. CASE op[p] = "upgrade"
    BY <1>1, <2>1, <2>2, NothingShownChanges DEF Spared, InWork, FinalizeSteps
  <2>3. CASE op[p] # "upgrade"
    BY <1>1, <2>1, <2>3, NothingShownChanges DEF Spared, InWork, FinalizeSteps
  <2> QED
    BY <2>2, <2>3
<1> QED
  BY <1>2, <1>3

LEMMA SparedInAcquire ==
    ASSUME NoAcquireFaults, Safe, NEW p \in Proc, Spared(p), Acquiring(p)
    PROVE  Spared(p)' /\ Touches(p)
<1>0. Typed /\ Awaited
  BY DEF Safe
<1>1. CASE UNCHANGED <<prefix, pc, op, todo, plan, at>>
  <2>1. \A i \in DOMAIN plan[p] : /\ InWork(p, i)' <=> InWork(p, i)
                                  /\ Replaceable(p, plan[p][i])' <=> Replaceable(p, plan[p][i])
    BY <1>1, NothingShownChanges DEF InWork, Replaceable, Candidate, prefix
  <2> QED
    BY <1>1, <2>1, NothingShownChanges DEF Spared, Entry, prefix
<1>2. CASE AcquireDone(p)
  <2>1. pc[p] = "acquire" /\ Proceed(p, 1) /\ UNCHANGED <<prefix, op, plan>>
    BY <1>2 DEF AcquireDone
  <2>2. \A j \in DOMAIN plan[p] : Replaceable(p, plan[p][j])
    BY <2>1 DEF Spared, InWork
  <2> QED
    BY <2>1, <2>2, SparedInLoop
<1>3. CASE AbortEntry(p) \/ AbortDone(p)
  BY <1>3 DEF AbortEntry, AbortDone, Spared
<1>4. CASE PullEntry(p)
  BY <1>1, <1>4 DEF PullEntry, job
<1>5. ASSUME NEW f \in Formula, Fetched(p, f) PROVE UNCHANGED <<prefix, pc, op, todo, plan, at>>
  BY <1>5 DEF Fetched, job
<1>6. ASSUME NEW f \in Formula, Acquired(p, f) PROVE UNCHANGED <<prefix, pc, op, todo, plan, at>>
  BY <1>6 DEF Acquired, job
<1>7. ASSUME NEW f \in Formula, AcquireFails(p, f) PROVE FALSE
  BY <1>0, <1>7 DEF AcquireFails, Awaited, NoAcquireFaults
<1> QED
  BY <1>1, <1>2, <1>3, <1>4, <1>5, <1>6, <1>7 DEF Acquiring

LEMMA SparedInThread ==
    ASSUME NoAcquireFaults, Safe, NEW p \in Proc, Spared(p), NEW f \in Formula, Thread(p, f)
    PROVE  Spared(p)' /\ Touches(p)
<1>0. Typed /\ Awaited /\ PreparedBy(p)
  BY DEF Safe, Ready
<1>1. /\ pc[p] = "acquire" /\ f \in Entries(p)
      /\ UNCHANGED <<pc, op, plan, todo, at, oldKeg>>
  BY <1>0 DEF Thread, CopyTree, SwapKeg, SwitchOpt, RelocateKeg, Unpack, ThreadFails, Running,
     Awaited, job, prefix
<1>2. PICK i \in DOMAIN plan[p] : plan[p][i] = f
  BY <1>1 DEF Entries, Range
<1>3. Replaceable(p, f) /\ (Installed(f) => Allowed(p, f))
  BY <1>1, <1>2, InWorkAllowed DEF Spared, InWork
<1>4. \A g \in Formula : g # f => opt'[g] = opt[g] /\ receipt'[g] = receipt[g]
  BY <1>0 DEF Thread, CopyTree, SwapKeg, SwitchOpt, RelocateKeg, Unpack, ThreadFails,
     RefreshOptLink, prefix, Typed, TypeOK, PrefixTypeOK
<1>5. Touches(p)
  BY <1>1, <1>3, <1>4, VisibleKept DEF Touches
<1>6. ~Installed(f) => ~Installed(f)'
  <2> USE <1>0, <1>1 DEF Typed, TypeOK, PrefixTypeOK, Installed, Visible
  <2>1. CASE SwapKeg(p, f)
    BY <2>1 DEF SwapKeg
  <2>2. CASE SwitchOpt(p, f)
    <3>1. receipt[f] # "valid"
      BY <2>2 DEF SwitchOpt, PreparedBy
    <3> QED
      BY <2>2, <3>1 DEF SwitchOpt, RefreshOptLink
  <2>3. CASE UNCHANGED <<oldKeg, receipt, opt>>
    BY <2>3
  <2> QED
    BY <2>1, <2>2, <2>3 DEF Thread, CopyTree, RelocateKeg, Unpack, ThreadFails, prefix
<1>7. \A j \in DOMAIN plan[p] : Replaceable(p, plan[p][j])'
  <2> SUFFICES ASSUME NEW j \in DOMAIN plan[p] PROVE Replaceable(p, plan[p][j])'
    OBVIOUS
  <2>1. Replaceable(p, plan[p][j]) /\ plan[p][j] \in Formula
    BY <1>1, EntriesAreFormulae DEF Spared, InWork
  <2>2. ~Installed(plan[p][j]) => ~Installed(plan[p][j])'
    BY <1>1, <1>4, <1>6, <2>1, VisibleKept
  <2> QED
    BY <1>1, <2>1, <2>2 DEF Replaceable, Candidate
<1> QED
  BY <1>1, <1>5, <1>7 DEF Spared

\* A failed finalize ends the plan; it took down at most the entry at hand.
LEMMA SparedInFailure ==
    ASSUME Safe, NEW p \in Proc, Spared(p),
           \/ BuildFails(p) \/ OptLinkFails(p) \/ EtcVarFails(p) \/ HookFails(p)
           \/ FinalizeFails(p) \/ RollbackFails(p) \/ CommitFails(p)
    PROVE  Spared(p)' /\ Touches(p)
<1>0. Typed
  BY DEF Safe
<1>1. PlanFails(p) /\ op' = op
  BY DEF BuildFails, OptLinkFails, EtcVarFails, HookFails, FinalizeFails, RollbackFails,
     CommitFails, StepFails, Stay, job
<1>2. pc'[p] = IF op[p] = "upgrade" THEN "restore" ELSE "unlock"
  BY <1>0, <1>1 DEF PlanFails, Goto, Typed, TypeOK
<1>3. Spared(p)'
  BY <1>1, <1>2 DEF Spared, InWork, FinalizeSteps
<1>4. CASE OptLinkFails(p) \/ CommitFails(p)
  BY <1>3, <1>4, NothingShownChanges DEF OptLinkFails, CommitFails, prefix
<1>5. CASE BuildFails(p) \/ EtcVarFails(p) \/ HookFails(p) \/ FinalizeFails(p) \/ RollbackFails(p)
  <2>1. pc[p] \in FinalizeSteps \ {"commit"}
    BY <1>5 DEF BuildFails, EtcVarFails, HookFails, FinalizeFails, RollbackFails, At, FinalizeSteps
  <2>2. CASE CleanupFailedInstall(Entry(p))
    <3>1. /\ UNCHANGED oldKeg
          /\ \A f \in Formula : f # Entry(p) => opt'[f] = opt[f] /\ receipt'[f] = receipt[f]
      BY <1>0, <2>2 DEF CleanupFailedInstall, Typed, TypeOK, PrefixTypeOK
    <3> QED
      BY <1>3, <2>1, <3>1, TouchesEntry
  <2>3. CASE RollbackFails(p)
    <3>1. UNCHANGED <<oldKeg, opt>> /\ receipt' \in {receipt, [receipt EXCEPT ![Entry(p)] = "torn"]}
      BY <2>3 DEF RollbackFails
    <3>2. \A f \in Formula : f # Entry(p) => receipt'[f] = receipt[f]
      BY <1>0, <3>1 DEF Typed, TypeOK, PrefixTypeOK
    <3> QED
      BY <1>3, <2>1, <3>1, <3>2, TouchesEntry
  <2> QED
    BY <1>5, <2>2, <2>3 DEF BuildFails, EtcVarFails, HookFails, FinalizeFails
<1> QED
  BY <1>4, <1>5

LEMMA SparedInFinalize ==
    ASSUME Safe, NEW p \in Proc, Spared(p), Finalizing(p)
    PROVE  Spared(p)' /\ Touches(p)
<1>0. Typed /\ Ready(p)
  BY DEF Safe
<1>1. CASE BuildFails(p) \/ OptLinkFails(p) \/ EtcVarFails(p) \/ HookFails(p)
           \/ FinalizeFails(p) \/ RollbackFails(p) \/ CommitFails(p)
  BY <1>1, SparedInFailure
<1>2. CASE Build(p) \/ OptLink(p) \/ EtcVar(p) \/ Hook(p) \/ Link(p) \/ Receipt(p)
  <2>1. /\ pc[p] \in FinalizeSteps /\ pc'[p] \in FinalizeSteps \ {"build"}
        /\ UNCHANGED <<op, plan, todo, at, oldKeg>>
        /\ \A g \in Formula : g # Entry(p) => opt'[g] = opt[g] /\ receipt'[g] = receipt[g]
    BY <1>0, <1>2, EntryOnly
  <2>2. at[p] \in DOMAIN plan[p] /\ Entry(p) = plan[p][at[p]]
    BY <2>1, EntriesAreFormulae DEF Entry
  <2>3. pc[p] # "commit"
    BY <1>2 DEF Build, OptLink, EtcVar, Hook, Link, Receipt, At
  <2>4. Touches(p)
    BY <2>1, <2>3, TouchesEntry
  <2>5. ASSUME NEW j \in DOMAIN plan[p], j > at[p] PROVE Replaceable(p, plan[p][j])'
    <3>1. j \in Nat /\ at[p] \in Nat /\ plan[p][j] \in Formula
      BY <2>2, EntriesAreFormulae
    <3>2. Replaceable(p, plan[p][j])
      BY <2>1, <2>5 DEF Spared, InWork
    <3>3. plan[p][j] # Entry(p)
      BY <1>0, <2>1, <2>2, <2>5, <3>1 DEF Ready, FreshBy, IsInjective
    <3>4. Installed(plan[p][j])' <=> Installed(plan[p][j])
      BY <2>1, <3>1, <3>3, VisibleKept
    <3> QED
      BY <2>1, <3>2, <3>4 DEF Replaceable, Candidate
  <2>6. /\ pc'[p] # "build" /\ (pc'[p] = "optlink" => Build(p))
        /\ pc'[p] = "etcvar" => OptLink(p)
        /\ pc'[p] \in {"hook", "link"} => EtcVar(p) \/ Hook(p)
        /\ pc'[p] = "receipt" => Link(p)
        /\ pc'[p] \notin {"abort", "next", "replan", "restore"}
    BY <1>0, <1>2, <2>1 DEF Build, OptLink, EtcVar, Hook, Link, Receipt, StepTo, Goto, FinalizeSteps,
       Typed, TypeOK
  <2>7. ASSUME NEW j \in DOMAIN plan[p], j = at[p], InWork(p, j)' PROVE Replaceable(p, plan[p][j])'
    <3>0. /\ plan[p][j] = Entry(p) /\ plan[p][j] \in Formula /\ ~(at'[p] > at[p])
          /\ at'[p] = at[p] /\ plan'[p] = plan[p]
      BY <2>1, <2>2, <2>7, EntriesAreFormulae
    <3>1. CASE OptLink(p) \/ Receipt(p)
      <4>1. pc'[p] \in {"etcvar", "commit"}
        BY <1>0, <3>1 DEF OptLink, Receipt, StepTo, Goto, Typed, TypeOK
      <4>2. pc'[p] = "etcvar" => pc[p] = "optlink"
        BY <2>6 DEF OptLink, At
      <4>3. Entry(p) \in SourceBuilt \/ pc'[p] = "commit"
        BY <4>1, <4>2 DEF Spared
      <4> QED
        BY <2>7, <3>0, <4>1, <4>3 DEF InWork, FinalizeSteps
    <3>2. CASE Build(p) \/ EtcVar(p) \/ Hook(p) \/ Link(p)
      <4>1. UNCHANGED <<receipt, opt>>
        BY <3>2 DEF Build, EtcVar, Hook, Link, prefix
      <4>2. InWork(p, j)
        <5>1. CASE Build(p)
          BY <2>7, <5>1 DEF Build, At, InWork
        <5>2. CASE EtcVar(p) \/ Hook(p) \/ Link(p)
          <6>1. pc[p] \in {"etcvar", "hook", "link"} /\ pc'[p] \in {"hook", "link", "receipt"}
            BY <1>0, <5>2 DEF EtcVar, Hook, Link, At, StepTo, Goto, Typed, TypeOK
          <6>2. plan[p][j] \notin SourceBuilt
            BY <2>7, <3>0, <6>1 DEF InWork, FinalizeSteps
          <6> QED
            BY <2>7, <6>1, <6>2 DEF InWork
        <5> QED
          BY <3>2, <5>1, <5>2
      <4>3. Replaceable(p, plan[p][j])
        BY <2>7, <4>2 DEF Spared
      <4>4. Installed(plan[p][j])' <=> Installed(plan[p][j])
        BY <2>1, <3>0, <4>1, VisibleKept
      <4> QED
        BY <2>1, <3>0, <4>3, <4>4 DEF Replaceable, Candidate
    <3> QED
      BY <1>2, <3>1, <3>2
  <2>8. \A j \in DOMAIN plan[p] : InWork(p, j)' => j >= at[p]
    BY <2>1, <2>2, EntriesAreFormulae DEF InWork, FinalizeSteps
  <2>9. \A j \in DOMAIN plan[p] : InWork(p, j)' => Replaceable(p, plan[p][j])'
    <3> SUFFICES ASSUME NEW j \in DOMAIN plan[p], InWork(p, j)' PROVE Replaceable(p, plan[p][j])'
      OBVIOUS
    <3>1. CASE j > at[p]
      BY <2>5, <3>1
    <3>2. CASE j = at[p]
      BY <2>7, <3>2
    <3> QED
      BY <2>2, <2>8, <3>1, <3>2, EntriesAreFormulae
  <2>10. pc'[p] = "optlink" => Entry(p)' \in SourceBuilt
    BY <2>1, <2>6 DEF Build, At, Spared, Entry
  <2> QED
    BY <2>1, <2>4, <2>6, <2>9, <2>10 DEF Spared
<1>3. CASE Commit(p)
  <2>1. pc[p] = "commit" /\ Proceed(p, at[p] + 1) /\ UNCHANGED <<prefix, op, plan>>
    BY <1>3 DEF Commit, At
  <2>2. at[p] \in Nat /\ at[p] + 1 \in Nat \ {0} /\ \A j \in DOMAIN plan[p] : j \in Nat
    BY <1>0, EntriesAreFormulae DEF Typed, TypeOK
  <2>3. \A j \in DOMAIN plan[p] : j >= at[p] + 1 => Replaceable(p, plan[p][j])
    BY <2>1, <2>2 DEF Spared, InWork, FinalizeSteps
  <2> QED
    BY <2>1, <2>2, <2>3, SparedInLoop
<1> QED
  BY <1>1, <1>2, <1>3 DEF Finalizing

----------------------------------------------------------------------------
\* Where a process dies it leaves what it was not working on as it was.
LEMMA CrashTouches ==
    ASSUME Safe, NEW p \in Proc, Spared(p), CutShort(p), UNCHANGED oldKeg
    PROVE  Touches(p)
<1>0. Typed /\ Awaited
  BY DEF Safe
<1>1. CASE UNCHANGED <<receipt, opt>>
  BY <1>1, NothingShownChanges
<1>2. CASE Cleaning(p) /\ CleanupPartly(Entry(p))
  <2>1. pc[p] \in FinalizeSteps \ {"commit"}
    BY <1>2 DEF Cleaning, CanFail, At, FinalizeSteps, Spared
  <2>2. \A f \in Formula : f # Entry(p) => opt'[f] = opt[f] /\ receipt'[f] = receipt[f]
    BY <1>0, <1>2 DEF CleanupPartly, RemoveKegPartly, Typed, TypeOK, PrefixTypeOK
  <2> QED
    BY <2>1, <2>2, TouchesEntry
<1>3. CASE At(p, "receipt") /\ receipt' = [receipt EXCEPT ![Entry(p)] = "torn"] /\ UNCHANGED opt
  <2>1. pc[p] \in FinalizeSteps \ {"commit"}
    BY <1>3 DEF At, FinalizeSteps
  <2>2. \A f \in Formula : f # Entry(p) => opt'[f] = opt[f] /\ receipt'[f] = receipt[f]
    BY <1>0, <1>3 DEF Typed, TypeOK, PrefixTypeOK
  <2> QED
    BY <2>1, <2>2, TouchesEntry
<1>4. CASE (\E f \in Formula : task[p][f] = "swapping" /\ RemoveKegPartly(f)) /\ UNCHANGED opt
  <2>1. PICK f \in Formula : task[p][f] = "swapping" /\ RemoveKegPartly(f)
    BY <1>4
  <2>2. pc[p] = "acquire" /\ f \in Entries(p)
    BY <1>0, <2>1 DEF Awaited
  <2>3. PICK i \in DOMAIN plan[p] : plan[p][i] = f
    BY <2>2 DEF Entries, Range
  <2>4. Installed(f) => Allowed(p, f)
    BY <2>2, <2>3, InWorkAllowed DEF InWork
  <2>5. \A g \in Formula : g # f => receipt'[g] = receipt[g]
    BY <1>0, <2>1 DEF RemoveKegPartly, Typed, TypeOK, PrefixTypeOK
  <2> QED
    BY <1>4, <2>4, <2>5, VisibleKept DEF Touches
<1> QED
  BY <1>1, <1>2, <1>3, <1>4 DEF CutShort

\* A process that is outside of its operation has nothing in work.
LEMMA SparedOutside ==
    ASSUME NEW q \in Proc, pc'[q] \in Outside \union {"resolve"}
    PROVE  Spared(q)'
BY DEF Spared, InWork, Outside, FinalizeSteps

LEMMA SparedInEnding ==
    ASSUME Kept, NEW p \in Proc, Start(p) \/ AcquireLock(p) \/ Unlock(p) \/ Exit(p) \/ Crash(p)
    PROVE  (\A q \in Proc : Spared(q)') /\ Touches(p)
<1>0. Safe /\ Typed /\ HoldsLock /\ Awaited
  BY DEF Kept, Safe
<1>1. pc'[p] \in Outside \union {"resolve"}
  BY <1>0 DEF Start, AcquireLock, Unlock, Exit, Crash, Gone, Goto, Outside, Typed, TypeOK
<1>2. ASSUME NEW q \in Proc, q # p
      PROVE  /\ pc'[q] = pc[q] /\ plan'[q] = plan[q] /\ at'[q] = at[q]
             /\ op'[q] = op[q] /\ todo'[q] = todo[q]
  BY <1>0, <1>2 DEF Start, AcquireLock, Unlock, Exit, Crash, Gone, BeginPlan, Goto, job, Typed, TypeOK
<1>3. UNCHANGED oldKeg
  BY DEF Start, AcquireLock, Unlock, Exit, Crash, prefix
<1>4. CASE UNCHANGED <<receipt, opt>>
  <2>1. ASSUME NEW q \in Proc, q # p PROVE Spared(q)'
    <3>1. Spared(q)
      BY DEF Kept
    <3>2. \A i \in DOMAIN plan[q] : /\ InWork(q, i)' <=> InWork(q, i)
                                    /\ Replaceable(q, plan[q][i])' <=> Replaceable(q, plan[q][i])
      BY <1>2, <1>3, <1>4, <2>1, NothingShownChanges DEF InWork, Replaceable, Candidate
    <3> QED
      BY <1>2, <2>1, <3>1, <3>2 DEF Spared, Entry
  <2> QED
    BY <1>1, <1>3, <1>4, <2>1, SparedOutside, NothingShownChanges
<1>5. CASE ~UNCHANGED <<receipt, opt>>
  <2>1. Crash(p)
    BY <1>5 DEF Start, AcquireLock, Unlock, Exit, prefix
  <2>2. CutShort(p) /\ pc[p] \notin Outside
    BY <1>0, <1>5, <2>1, CrashInside DEF Crash
  <2>3. ASSUME NEW q \in Proc, q # p PROVE Spared(q)'
    <3>1. pc'[q] \in Outside
      BY <1>0, <1>2, <2>2, <2>3 DEF HoldsLock, Outside
    <3> QED
      BY <3>1, SparedOutside
  <2> QED
    BY <1>0, <1>1, <1>3, <2>2, <2>3, SparedOutside, CrashTouches DEF Kept
<1> QED
  BY <1>4, <1>5

LEMMA OthersSpared ==
    ASSUME Safe, NEW p \in Proc,
           \/ Resolving(p) \/ Upgrading(p) \/ Acquiring(p) \/ Finalizing(p)
           \/ \E f \in Formula : Thread(p, f),
           NEW q \in Proc, q # p
    PROVE  Spared(q)'
<1>0. Typed /\ HoldsLock /\ Awaited
  BY DEF Safe
<1>1. pc[p] \notin Outside /\ pc'[q] = pc[q]
  <2>1. CASE \E f \in Formula : Thread(p, f)
    BY <1>0, <2>1, ThreadsKeepLock DEF Thread, CopyTree, SwapKeg, SwitchOpt, RelocateKeg, Unpack,
       ThreadFails, Running, Awaited, Outside
  <2>2. CASE ~\E f \in Formula : Thread(p, f)
    BY <1>0, <2>2, StepsInside DEF Typed, TypeOK
  <2> QED
    BY <2>1, <2>2
<1>2. pc'[q] \in Outside
  BY <1>0, <1>1 DEF HoldsLock, Outside
<1> QED
  BY <1>2, SparedOutside

LEMMA SparedStep ==
    ASSUME NoAcquireFaults, Kept, Next
    PROVE  (\A q \in Proc : Spared(q)') /\ \E p \in Proc : Touches(p)
<1> USE DEF Kept
<1>1. ASSUME NEW p \in Proc,
             \/ Resolving(p) \/ Upgrading(p) \/ Acquiring(p) \/ Finalizing(p)
             \/ \E f \in Formula : Thread(p, f)
      PROVE  (\A q \in Proc : Spared(q)') /\ Touches(p)
  <2>1. Spared(p)' /\ Touches(p)
    BY <1>1, SparedInResolve, SparedInUpgrade, SparedInAcquire, SparedInFinalize, SparedInThread
  <2>2. \A q \in Proc : q # p => Spared(q)'
    BY <1>1, OthersSpared
  <2> QED
    BY <2>1, <2>2
<1> QED
  BY <1>1, SparedInEnding DEF Next, Async, Planning, Resolving, Ending

LEMMA KeptStep ==
    ASSUME NoAcquireFaults, Kept, [Next]_vars
    PROVE  Kept'
<1>1. Safe'
  BY NextTyped, LockStep, AwaitedStep, SafeStep DEF Safe, Kept
<1>2. CASE UNCHANGED vars
  <2>1. UNCHANGED <<oldKeg, receipt, opt, pc, op, todo, plan, at>>
    BY <1>2 DEF vars, job, prefix
  <2>2. ASSUME NEW q \in Proc PROVE Spared(q)'
    <3>1. \A i \in DOMAIN plan[q] : /\ InWork(q, i)' <=> InWork(q, i)
                                    /\ Replaceable(q, plan[q][i])' <=> Replaceable(q, plan[q][i])
      BY <2>1, NothingShownChanges DEF InWork, Replaceable, Candidate
    <3> QED
      BY <2>1, <3>1 DEF Kept, Spared, Entry
  <2> QED
    BY <1>1, <2>2 DEF Kept
<1> QED
  BY <1>1, <1>2, SparedStep DEF Kept

LEMMA InitKept == Init => Kept
<1>1. Init => HoldsLock
  BY PipelineAssumption DEF Init, HoldsLock
<1>2. Init => \A p \in Proc : Ready(p)
  BY ReadyOutside DEF Init, Outside
<1>3. Init => ReadyNew
  BY DEF Init, ReadyNew, ShownNew
<1>4. Init => \A p \in Proc : Spared(p)
  BY DEF Init, Spared, InWork, FinalizeSteps
<1> QED
  BY <1>1, <1>2, <1>3, <1>4, InitTyped, InitAwaited DEF Safe, Kept

LEMMA AlwaysKept ==
    ASSUME NoAcquireFaults
    PROVE  Spec => []Kept
<1>1. Kept /\ [Next]_vars => Kept'
  BY KeptStep
<1> QED
  BY <1>1, InitKept, PTL DEF Spec

\* When no download and no blocking thread fails, no step makes an installed formula
\* vanish or change version but an upgrade that is at it, or a source build of it that
\* fails or dies, whatever else fails, crashes or runs at the same time
\* (orchestrate/planning.rs filter_pending_formulae, execution.rs).
THEOREM OnlyUpgradeTouchesIt ==
    ASSUME NoAcquireFaults
    PROVE  Spec => OnlyUpgradeTouches
<1>1. Kept /\ [Next]_vars =>
        [\A f \in Formula : (Installed(f) /\ Visible(f)' # Visible(f)) =>
            \E p \in Proc :
                \/ op[p] = "upgrade" /\ todo[p] # <<>> /\ f = Candidate(p)
                \/ pc[p] \in FinalizeSteps /\ f = Entry(p) /\ f \in SourceBuilt]_vars
  BY SparedStep DEF Touches, Allowed
<1> QED
  BY <1>1, AlwaysKept, PTL DEF Spec, OnlyUpgradeTouches
=============================================================================
