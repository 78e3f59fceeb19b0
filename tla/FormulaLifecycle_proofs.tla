----------------------- MODULE FormulaLifecycle_proofs -----------------------
(***************************************************************************)
(* What bd list shows of every formula goes through the life cycle of      *)
(* module FormulaLifecycle, and stays installed, whole and with its        *)
(* dependencies between operations: for every set of formulae, graph and   *)
(* number of processes, under the faults that each theorem names.          *)
(***************************************************************************)
EXTENDS InstallOutcome_proofs

\* A receipt says installed: it is not there while opt points elsewhere.  But when the
\* removal of the backups may fail, the upgrade that then puts the old version back
\* leaves the receipt of the new one.
Bare(f) == receipt[f] # "valid" \/ (oldKeg[f] /\ "commit" \in Faults)

\* Entry i of the plan has yet to get its receipt.
Unfinished(p, i) ==
    \/ pc[p] = "acquire"
    \/ pc[p] \in FinalizeSteps /\ (i > at[p] \/ (i = at[p] /\ pc[p] # "commit"))

\* The candidate of an upgrade is the last entry of its plan, and was installed before.
BareBy(p) ==
    /\ \A i \in DOMAIN plan[p] : Unfinished(p, i) => Bare(plan[p][i])
    /\ op[p] = "upgrade" /\ Working(p) =>
            Len(plan[p]) \in DOMAIN plan[p] /\ Candidate(p) = plan[p][Len(plan[p])]
    /\ op[p] = "upgrade" /\ (Working(p) \/ pc[p] = "restore") => oldKeg[Candidate(p)]
    /\ pc[p] = "restore" => Bare(Candidate(p))

Hidden == \A f \in Formula : Bare(f) \/ opt[f] = "new"

Bared == Hidden /\ \A p \in Proc : BareBy(p)

----------------------------------------------------------------------------
(***************************************************************************)
(* Plans.                                                                  *)
(***************************************************************************)

\* What a formula reaches is the formula, and what it needs.
LEMMA ClosureOfOne ==
    ASSUME NEW f \in Formula, NEW g \in Closure({f}), g # f
    PROVE  g \in Needs(f)
<1> DEFINE S == {f} \union Needs(f)
<1>1. S \in SUBSET Formula
  BY DEF Needs, Closure
<1>2. Deps[f] \subseteq Formula /\ \A h \in Formula : Deps[h] \subseteq Formula
  BY PipelineAssumption
<1>3. \A h \in Needs(f) : Deps[h] \subseteq Needs(f)
  BY <1>2 DEF Needs, Closure
<1>4. Deps[f] \subseteq Needs(f)
  BY <1>2 DEF Needs, Closure
<1>5. {f} \subseteq S /\ \A h \in S : Deps[h] \subseteq S
  BY <1>3, <1>4
<1>6. g \in S
  BY <1>1, <1>5 DEF Closure
<1> QED
  BY <1>6

LEMMA ClosureIsClosed ==
    ASSUME NEW names \in SUBSET Formula, NEW f \in Closure(names), NEW d \in Deps[f]
    PROVE  d \in Closure(names) /\ d \in Needs(f)
BY PipelineAssumption DEF Closure, Needs

\* A formula comes last in an order of what it reaches.
LEMMA CandidateLast ==
    ASSUME NEW f \in Formula, NEW S \in SUBSET Closure({f}), f \in S, NEW s \in Orders(S)
    PROVE  Len(s) \in DOMAIN s /\ s[Len(s)] = f
<1>1. S \in SUBSET Formula /\ s \in SetToSeqs(S)
  BY DEF Orders, Closure
<1>2. Range(s) = S /\ s \in Seq(Formula)
  BY <1>1, OrdersCover, SeqsOfFormulae
<1>3. PICK i \in DOMAIN s : s[i] = f
  BY <1>2 DEF Range
<1>4. DOMAIN s = 1 .. Len(s) /\ Len(s) \in Nat
  BY <1>2, LenProperties
<1>5. Len(s) \in DOMAIN s
  BY <1>3, <1>4
<1>6. CASE s[Len(s)] # f
  <2>1. s[Len(s)] \in Needs(f)
    BY <1>2, <1>5, <1>6, ClosureOfOne DEF Range
  <2>2. Len(s) < i
    BY <1>3, <1>5, <2>1 DEF Orders
  <2> QED
    BY <1>3, <1>4, <2>2
<1> QED
  BY <1>5, <1>6

\* How PlanUpgrade begins: with the candidate, and what it needs and is not installed.
LEMMA UpgradePlan ==
    ASSUME Kept, NEW p \in Proc, PlanUpgrade(p)
    PROVE  /\ pc[p] = "replan" /\ pc'[p] = "acquire" /\ op[p] = "upgrade"
           /\ UNCHANGED <<prefix, op, wanted, todo>>
           /\ Candidate(p) \in Formula
           /\ oldKeg[Candidate(p)] /\ opt[Candidate(p)] = "old"
           /\ plan'[p] \in Seq(Formula)
           /\ Len(plan'[p]) \in DOMAIN plan'[p] /\ Candidate(p) = plan'[p][Len(plan'[p])]
           /\ \A i \in DOMAIN plan'[p] :
                    plan'[p][i] \in Formula /\ (plan'[p][i] = Candidate(p) \/ ~Installed(plan'[p][i]))
<1>0. Safe /\ Typed
  BY DEF Kept, Safe
<1>1. /\ pc[p] = "replan" /\ pc'[p] = "acquire" /\ op[p] = "upgrade"
      /\ UNCHANGED <<prefix, op, wanted, todo>>
  BY <1>0 DEF PlanUpgrade, Goto, Kept, Spared, Typed, TypeOK
<1>2. PICK f \in Formula : f = Candidate(p)
  BY <1>0, <1>1, HeadOfTodo DEF Typed, HasCandidate
<1>3. oldKeg[f] /\ opt[f] = "old"
  <2>1. todo[p] \in Seq(Formula) /\ todo[p] # <<>>
    BY <1>0, <1>1 DEF Typed, TypeOK, HasCandidate
  <2>2. 1 \in DOMAIN todo[p] /\ f = todo[p][1]
    BY <1>2, <2>1 DEF Candidate
  <2> QED
    BY <1>0, <1>1, <2>2 DEF Safe, Ready, QueueBy
<1>4. /\ Len(plan'[p]) \in DOMAIN plan'[p] /\ f = plan'[p][Len(plan'[p])]
      /\ plan'[p] \in Seq(Formula)
      /\ \A i \in DOMAIN plan'[p] :
            plan'[p][i] \in Formula /\ (plan'[p][i] = f \/ ~Installed(plan'[p][i]))
  <2>1. CASE f \in SourceBuilt
    <3>1. PICK s \in Orders(Pending({f}, {f})) : BeginPlan(p, s)
      BY <1>2, <2>1 DEF PlanUpgrade
    <3>2. Pending({f}, {f}) \in SUBSET Formula /\ s \in SetToSeqs(Pending({f}, {f}))
      BY DEF Orders, Pending, Closure
    <3>3. /\ Pending({f}, {f}) \in SUBSET Closure({f}) /\ f \in Pending({f}, {f})
          /\ \A g \in Pending({f}, {f}) : g = f \/ ~Installed(g)
      BY DEF Pending, Closure
    <3>4. Len(s) \in DOMAIN s /\ s[Len(s)] = f
      BY <3>3, CandidateLast
    <3>5. \A i \in DOMAIN s : s[i] \in Pending({f}, {f})
      BY <3>2, OrdersAreInjective
    <3>6. plan'[p] = s /\ s \in Seq(Formula)
      BY <1>0, <3>1, <3>2, SeqsOfFormulae DEF BeginPlan, Typed, TypeOK
    <3> QED
      BY <3>2, <3>3, <3>4, <3>5, <3>6
  <2>2. CASE f \notin SourceBuilt
    <3>1. plan'[p] = <<f>>
      BY <1>0, <1>2, <2>2 DEF PlanUpgrade, BeginPlan, Typed, TypeOK
    <3> QED
      BY <3>1
  <2> QED
    BY <2>1, <2>2
<1> QED
  BY <1>1, <1>2, <1>3, <1>4

----------------------------------------------------------------------------
(***************************************************************************)
(* What a step shows and hides.                                            *)
(***************************************************************************)

\* p takes e down, or begins to replace it, before its receipt.
Hides(p, e) ==
    /\ \E i \in DOMAIN plan[p] : Unfinished(p, i) /\ e = plan[p][i]
    /\ opt'[e] \in {opt[e], "new", "none"}
    /\ receipt'[e] \in {receipt[e], "none", "torn"}

\* The receipt of the entry at hand, and the old version put back.
Shows(p, e) == Receipt(p) /\ e = Entry(p) /\ receipt'[e] = "valid" /\ opt'[e] = opt[e]

Reopens(p, e) == Restore(p) /\ e = Candidate(p) /\ receipt'[e] = receipt[e] /\ opt'[e] = "old"

OneShown(p) ==
    \/ UNCHANGED <<receipt, opt>>
    \/ \E e \in Formula :
        /\ \A f \in Formula : f # e => SameShown(f)
        /\ Hides(p, e) \/ Shows(p, e) \/ Reopens(p, e)

LEMMA OldKegsStay ==
    ASSUME Next
    PROVE  UNCHANGED oldKeg
BY DEF Next, Start, Async, Planning, AcquireLock, ResolvePlanOnly, ResolveInstall, ResolveUpgrade,
   ResolveFails, Upgrading, UpgradeDone, UnlinkOld, UnlinkOldFails, PlanUpgrade, PlanUpgradeFails,
   Restore, Acquiring, PullEntry, AbortEntry, AbortDone, AcquireDone, Fetched, Acquired, AcquireFails,
   Finalizing, Build, BuildFails, OptLink, OptLinkFails, EtcVar, EtcVarFails, Hook, HookFails,
   Link, Receipt, FinalizeFails, RollbackFails, Commit, CommitFails, CleanupFailedInstall,
   Ending, Unlock, Exit, Thread, CopyTree, SwapKeg, SwitchOpt, RelocateKeg, Unpack, ThreadFails,
   Crash, prefix

\* The entry at hand is unfinished until its commit.
LEMMA EntryUnfinished ==
    ASSUME Safe, NEW p \in Proc, pc[p] \in FinalizeSteps \ {"commit"}
    PROVE  \E i \in DOMAIN plan[p] : Unfinished(p, i) /\ Entry(p) = plan[p][i]
BY EntriesAreFormulae DEF Unfinished, Entry

LEMMA ThreadShows ==
    ASSUME Safe, NEW p \in Proc, NEW f \in Formula, Thread(p, f)
    PROVE  OneShown(p)
<1>1. /\ pc[p] = "acquire" /\ f \in Entries(p)
      /\ \A g \in Formula : g # f => SameShown(g)
  BY ThreadOnEntry DEF Same
<1>2. \E i \in DOMAIN plan[p] : Unfinished(p, i) /\ f = plan[p][i]
  BY <1>1 DEF Unfinished, Entries, Range
<1>3. opt'[f] \in {opt[f], "new"} /\ receipt'[f] \in {receipt[f], "none"}
  BY DEF Thread, CopyTree, SwapKeg, SwitchOpt, RelocateKeg, Unpack, ThreadFails, RefreshOptLink,
     prefix, Safe, Typed, TypeOK, PrefixTypeOK
<1> QED
  BY <1>1, <1>2, <1>3 DEF OneShown, Hides

LEMMA FinalizeShows ==
    ASSUME Safe, NEW p \in Proc, Finalizing(p)
    PROVE  OneShown(p)
<1>0. PrefixTypeOK
  BY DEF Safe, Typed, TypeOK
<1>1. PICK e \in Formula : e = Entry(p)
  BY FinalizeOnEntry
<1>2. pc[p] \in FinalizeSteps /\ \A g \in Formula : g # e => SameShown(g)
  BY <1>1, FinalizeOnEntry DEF Same
<1>3. CASE UNCHANGED prefix
  BY <1>3 DEF OneShown, prefix
<1>4. CASE Receipt(p)
  <2>1. receipt'[e] = "valid" /\ opt'[e] = opt[e]
    BY <1>0, <1>1, <1>4 DEF Receipt, WriteReceipt, PrefixTypeOK
  <2> QED
    BY <1>1, <1>2, <1>4, <2>1 DEF OneShown, Shows
<1>5. ASSUME pc[p] # "commit", opt'[e] \in {opt[e], "new", "none"}, receipt'[e] \in {receipt[e], "none", "torn"}
      PROVE  OneShown(p)
  BY <1>1, <1>2, <1>5, EntryUnfinished DEF OneShown, Hides
<1>6. CASE Build(p) \/ Hook(p) \/ Link(p)
  BY <1>6 DEF OneShown, Build, Hook, Link
<1>7. CASE OptLink(p)
  BY <1>0, <1>1, <1>5, <1>7 DEF OptLink, At, RefreshOptLink, PrefixTypeOK
<1>8. CASE CleanupFailedInstall(e) /\ pc[p] # "commit"
  BY <1>0, <1>5, <1>8 DEF CleanupFailedInstall, PrefixTypeOK
<1>9. CASE RollbackFails(p)
  BY <1>0, <1>1, <1>5, <1>9 DEF RollbackFails, PrefixTypeOK
<1> QED
  BY <1>1, <1>3, <1>4, <1>6, <1>7, <1>8, <1>9 DEF Finalizing, BuildFails, OptLinkFails, EtcVar, EtcVarFails,
     HookFails, FinalizeFails, Commit, CommitFails, At

LEMMA CrashShows ==
    ASSUME Kept, NEW p \in Proc, Crash(p)
    PROVE  OneShown(p)
<1>0. Safe /\ PrefixTypeOK /\ CutShort(p)
  BY DEF Kept, Safe, Typed, TypeOK, Crash
<1>1. CASE UNCHANGED <<receipt, opt>>
  BY <1>1 DEF OneShown
<1>2. ASSUME pc[p] \in FinalizeSteps \ {"commit"},
             \A f \in Formula : f # Entry(p) => SameShown(f),
             opt'[Entry(p)] \in {opt[Entry(p)], "new", "none"},
             receipt'[Entry(p)] \in {receipt[Entry(p)], "none", "torn"}
      PROVE  OneShown(p)
  BY <1>0, <1>2, EntryUnfinished, EntriesAreFormulae DEF OneShown, Hides
<1>3. CASE Cleaning(p) /\ CleanupPartly(Entry(p))
  <2>1. pc[p] \in FinalizeSteps \ {"commit"}
    BY <1>3 DEF Cleaning, CanFail, At, FinalizeSteps, Kept, Spared
  <2>2. Entry(p) \in Formula
    BY <1>0, <2>1, EntriesAreFormulae
  <2> QED
    BY <1>0, <1>2, <1>3, <2>1, <2>2 DEF CleanupPartly, RemoveKegPartly, SameShown, PrefixTypeOK
<1>4. CASE At(p, "receipt") /\ receipt' = [receipt EXCEPT ![Entry(p)] = "torn"] /\ UNCHANGED opt
  <2>1. pc[p] \in FinalizeSteps \ {"commit"} /\ Entry(p) \in Formula
    BY <1>0, <1>4, EntriesAreFormulae DEF At, FinalizeSteps
  <2> QED
    BY <1>0, <1>2, <1>4, <2>1 DEF SameShown, PrefixTypeOK
<1>5. CASE (\E f \in Formula : task[p][f] = "swapping" /\ RemoveKegPartly(f)) /\ UNCHANGED opt
  <2>1. PICK f \in Formula : task[p][f] = "swapping" /\ RemoveKegPartly(f)
    BY <1>5
  <2>2. pc[p] = "acquire" /\ f \in Entries(p)
    BY <1>0, <2>1 DEF Safe, Awaited
  <2>3. \E i \in DOMAIN plan[p] : Unfinished(p, i) /\ f = plan[p][i]
    BY <2>2 DEF Unfinished, Entries, Range
  <2>4. (\A g \in Formula : g # f => SameShown(g)) /\ receipt'[f] \in {receipt[f], "none"} /\ opt'[f] = opt[f]
    BY <1>0, <1>5, <2>1 DEF RemoveKegPartly, SameShown, PrefixTypeOK
  <2> QED
    BY <2>3, <2>4 DEF OneShown, Hides
<1> QED
  BY <1>0, <1>1, <1>3, <1>4, <1>5 DEF CutShort

LEMMA ShownStep ==
    ASSUME NoAcquireFaults, Kept, NEW p \in Proc, Inside(p) \/ Ends(p)
    PROVE  OneShown(p)
<1>0. Safe /\ PrefixTypeOK
  BY DEF Kept, Safe, Typed, TypeOK
<1>1. CASE UNCHANGED <<receipt, opt>>
  BY <1>1 DEF OneShown
<1>2. CASE Upgrading(p)
  <2>1. CASE Restore(p)
    <3>1. pc[p] = "restore" /\ op[p] = "upgrade"
      BY <2>1 DEF Restore, Kept, Spared
    <3>2. PICK e \in Formula : e = Candidate(p)
      BY <1>0, <3>1, HeadOfTodo DEF Safe, Typed, HasCandidate
    <3>3. UNCHANGED receipt /\ (UNCHANGED opt \/ opt' = [opt EXCEPT ![e] = "old"])
      BY <2>1, <3>2 DEF Restore, RefreshOptLink
    <3> QED
      BY <1>0, <1>1, <2>1, <3>2, <3>3 DEF OneShown, Reopens, SameShown, PrefixTypeOK
  <2> QED
    BY <1>1, <1>2, <2>1 DEF Upgrading, UpgradeDone, UnlinkOld, UnlinkOldFails, PlanUpgrade,
       PlanUpgradeFails, prefix
<1>3. CASE Resolving(p) \/ Acquiring(p)
  BY <1>1, <1>3, AcquireLeavesPrefix DEF Resolving, ResolvePlanOnly, ResolveInstall, ResolveUpgrade,
     ResolveFails, prefix
<1>4. CASE Ends(p)
  BY <1>1, <1>4, CrashShows DEF Ends, Start, AcquireLock, Unlock, Exit, prefix
<1> QED
  BY <1>0, <1>2, <1>3, <1>4, ThreadShows, FinalizeShows DEF Inside

----------------------------------------------------------------------------
(***************************************************************************)
(* What is not finished has no receipt.                                    *)
(***************************************************************************)
LEMMA StepOfOne ==
    ASSUME NEW p \in Proc, Inside(p) \/ Ends(p)
    PROVE  Next
BY DEF Next, Async, Planning, Resolving, Ending, Inside, Ends

LEMMA BareKept ==
    ASSUME NEW f, oldKeg'[f] = oldKeg[f], receipt'[f] \in {receipt[f], "none", "torn"}, Bare(f)
    PROVE  Bare(f)'
BY DEF Bare

\* Only the receipt of the entry at hand ends it.
LEMMA BareAfter ==
    ASSUME NoAcquireFaults, Kept, NEW p \in Proc, Inside(p) \/ Ends(p), NEW f \in Formula,
           Bare(f), Receipt(p) => f # Entry(p)
    PROVE  Bare(f)'
<1>1. oldKeg' = oldKeg
  BY OldKegsStay, StepOfOne
<1>2. receipt'[f] \in {receipt[f], "none", "torn"}
  BY ShownStep DEF OneShown, Hides, Shows, Reopens, SameShown
<1> QED
  BY <1>1, <1>2, BareKept

LEMMA BareUndisturbed ==
    ASSUME NEW q \in Proc, BareBy(q), Undisturbed(q)
    PROVE  BareBy(q)'
<1>1. CASE pc[q] \in Outside
  BY <1>1 DEF Undisturbed, BareBy, Unfinished, Working, Outside, FinalizeSteps
<1>2. CASE UNCHANGED <<oldKeg, receipt>>
  <2>1. \A f : Bare(f)' <=> Bare(f)
    BY <1>2 DEF Bare
  <2> QED
    BY <1>2, <2>1 DEF Undisturbed, BareBy, Unfinished, Working, Candidate
<1> QED
  BY <1>1, <1>2 DEF Undisturbed

LEMMA BareOutside ==
    ASSUME NEW p \in Proc, pc'[p] \notin FinalizeSteps \union {"acquire", "restore"}
    PROVE  BareBy(p)'
BY DEF BareBy, Unfinished, Working

LEMMA BareInPlanning ==
    ASSUME NoAcquireFaults, Kept, Hidden, NEW p \in Proc, Resolving(p) \/ Upgrading(p)
    PROVE  BareBy(p)'
<1>0. Safe /\ Typed
  BY DEF Kept, Safe
<1>1. CASE ResolveInstall(p)
  <2>1. PICK s \in Orders(Pending(wanted[p], {})) : BeginPlan(p, s)
    BY <1>1 DEF ResolveInstall
  <2>2. Pending(wanted[p], {}) \in SUBSET Formula /\ s \in SetToSeqs(Pending(wanted[p], {}))
    BY DEF Orders, Pending, Closure
  <2>3. pc'[p] = "acquire" /\ op'[p] = "install" /\ UNCHANGED prefix /\ plan'[p] = s
    BY <1>0, <1>1, <2>1 DEF ResolveInstall, Goto, BeginPlan, Typed, TypeOK
  <2>4. \A f \in Formula : ~Installed(f) => Bare(f)
    BY ShownIsVisible DEF Hidden, Bare, Installed, ShownNew
  <2>5. \A i \in DOMAIN s : s[i] \in Formula /\ ~Installed(s[i])
    BY <2>2, OrdersAreInjective DEF Pending
  <2>6. \A i \in DOMAIN s : Bare(s[i])'
    BY <2>3, <2>4, <2>5 DEF Bare, prefix
  <2> QED
    BY <2>3, <2>6 DEF BareBy
<1>2. CASE PlanUpgrade(p)
  <2>1. PICK c \in Formula : c = Candidate(p)
    BY <1>2, UpgradePlan
  <2>2. /\ pc'[p] = "acquire" /\ UNCHANGED <<prefix, op, todo>>
        /\ Len(plan'[p]) \in DOMAIN plan'[p] /\ c = plan'[p][Len(plan'[p])] /\ oldKeg[c]
        /\ \A i \in DOMAIN plan'[p] : plan'[p][i] \in Formula
        /\ \A i \in DOMAIN plan'[p] : plan'[p][i] = c \/ ~Installed(plan'[p][i])
    BY <1>2, <2>1, UpgradePlan
  <2>3. \A f \in Formula : f = c \/ ~Installed(f) => Bare(f)
    <3>1. Bare(c)
      BY <1>2, <2>1, UpgradePlan DEF Hidden
    <3> QED
      BY <3>1, ShownIsVisible DEF Hidden, Bare, Installed, ShownNew
  <2>4. \A i \in DOMAIN plan'[p] : Bare(plan[p][i])'
    BY <2>2, <2>3 DEF Bare, prefix
  <2>5. Candidate(p)' = c
    BY <2>1, <2>2 DEF Candidate
  <2> QED
    BY <2>2, <2>4, <2>5 DEF BareBy, prefix
<1>3. CASE PlanUpgradeFails(p)
  <2>1. PICK c \in Formula : c = Candidate(p)
    BY <1>0, <1>3, HeadOfTodo DEF PlanUpgradeFails, Typed, HasCandidate
  <2>2. pc'[p] \in {"restore", "unlock"} /\ plan'[p] = <<>> /\ UNCHANGED <<prefix, op, todo>>
    BY <1>0, <1>3 DEF PlanUpgradeFails, PlanFails, Goto, BeginPlan, Typed, TypeOK
  <2>3. oldKeg[c] /\ opt[c] = "old"
    <3>1. todo[p] \in Seq(Formula) /\ todo[p] # <<>> /\ pc[p] = "replan"
      BY <1>0, <1>3 DEF PlanUpgradeFails, Typed, TypeOK, HasCandidate
    <3>2. 1 \in DOMAIN todo[p] /\ c = todo[p][1]
      BY <2>1, <3>1 DEF Candidate
    <3> QED
      BY <1>0, <3>1, <3>2 DEF Safe, Ready, QueueBy
  <2>4. Bare(c)' /\ oldKeg'[c] /\ Candidate(p)' = c
    BY <2>1, <2>2, <2>3 DEF Hidden, Bare, Candidate, prefix
  <2> QED
    BY <2>2, <2>4 DEF BareBy, Unfinished, Working, FinalizeSteps
<1>4. CASE pc'[p] \in {"unlock", "next", "replan"}
  BY <1>4, BareOutside DEF FinalizeSteps
<1> QED
  BY <1>0, <1>1, <1>2, <1>3, <1>4 DEF Resolving, ResolvePlanOnly, ResolveUpgrade, ResolveFails,
     Upgrading, UpgradeDone, UnlinkOld, UnlinkOldFails, Restore, Return, Goto, Typed, TypeOK

\* The loop goes on to entry i.
LEMMA BareInLoop ==
    ASSUME Safe, NEW p \in Proc, BareBy(p), Working(p), NEW i \in Nat \ {0}, Proceed(p, i),
           UNCHANGED <<prefix, op, plan>>,
           \A j \in DOMAIN plan[p] : j >= i => Bare(plan[p][j])
    PROVE  BareBy(p)'
<1>0. Typed /\ DOMAIN plan[p] = 1 .. Len(plan[p]) /\ Len(plan[p]) \in Nat
  BY EntriesAreFormulae DEF Safe
<1>1. CASE i <= Len(plan[p])
  <2>1. at'[p] = i /\ pc'[p] \in {"build", "etcvar"} /\ UNCHANGED todo
    BY <1>0, <1>1 DEF Proceed, Goto, Typed, TypeOK
  <2>2. \A j \in DOMAIN plan[p] : Unfinished(p, j)' => j >= i
    BY <1>0, <2>1 DEF Unfinished
  <2>3. \A j \in DOMAIN plan[p] : j >= i => Bare(plan[p][j])'
    BY DEF Bare, prefix
  <2> QED
    BY <2>1, <2>2, <2>3 DEF BareBy, Working, Candidate, FinalizeSteps, prefix
<1>2. CASE ~(i <= Len(plan[p]))
  <2>1. pc'[p] \in {"next", "unlock"}
    BY <1>0, <1>2 DEF Proceed, Goto, Return, Typed, TypeOK
  <2> QED
    BY <2>1, BareOutside DEF FinalizeSteps
<1> QED
  BY <1>1, <1>2

\* A failure of the plan goes to restore with a candidate that is bare.
LEMMA BareInFailure ==
    ASSUME NoAcquireFaults, Kept, NEW p \in Proc, BareBy(p), Finalizing(p), PlanFails(p),
           UNCHANGED <<op, plan, todo>>, ~Receipt(p), pc[p] = "commit" => "commit" \in Faults
    PROVE  BareBy(p)'
<1>0. Safe /\ Typed
  BY DEF Kept, Safe
<1>1. pc'[p] = IF op[p] = "upgrade" THEN "restore" ELSE "unlock"
  BY <1>0 DEF PlanFails, Goto, Typed, TypeOK
<1>2. CASE op[p] # "upgrade"
  BY <1>1, <1>2, BareOutside DEF FinalizeSteps
<1>3. CASE op[p] = "upgrade"
  <2>1. pc[p] \in FinalizeSteps /\ Working(p)
    BY <1>0, FinalizeOnEntry DEF Working
  <2>2. /\ Len(plan[p]) \in DOMAIN plan[p] /\ Candidate(p) = plan[p][Len(plan[p])]
        /\ oldKeg[Candidate(p)]
    BY <1>3, <2>1 DEF BareBy
  <2>3. PICK c \in Formula : c = Candidate(p) /\ c = plan[p][Len(plan[p])]
    BY <1>0, <2>2, EntriesAreFormulae
  <2>4. Bare(c)
    <3>1. CASE pc[p] = "commit"
      BY <2>2, <2>3, <3>1 DEF Bare
    <3>2. CASE pc[p] # "commit"
      <4>1. at[p] \in DOMAIN plan[p] /\ DOMAIN plan[p] = 1 .. Len(plan[p])
        BY <1>0, <2>1, EntriesAreFormulae
      <4>2. Unfinished(p, Len(plan[p]))
        BY <1>0, <2>1, <3>2, <4>1, EntriesAreFormulae DEF Unfinished
      <4> QED
        BY <2>2, <2>3, <4>2 DEF BareBy
    <3> QED
      BY <3>1, <3>2
  <2>5. Bare(c)' /\ oldKeg' = oldKeg /\ Candidate(p)' = c
    BY <2>3, <2>4, BareAfter, OldKegsStay, StepOfOne DEF Inside, Candidate
  <2> QED
    BY <1>1, <1>3, <2>2, <2>3, <2>5 DEF BareBy, Unfinished, Working, FinalizeSteps
<1> QED
  BY <1>2, <1>3

LEMMA BareInFinalize ==
    ASSUME NoAcquireFaults, Kept, NEW p \in Proc, BareBy(p), Finalizing(p)
    PROVE  BareBy(p)'
<1>0. Safe /\ Typed /\ Ready(p)
  BY DEF Kept, Safe
<1>1. PICK e \in Formula : e = Entry(p)
  BY <1>0, FinalizeOnEntry
<1>2. pc[p] \in FinalizeSteps /\ Working(p) /\ at[p] \in DOMAIN plan[p] /\ e = plan[p][at[p]]
  BY <1>0, <1>1, FinalizeOnEntry, EntriesAreFormulae DEF Entry, Working
<1>3. \A j \in DOMAIN plan[p] : plan[p][j] \in Formula /\ j \in Nat /\ (j # at[p] => plan[p][j] # e)
  BY <1>0, <1>2, EntriesAreFormulae DEF Ready, FreshBy, IsInjective
<1>4. CASE Build(p) \/ OptLink(p) \/ EtcVar(p) \/ Hook(p) \/ Link(p) \/ Receipt(p)
  <2>1. /\ UNCHANGED <<op, plan, todo, at, oldKeg>> /\ pc'[p] \in FinalizeSteps \ {"build"}
        /\ pc[p] # "commit"
    BY <1>0, <1>4, EntryOnly DEF Build, OptLink, EtcVar, Hook, Link, Receipt, At
  <2>2. Receipt(p) => pc'[p] = "commit"
    BY <1>0 DEF Receipt, StepTo, Goto, Typed, TypeOK
  <2>3. \A j \in DOMAIN plan[p] : Unfinished(p, j)' => Unfinished(p, j) /\ (Receipt(p) => j # at[p])
    BY <1>2, <1>3, <2>1, <2>2 DEF Unfinished, FinalizeSteps
  <2>4. \A j \in DOMAIN plan[p] : Unfinished(p, j)' => Bare(plan[p][j])'
    <3> SUFFICES ASSUME NEW j \in DOMAIN plan[p], Unfinished(p, j)' PROVE Bare(plan[p][j])'
      OBVIOUS
    <3>1. PICK f \in Formula : f = plan[p][j]
      BY <1>3
    <3>2. Bare(f) /\ (Receipt(p) => f # Entry(p))
      BY <1>1, <1>3, <2>3, <3>1 DEF BareBy
    <3>3. Bare(f)'
      BY <3>2, BareAfter DEF Inside
    <3> QED
      BY <2>1, <3>1, <3>3 DEF Bare
  <2> QED
    BY <1>2, <2>1, <2>4 DEF BareBy, Working, Candidate, FinalizeSteps
<1>5. CASE Commit(p)
  <2>1. \A j \in DOMAIN plan[p] : j >= at[p] + 1 => Bare(plan[p][j])
    BY <1>2, <1>3 DEF BareBy, Unfinished
  <2>2. Proceed(p, at[p] + 1) /\ UNCHANGED <<prefix, op, plan>> /\ at[p] + 1 \in Nat \ {0}
    BY <1>2, <1>3, <1>5 DEF Commit
  <2> QED
    BY <1>0, <1>2, <2>1, <2>2, BareInLoop
<1>6. CASE BuildFails(p) \/ OptLinkFails(p) \/ EtcVarFails(p) \/ HookFails(p)
           \/ FinalizeFails(p) \/ RollbackFails(p) \/ CommitFails(p)
  <2>1. PlanFails(p) /\ UNCHANGED <<op, plan, todo>>
    BY <1>6 DEF BuildFails, OptLinkFails, EtcVarFails, HookFails, FinalizeFails, RollbackFails,
       CommitFails, StepFails, Stay, job
  <2>2. pc'[p] \in {"restore", "unlock"}
    BY <1>0, <2>1 DEF PlanFails, Goto, Typed, TypeOK
  <2>3. ~Receipt(p)
    BY <1>0, <2>2 DEF Receipt, StepTo, Goto, Typed, TypeOK
  <2>4. pc[p] = "commit" => "commit" \in Faults
    BY <1>6 DEF BuildFails, OptLinkFails, EtcVarFails, HookFails, FinalizeFails, RollbackFails,
       CommitFails, At
  <2> QED
    BY <2>1, <2>3, <2>4, BareInFailure
<1> QED
  BY <1>4, <1>5, <1>6 DEF Finalizing

LEMMA BareInAcquire ==
    ASSUME NoAcquireFaults, Kept, NEW p \in Proc, BareBy(p),
           Acquiring(p) \/ \E f \in Formula : Thread(p, f)
    PROVE  BareBy(p)'
<1>0. Safe /\ Typed
  BY DEF Kept, Safe
<1>1. pc[p] = "acquire" /\ Working(p) /\ UNCHANGED <<op, plan, oldKeg>>
  BY <1>0, AcquireLeavesPrefix, ThreadOnEntry DEF Working, prefix
<1>2. \A j \in DOMAIN plan[p] : plan[p][j] \in Formula /\ Bare(plan[p][j])
  BY <1>0, <1>1, EntriesAreFormulae DEF BareBy, Unfinished
<1>3. CASE AcquireDone(p)
  <2>1. Proceed(p, 1) /\ UNCHANGED <<prefix, op, plan>>
    BY <1>3 DEF AcquireDone
  <2> QED
    BY <1>0, <1>1, <1>2, <2>1, BareInLoop
<1>4. CASE UNCHANGED <<pc, todo, at>>
  <2>1. ~Receipt(p)
    BY <1>1 DEF Receipt, At
  <2>2. \A j \in DOMAIN plan[p] : Bare(plan[p][j])'
    <3> SUFFICES ASSUME NEW j \in DOMAIN plan[p] PROVE Bare(plan[p][j])'
      OBVIOUS
    <3>1. PICK f \in Formula : f = plan[p][j] /\ Bare(f)
      BY <1>2
    <3>2. Bare(f)'
      BY <2>1, <3>1, BareAfter DEF Inside
    <3> QED
      BY <1>1, <3>1, <3>2 DEF Bare
  <2> QED
    BY <1>1, <1>4, <2>2 DEF BareBy, Working, Candidate, FinalizeSteps
<1> QED
  BY <1>0, <1>3, <1>4, AcquireLeavesPrefix, ThreadOnEntry

LEMMA HiddenStep ==
    ASSUME NoAcquireFaults, Kept, Opened, Bared, NEW p \in Proc, Inside(p) \/ Ends(p)
    PROVE  Hidden'
<1>1. UNCHANGED oldKeg
  BY OldKegsStay, StepOfOne
<1> SUFFICES ASSUME NEW f \in Formula PROVE (Bare(f) \/ opt[f] = "new")'
  BY DEF Hidden
<1>2. Bare(f) \/ opt[f] = "new"
  BY DEF Bared, Hidden
<1>3. CASE SameShown(f)
  BY <1>1, <1>2, <1>3 DEF SameShown, Bare
<1>4. CASE Hides(p, f)
  <2>1. Bare(f)
    BY <1>4 DEF Hides, Bared, BareBy
  <2> QED
    BY <1>1, <1>4, <2>1, BareKept DEF Hides
<1>5. CASE Shows(p, f)
  BY <1>5 DEF Shows, Receipt, At, Opened, OpenedBy, FinalizeSteps
<1>6. CASE Reopens(p, f)
  <2>1. Bare(f)
    BY <1>6 DEF Reopens, Restore, Bared, BareBy
  <2> QED
    BY <1>1, <1>6, <2>1, BareKept DEF Reopens
<1> QED
  BY <1>3, <1>4, <1>5, <1>6, ShownStep DEF OneShown, SameShown

LEMMA BaredStep ==
    ASSUME NoAcquireFaults, Kept, Opened, Bared, [Next]_vars
    PROVE  Bared'
<1>0. Safe
  BY DEF Kept
<1>1. CASE UNCHANGED vars
  <2>1. \A q \in Proc : Undisturbed(q)
    BY <1>1 DEF vars, job, prefix, Undisturbed
  <2> QED
    BY <1>1, <2>1, BareUndisturbed DEF Bared, Hidden, Bare, vars, prefix
<1>2. CASE Next
  <2>1. PICK p \in Proc : Inside(p) \/ Ends(p)
    BY <1>2, NextIsOfOne
  <2>2. BareBy(p)'
    <3>1. CASE Ends(p)
      BY <1>0, <3>1, AfterEnds, BareOutside DEF Outside, FinalizeSteps
    <3>2. CASE Inside(p)
      BY <3>2, BareInPlanning, BareInAcquire, BareInFinalize DEF Inside, Bared
    <3> QED
      BY <2>1, <3>1, <3>2
  <2>3. \A q \in Proc : q # p => BareBy(q)'
    BY <1>0, <2>1, OthersUndisturbed, BareUndisturbed DEF Bared
  <2> QED
    BY <2>1, <2>2, <2>3, HiddenStep DEF Bared
<1> QED
  BY <1>1, <1>2

LEMMA InitBared == Init => Bared
BY DEF Init, Bared, Hidden, Bare, BareBy, Unfinished, Working, FinalizeSteps

----------------------------------------------------------------------------
(***************************************************************************)
(* Dependencies.                                                           *)
(***************************************************************************)

\* What a new entry depends on is installed and left alone by the plan, or comes
\* before it.
SuppliedBy(p) ==
    Working(p) => \A i \in DOMAIN plan[p] : ~oldKeg[plan[p][i]] =>
        \A d \in Deps[plan[p][i]] :
            \/ d \notin Entries(p) /\ Installed(d)
            \/ \E k \in DOMAIN plan[p] : k < i /\ plan[p][k] = d

Supplied == \A p \in Proc : SuppliedBy(p)

LEMMA OrderSupplies ==
    ASSUME NEW names \in SUBSET Formula, NEW keep \in SUBSET Formula,
           NEW s \in Orders(Pending(names, keep)), NEW i \in DOMAIN s, NEW d \in Deps[s[i]]
    PROVE  \/ d \notin Range(s) /\ Installed(d)
           \/ \E k \in DOMAIN s : k < i /\ s[k] = d
<1> DEFINE S == Pending(names, keep)
<1>1. S \in SUBSET Formula /\ S \subseteq Closure(names) /\ s \in SetToSeqs(S)
  BY DEF Orders, Pending, Closure
<1>2. Range(s) = S /\ s[i] \in S
  BY <1>1, OrdersCover, OrdersAreInjective
<1>3. s[i] \in Closure(names)
  BY <1>1, <1>2
<1>4. d \in Closure(names) /\ d \in Needs(s[i])
  BY <1>3, ClosureIsClosed
<1>5. CASE d \in S
  <2>1. PICK k \in DOMAIN s : s[k] = d
    BY <1>2, <1>5 DEF Range
  <2>2. k < i
    BY <1>4, <2>1 DEF Orders
  <2> QED
    BY <2>1, <2>2
<1>6. CASE d \notin S
  BY <1>2, <1>4, <1>6 DEF Pending
<1> QED
  BY <1>5, <1>6

LEMMA SuppliedUndisturbed ==
    ASSUME NEW q \in Proc, SuppliedBy(q), Undisturbed(q)
    PROVE  SuppliedBy(q)'
<1>1. CASE pc[q] \in Outside
  BY <1>1 DEF Undisturbed, SuppliedBy, Working, Outside, FinalizeSteps
<1>2. CASE UNCHANGED <<oldKeg, receipt, opt>>
  BY <1>2, NothingShownChanges DEF Undisturbed, SuppliedBy, Working, Entries
<1> QED
  BY <1>1, <1>2 DEF Undisturbed

LEMMA SuppliedInPlanning ==
    ASSUME Kept, NEW p \in Proc, Resolving(p) \/ Upgrading(p)
    PROVE  SuppliedBy(p)'
<1>0. Safe /\ Typed
  BY DEF Kept, Safe
<1>1. CASE ResolveInstall(p)
  <2>1. PICK s \in Orders(Pending(wanted[p], {})) : BeginPlan(p, s)
    BY <1>1 DEF ResolveInstall
  <2>2. UNCHANGED prefix /\ plan'[p] = s /\ wanted[p] \in SUBSET Formula
    BY <1>0, <1>1, <2>1 DEF ResolveInstall, BeginPlan, Typed, TypeOK
  <2>3. \A f : Installed(f)' <=> Installed(f)
    BY <2>2, NothingShownChanges DEF prefix
  <2>4. \A i \in DOMAIN s : \A d \in Deps[s[i]] :
            \/ d \notin Range(s) /\ Installed(d)
            \/ \E k \in DOMAIN s : k < i /\ s[k] = d
    <3>1. PICK keep \in SUBSET Formula : keep = {}
      OBVIOUS
    <3>2. s \in Orders(Pending(wanted[p], keep))
      BY <2>1, <3>1
    <3> QED
      BY <2>2, <3>2, OrderSupplies
  <2> QED
    BY <2>2, <2>3, <2>4 DEF SuppliedBy, Entries
<1>2. CASE PlanUpgrade(p)
  <2>1. PICK c \in Formula : c = Candidate(p)
    BY <1>2, UpgradePlan
  <2>2. oldKeg[c] /\ UNCHANGED prefix
    BY <1>2, <2>1, UpgradePlan
  <2>3. \A f : Installed(f)' <=> Installed(f)
    BY <2>2, NothingShownChanges DEF prefix
  <2>4. CASE c \in SourceBuilt
    <3>1. PICK s \in Orders(Pending({c}, {c})) : BeginPlan(p, s)
      BY <1>2, <2>1, <2>4 DEF PlanUpgrade
    <3>2. plan'[p] = s
      BY <1>0, <3>1 DEF BeginPlan, Typed, TypeOK
    <3>3. \A i \in DOMAIN s : \A d \in Deps[s[i]] :
              \/ d \notin Range(s) /\ Installed(d)
              \/ \E k \in DOMAIN s : k < i /\ s[k] = d
      BY <3>1, OrderSupplies, {c} \in SUBSET Formula
    <3> QED
      BY <2>3, <3>2, <3>3 DEF SuppliedBy, Entries
  <2>5. CASE c \notin SourceBuilt
    <3>1. plan'[p] = <<c>>
      BY <1>0, <1>2, <2>1, <2>5 DEF PlanUpgrade, BeginPlan, Typed, TypeOK
    <3> QED
      BY <2>2, <3>1 DEF SuppliedBy, prefix
  <2> QED
    BY <2>4, <2>5
<1>3. CASE pc'[p] \in {"unlock", "next", "replan", "restore"}
  BY <1>3 DEF SuppliedBy, Working, FinalizeSteps
<1> QED
  BY <1>0, <1>1, <1>2, <1>3 DEF Resolving, ResolvePlanOnly, ResolveUpgrade, ResolveFails,
     Upgrading, UpgradeDone, UnlinkOld, UnlinkOldFails, PlanUpgradeFails, Restore, PlanFails, Return, Goto,
     Typed, TypeOK

LEMMA SuppliedInWork ==
    ASSUME NoAcquireFaults, Kept, NEW p \in Proc, SuppliedBy(p),
           Acquiring(p) \/ Finalizing(p) \/ \E f \in Formula : Thread(p, f)
    PROVE  SuppliedBy(p)'
<1>0. Safe
  BY DEF Kept
<1>1. /\ Working(p) /\ UNCHANGED <<plan, oldKeg>>
      /\ \A f \in Formula \ Entries(p) : Same(f)
  BY WorksOnEntries
<1>2. \A f \in Formula : f \notin Entries(p) => (Installed(f)' <=> Installed(f))
  BY <1>1, VisibleKept DEF Same, SameShown
<1>3. \A i \in DOMAIN plan[p] : Deps[plan[p][i]] \subseteq Formula
  BY <1>0, EntriesAreFormulae, PipelineAssumption
<1> QED
  BY <1>1, <1>2, <1>3 DEF SuppliedBy, Entries

LEMMA SuppliedStep ==
    ASSUME NoAcquireFaults, Kept, Supplied, [Next]_vars
    PROVE  Supplied'
<1>0. Safe
  BY DEF Kept
<1>1. CASE UNCHANGED vars
  <2>1. \A q \in Proc : Undisturbed(q)
    BY <1>1 DEF vars, job, prefix, Undisturbed
  <2> QED
    BY <2>1, SuppliedUndisturbed DEF Supplied
<1>2. CASE Next
  <2>1. PICK p \in Proc : Inside(p) \/ Ends(p)
    BY <1>2, NextIsOfOne
  <2>2. SuppliedBy(p)'
    <3>1. CASE Ends(p)
      BY <1>0, <3>1, AfterEnds DEF Outside, FinalizeSteps, SuppliedBy, Working
    <3>2. CASE Inside(p)
      BY <3>2, SuppliedInPlanning, SuppliedInWork DEF Inside, Supplied
    <3> QED
      BY <2>1, <3>1, <3>2
  <2>3. \A q \in Proc : q # p => SuppliedBy(q)'
    BY <1>0, <2>1, OthersUndisturbed, SuppliedUndisturbed DEF Supplied
  <2> QED
    BY <2>2, <2>3 DEF Supplied
<1> QED
  BY <1>1, <1>2

\* The receipt of a formula that was not installed before: its dependencies are.
LEMMA ReceiptSupplied ==
    ASSUME Kept, Opened, Supplied, NEW p \in Proc, Receipt(p), ~oldKeg[Entry(p)],
           NEW d \in Deps[Entry(p)]
    PROVE  d \in Formula /\ Installed(d) /\ d # Entry(p)
<1>0. Safe /\ Ready(p) /\ pc[p] = "receipt"
  BY DEF Kept, Safe, Receipt, At
<1>1. pc[p] \in FinalizeSteps /\ Working(p)
  BY <1>0 DEF FinalizeSteps, Working
<1>2. /\ at[p] \in DOMAIN plan[p] /\ DOMAIN plan[p] = 1 .. Len(plan[p]) /\ Len(plan[p]) \in Nat
      /\ Entry(p) \in Formula
  BY <1>0, <1>1, EntriesAreFormulae
<1>3. d \in Formula /\ Entry(p) \in Entries(p)
  BY <1>2, PipelineAssumption DEF Entries, Entry, Range
<1>4. \/ d \notin Entries(p) /\ Installed(d)
      \/ \E k \in DOMAIN plan[p] : k < at[p] /\ plan[p][k] = d
  BY <1>1, <1>2 DEF Supplied, SuppliedBy, Entry
<1>5. ASSUME NEW k \in DOMAIN plan[p], k < at[p], plan[p][k] = d
      PROVE  Installed(d) /\ d # Entry(p)
  <2>1. Complete(d)
    BY <1>1, <1>5 DEF Opened, OpenedBy
  <2>2. k # at[p]
    BY <1>2, <1>5
  <2>3. d # Entry(p)
    BY <1>0, <1>1, <1>2, <1>5, <2>2 DEF Ready, FreshBy, IsInjective, Entry
  <2> QED
    BY <2>1, <2>3, CompleteIsWhole
<1> QED
  BY <1>3, <1>4, <1>5

----------------------------------------------------------------------------
(***************************************************************************)
(* The life cycle of a formula.                                            *)
(***************************************************************************)

\* The four stages, each by what makes it.
Staged ==
    \A f \in Formula :
        /\ opt[f] = "old" /\ oldKeg[f] => Stage(f) = "old"
        /\ ShownNew(f) => Stage(f) = "new"
        /\ ~Installed(f) /\ oldKeg[f] => Stage(f) = "replacing"
        /\ ~Installed(f) /\ ~oldKeg[f] => Stage(f) = "absent"
        /\ Installed(f) <=> Stage(f) \in {"old", "new"}
        /\ Installed(f) <=> (opt[f] = "old" /\ oldKeg[f]) \/ ShownNew(f)

LEMMA StageIs == Staged /\ Staged'
<1>1. Staged
  <2> SUFFICES ASSUME NEW f \in Formula
               PROVE  /\ opt[f] = "old" /\ oldKeg[f] => Stage(f) = "old"
                      /\ ShownNew(f) => Stage(f) = "new"
                      /\ ~Installed(f) /\ oldKeg[f] => Stage(f) = "replacing"
                      /\ ~Installed(f) /\ ~oldKeg[f] => Stage(f) = "absent"
                      /\ Installed(f) <=> Stage(f) \in {"old", "new"}
                      /\ Installed(f) <=> (opt[f] = "old" /\ oldKeg[f]) \/ ShownNew(f)
    BY DEF Staged
  <2>1. Installed(f) <=> Visible(f) \in {"old", "new"}
    BY DEF Installed, Visible
  <2>2. /\ Visible(f) = "new" <=> ShownNew(f)
        /\ Visible(f) = "old" <=> (opt[f] = "old" /\ oldKeg[f])
    BY ShownIsVisible
  <2>3. Installed(f) => Stage(f) = Visible(f)
    BY DEF Stage
  <2>4. ~Installed(f) => Stage(f) = IF oldKeg[f] THEN "replacing" ELSE "absent"
    BY DEF Stage
  <2> QED
    BY <2>1, <2>2, <2>3, <2>4
<1> QED
  BY <1>1, PTL

LEMMA StageKept ==
    ASSUME NEW f, SameShown(f), oldKeg'[f] = oldKeg[f]
    PROVE  Stage(f)' = Stage(f)
BY VisibleKept DEF SameShown, Stage

\* A formula that is being worked on is hidden or keeps its stage.
LEMMA StageHides ==
    ASSUME "commit" \notin Faults, Bared, NEW p \in Proc, NEW e \in Formula, Hides(p, e),
           oldKeg'[e] = oldKeg[e]
    PROVE  Stage(e)' = Stage(e) \/ (Stage(e) = "old" /\ Stage(e)' = "replacing")
<1>1. Bare(e) /\ Bare(e)'
  BY BareKept DEF Hides, Bared, BareBy
<1>2. ~ShownNew(e) /\ ~ShownNew(e)'
  BY <1>1 DEF Bare, ShownNew
<1>3. opt'[e] = "old" => opt[e] = "old"
  BY DEF Hides
<1>4. Installed(e) <=> (opt[e] = "old" /\ oldKeg[e])
  BY <1>2, StageIs DEF Staged
<1>5. Installed(e)' <=> (opt'[e] = "old" /\ oldKeg[e])
  BY <1>2, StageIs DEF Staged
<1>6. Stage(e) = IF opt[e] = "old" /\ oldKeg[e] THEN "old" ELSE IF oldKeg[e] THEN "replacing" ELSE "absent"
  BY <1>4, StageIs DEF Staged
<1>7. Stage(e)' = IF opt'[e] = "old" /\ oldKeg[e] THEN "old" ELSE IF oldKeg[e] THEN "replacing" ELSE "absent"
  <2>1. opt'[e] = "old" /\ oldKeg'[e] => Stage(e)' = "old"
    BY StageIs DEF Staged
  <2>2. ~Installed(e)' /\ oldKeg'[e] => Stage(e)' = "replacing"
    BY StageIs DEF Staged
  <2>3. ~Installed(e)' /\ ~oldKeg'[e] => Stage(e)' = "absent"
    BY StageIs DEF Staged
  <2> QED
    BY <1>5, <2>1, <2>2, <2>3
<1> QED
  BY <1>3, <1>6, <1>7

\* The receipt ends an install, whose dependencies are there, or a replacement.
LEMMA StageShows ==
    ASSUME "commit" \notin Faults, Kept, Opened, Bared, Supplied,
           NEW p \in Proc, NEW e \in Formula, Shows(p, e), oldKeg'[e] = oldKeg[e]
    PROVE  /\ Stage(e)' = "new"
           /\ \/ Stage(e) = "replacing"
              \/ Stage(e) = "absent" /\ \A d \in Deps[e] : d \in Formula /\ Installed(d)
<1>1. Receipt(p) /\ pc[p] = "receipt" /\ e = Entry(p)
  BY DEF Shows, Receipt, At
<1>2. opt[e] = "new"
  BY <1>1 DEF Opened, OpenedBy, FinalizeSteps
<1>3. Stage(e)' = "new"
  <2>1. ShownNew(e)'
    BY <1>2 DEF Shows, ShownNew
  <2> QED
    BY <2>1, StageIs DEF Staged
<1>4. Bare(e)
  BY <1>1, EntryUnfinished DEF Bared, BareBy, Kept, FinalizeSteps
<1>5. ~Installed(e)
  BY <1>2, <1>4, StageIs DEF Staged, Bare, ShownNew
<1>6. ~oldKeg[e] => \A d \in Deps[e] : d \in Formula /\ Installed(d)
  BY <1>1, ReceiptSupplied
<1> QED
  BY <1>3, <1>5, <1>6, StageIs DEF Staged

LEMMA StageReopens ==
    ASSUME "commit" \notin Faults, Kept, Bared,
           NEW p \in Proc, NEW e \in Formula, Reopens(p, e), oldKeg'[e] = oldKeg[e]
    PROVE  Stage(e)' = "old" /\ Stage(e) \in {"old", "replacing"}
<1>1. pc[p] = "restore" /\ op[p] = "upgrade" /\ e = Candidate(p)
  BY DEF Reopens, Restore, Kept, Spared
<1>2. oldKeg[e] /\ Bare(e)
  BY <1>1 DEF Bared, BareBy
<1>3. Stage(e)' = "old"
  <2>1. opt'[e] = "old" /\ oldKeg'[e]
    BY <1>2 DEF Reopens
  <2> QED
    BY <2>1, StageIs DEF Staged
<1>4. ~ShownNew(e)
  BY <1>2 DEF Bare, ShownNew
<1> QED
  BY <1>2, <1>3, <1>4, StageIs DEF Staged

LEMMA LifecycleStep ==
    ASSUME NoAcquireFaults, "commit" \notin Faults, Kept, Opened, Bared, Supplied, [Next]_vars
    PROVE  [Lifecycle!Next]_([f \in Formula |-> Stage(f)])
<1> DEFINE stages == [f \in Formula |-> Stage(f)]
<1>1. ASSUME \A f \in Formula : SameShown(f), UNCHANGED oldKeg
      PROVE  UNCHANGED stages
  <2>1. \A f \in Formula : Stage(f)' = Stage(f)
    BY <1>1, StageKept
  <2> QED
    BY <2>1
<1>2. CASE UNCHANGED vars
  BY <1>1, <1>2 DEF vars, prefix, SameShown
<1>3. CASE Next
  <2>1. PICK p \in Proc : Inside(p) \/ Ends(p)
    BY <1>3, NextIsOfOne
  <2>2. UNCHANGED oldKeg /\ OneShown(p)
    BY <1>3, <2>1, OldKegsStay, ShownStep
  <2>3. CASE UNCHANGED <<receipt, opt>>
    BY <1>1, <2>2, <2>3 DEF SameShown
  <2>4. ASSUME NEW e \in Formula, \A f \in Formula : f # e => SameShown(f),
               Hides(p, e) \/ Shows(p, e) \/ Reopens(p, e)
        PROVE  Lifecycle!Next \/ UNCHANGED stages
    <3>1. \A f \in Formula : f # e => Stage(f)' = Stage(f)
      BY <2>2, <2>4, StageKept
    <3>2. stages' = [stages EXCEPT ![e] = Stage(e)']
      BY <3>1
    <3>3. CASE Stage(e)' = Stage(e)
      BY <3>1, <3>3
    <3>4. CASE Stage(e) = "old" /\ Stage(e)' = "replacing"
      <4>1. Lifecycle!BeginReplace(e)
        BY <3>2, <3>4 DEF Lifecycle!BeginReplace
      <4> QED
        BY <4>1 DEF Lifecycle!Next
    <3>5. CASE Stage(e) = "replacing" /\ Stage(e)' \in {"old", "new"}
      <4>1. Lifecycle!EndReplace(e)
        BY <3>2, <3>5 DEF Lifecycle!EndReplace
      <4> QED
        BY <4>1 DEF Lifecycle!Next
    <3>6. CASE /\ Stage(e) = "absent" /\ Stage(e)' = "new"
               /\ \A d \in Deps[e] : d \in Formula /\ Installed(d)
      <4>1. \A d \in Deps[e] : Lifecycle!Present(d)
        BY <3>6, StageIs DEF Staged, Lifecycle!Present
      <4>2. Lifecycle!Install(e)
        BY <3>2, <3>6, <4>1 DEF Lifecycle!Install
      <4> QED
        BY <4>2 DEF Lifecycle!Next
    <3> QED
      BY <2>2, <2>4, <3>3, <3>4, <3>5, <3>6, StageHides, StageShows, StageReopens
  <2> QED
    BY <2>2, <2>3, <2>4 DEF OneShown
<1> QED
  BY <1>2, <1>3

LEMMA InitStages == Init => Lifecycle!Init
<1> SUFFICES ASSUME Init PROVE Lifecycle!Init
  OBVIOUS
<1>1. PICK seen \in [Formula -> {"none"} \union Version], kept \in SUBSET Formula :
        /\ \A f \in Formula : seen[f] # "none" => \A d \in Deps[f] : seen[d] # "none"
        /\ \A f \in kept : seen[f] = "new"
        /\ oldKeg  = [f \in Formula |-> seen[f] = "old" \/ f \in kept]
        /\ receipt = [f \in Formula |-> IF seen[f] = "new" THEN "valid" ELSE "none"]
        /\ opt     = seen
  BY DEF Init
<1>2. \A f \in Formula : Stage(f) = IF seen[f] = "none" THEN "absent" ELSE seen[f]
  <2> TAKE f \in Formula
  <2>1. CASE seen[f] = "old"
    BY <1>1, <2>1, StageIs DEF Staged
  <2>2. CASE seen[f] = "new"
    BY <1>1, <2>2, StageIs DEF Staged, ShownNew
  <2>3. CASE seen[f] = "none"
    <3>1. ~oldKeg[f] /\ ~ShownNew(f) /\ opt[f] # "old"
      BY <1>1, <2>3 DEF ShownNew
    <3> QED
      BY <2>3, <3>1, StageIs DEF Staged
  <2> QED
    BY <1>1, <2>1, <2>2, <2>3 DEF Version
<1>3. \A f \in Formula : Stage(f) \in {"absent", "old", "new"} /\ (Stage(f) \in {"old", "new"} <=> seen[f] # "none")
  BY <1>1, <1>2 DEF Version
<1>4. \A f \in Formula : Deps[f] \subseteq Formula
  BY PipelineAssumption
<1> QED
  BY <1>1, <1>3, <1>4 DEF Lifecycle!Init, Lifecycle!Present

LEMMA InitSupplied == Init => Supplied
BY DEF Init, Supplied, SuppliedBy, Working, FinalizeSteps

\* bd list shows of every formula what module FormulaLifecycle promises: it is never
\* installed before its dependencies, never disappears, and an upgrade replaces the
\* version or brings the old one back; whatever fails or crashes but the downloads, their
\* threads and the removal of the backups after a receipt (discover.rs find_installed_keg,
\* execution.rs finalize_with_keg, orchestrate.rs upgrade).
THEOREM LifecycleImplemented ==
    ASSUME NoAcquireFaults, "commit" \notin Faults
    PROVE  Spec => ImplementsLifecycle
<1>1. Kept /\ Opened /\ [Next]_vars => Opened'
  BY OpenedStep
<1>2. Kept /\ Opened /\ Bared /\ [Next]_vars => Bared'
  BY BaredStep
<1>3. Kept /\ Supplied /\ [Next]_vars => Supplied'
  BY SuppliedStep
<1>4. Kept /\ Opened /\ Bared /\ Supplied /\ [Next]_vars =>
        [Lifecycle!Next]_([f \in Formula |-> Stage(f)])
  BY LifecycleStep
<1> QED
  BY <1>1, <1>2, <1>3, <1>4, AlwaysKept, InitOpened, InitBared, InitSupplied, InitStages, PTL
     DEF Spec, ImplementsLifecycle, Lifecycle!Spec

----------------------------------------------------------------------------
(***************************************************************************)
(* Between operations: nothing is lost, and dependencies are installed.    *)
(***************************************************************************)

\* Shown, or hidden for a while by an upgrade of it.
Seen(f) == Installed(f) \/ oldKeg[f]

DepsSeen == \A f \in Formula : Seen(f) => \A d \in Deps[f] : Seen(d)

LEMMA SeenAfter ==
    ASSUME NoAcquireFaults, Kept, Opened, Bared, NEW p \in Proc, Inside(p) \/ Ends(p), NEW f \in Formula
    PROVE  /\ Seen(f) => Seen(f)'
           /\ Seen(f)' => Seen(f) \/ Shows(p, f)
<1>1. oldKeg' = oldKeg
  BY OldKegsStay, StepOfOne
<1>2. CASE oldKeg[f]
  BY <1>1, <1>2 DEF Seen
<1>3. CASE ~oldKeg[f]
  <2>1. (Installed(f) <=> ShownNew(f)) /\ (Installed(f)' <=> ShownNew(f)')
    BY <1>1, <1>3, StageIs DEF Staged
  <2>2. CASE SameShown(f)
    BY <1>1, <2>2, VisibleKept DEF SameShown, Seen
  <2>3. CASE Hides(p, f)
    <3>1. Bare(f) /\ Bare(f)'
      BY <1>1, <2>3, BareKept DEF Hides, Bared, BareBy
    <3> QED
      BY <1>1, <1>3, <2>1, <3>1 DEF Bare, ShownNew, Seen
  <2>4. CASE Shows(p, f)
    <3>1. opt[f] = "new"
      BY <2>4 DEF Shows, Receipt, At, Opened, OpenedBy, FinalizeSteps
    <3> QED
      BY <2>1, <2>4, <3>1 DEF Shows, ShownNew, Seen
  <2>5. CASE Reopens(p, f)
    BY <1>3, <2>5 DEF Reopens, Restore, Kept, Spared, Bared, BareBy
  <2> QED
    BY <2>2, <2>3, <2>4, <2>5, ShownStep DEF OneShown, SameShown
<1> QED
  BY <1>2, <1>3

LEMMA DepsSeenStep ==
    ASSUME NoAcquireFaults, Kept, Opened, Bared, Supplied, DepsSeen, [Next]_vars
    PROVE  DepsSeen'
<1>1. CASE UNCHANGED vars
  BY <1>1, NothingShownChanges DEF vars, prefix, DepsSeen, Seen
<1>2. CASE Next
  <2>1. PICK p \in Proc : Inside(p) \/ Ends(p)
    BY <1>2, NextIsOfOne
  <2>2. \A f \in Formula : (Seen(f) => Seen(f)') /\ (Seen(f)' => Seen(f) \/ Shows(p, f))
    BY <2>1, SeenAfter
  <2>3. ASSUME NEW f \in Formula, Seen(f)', NEW d \in Deps[f] PROVE Seen(d)
    <3>1. CASE Seen(f)
      BY <3>1 DEF DepsSeen
    <3>2. CASE ~Seen(f)
      <4>1. Receipt(p) /\ f = Entry(p) /\ ~oldKeg[f]
        BY <2>2, <2>3, <3>2 DEF Shows, Seen
      <4>2. Installed(d)
        BY <4>1, ReceiptSupplied
      <4> QED
        BY <4>2 DEF Seen
    <3> QED
      BY <3>1, <3>2
  <2>4. \A f \in Formula : Deps[f] \subseteq Formula
    BY PipelineAssumption
  <2>5. ASSUME NEW f \in Formula, Seen(f)', NEW d \in Deps[f] PROVE Seen(d)'
    BY <2>2, <2>3, <2>4, <2>5
  <2> QED
    BY <2>5 DEF DepsSeen
<1> QED
  BY <1>1, <1>2

\* Neither a crash nor a failing restore: an upgrade goes on, or puts the old version back.
Restored == {"crash", "restore"} \intersect Faults = {}

\* p is at f, to replace it or to put it back.
Replacing(p, f) == op[p] = "upgrade" /\ (Working(p) \/ pc[p] = "restore") /\ f = Candidate(p)

Present == \A f \in Formula : oldKeg[f] => Installed(f) \/ \E p \in Proc : Replacing(p, f)

\* A plan names nothing that was installed once but the candidate of the upgrade.
OldBy(p) ==
    Working(p) => \A i \in DOMAIN plan[p] :
                    oldKeg[plan[p][i]] => op[p] = "upgrade" /\ plan[p][i] = Candidate(p)

Regained == Present /\ \A p \in Proc : OldBy(p)

\* The install step of an upgrade goes on, fails, or ends with the candidate complete.
LEMMA UpgradeGoesOn ==
    ASSUME NoAcquireFaults, Kept, Opened, Bared, NEW p \in Proc, Inside(p), Working(p), op[p] = "upgrade"
    PROVE  \/ op'[p] = op[p] /\ todo'[p] = todo[p] /\ (Working(p)' \/ pc'[p] = "restore")
           \/ /\ UNCHANGED prefix /\ pc'[p] = "next"
              /\ Candidate(p) \in Formula /\ Complete(Candidate(p))
<1>0. Safe /\ Typed /\ Ready(p)
  BY DEF Kept, Safe
<1>1. /\ DOMAIN plan[p] = 1 .. Len(plan[p]) /\ Len(plan[p]) \in Nat
      /\ Len(plan[p]) \in DOMAIN plan[p] /\ Candidate(p) = plan[p][Len(plan[p])]
  BY <1>0, EntriesAreFormulae DEF Bared, BareBy
<1>2. CASE Resolving(p) \/ Upgrading(p)
  BY <1>2 DEF Resolving, ResolvePlanOnly, ResolveInstall, ResolveUpgrade, ResolveFails, Upgrading,
     UpgradeDone, UnlinkOld, UnlinkOldFails, PlanUpgrade, PlanUpgradeFails, Restore, Working, FinalizeSteps
<1>3. CASE \E f \in Formula : Thread(p, f)
  BY <1>0, <1>3, ThreadOnEntry DEF Working
<1>4. CASE Acquiring(p)
  <2>1. CASE AcquireDone(p)
    <3>1. 1 <= Len(plan[p])
      BY <1>1
    <3>2. Proceed(p, 1) /\ UNCHANGED op
      BY <2>1 DEF AcquireDone
    <3>3. pc'[p] \in {"build", "etcvar"} /\ UNCHANGED todo
      BY <1>0, <3>1, <3>2 DEF Proceed, Goto, Typed, TypeOK
    <3> QED
      BY <3>2, <3>3 DEF Working, FinalizeSteps
  <2> QED
    BY <1>4, <2>1, AcquireLeavesPrefix DEF Working
<1>5. CASE Finalizing(p)
  <2>1. CASE Build(p) \/ OptLink(p) \/ EtcVar(p) \/ Hook(p) \/ Link(p) \/ Receipt(p)
    BY <1>0, <2>1, EntryOnly DEF Working
  <2>2. CASE BuildFails(p) \/ OptLinkFails(p) \/ EtcVarFails(p) \/ HookFails(p)
             \/ FinalizeFails(p) \/ RollbackFails(p) \/ CommitFails(p)
    <3>1. PlanFails(p) /\ UNCHANGED <<op, todo>>
      BY <2>2 DEF BuildFails, OptLinkFails, EtcVarFails, HookFails, FinalizeFails, RollbackFails,
         CommitFails, StepFails, Stay, job
    <3> QED
      BY <1>0, <3>1 DEF PlanFails, Goto, Typed, TypeOK
  <2>3. CASE Commit(p)
    <3>1. Proceed(p, at[p] + 1) /\ UNCHANGED <<prefix, op>> /\ pc[p] = "commit"
      BY <2>3 DEF Commit, At
    <3>2. at[p] \in DOMAIN plan[p]
      BY <1>0, <3>1, EntriesAreFormulae DEF FinalizeSteps
    <3>3. CASE at[p] + 1 <= Len(plan[p])
      <4>1. pc'[p] \in {"build", "etcvar"} /\ UNCHANGED todo
        BY <1>0, <3>1, <3>3 DEF Proceed, Goto, Typed, TypeOK
      <4> QED
        BY <3>1, <4>1 DEF Working, FinalizeSteps
    <3>4. CASE ~(at[p] + 1 <= Len(plan[p]))
      <4>1. at[p] = Len(plan[p])
        BY <1>1, <3>2, <3>4
      <4>2. Entry(p) = Candidate(p) /\ Entry(p) \in Formula
        BY <1>0, <1>1, <3>1, <4>1, EntriesAreFormulae DEF Entry, FinalizeSteps
      <4>3. Complete(Entry(p))
        BY <1>0, <3>1 DEF Opened, OpenedBy, Ready, PreparedBy, Complete, ShownNew, FinalizeSteps
      <4>4. pc'[p] = "next"
        BY <1>0, <3>1, <3>4 DEF Proceed, Goto, Typed, TypeOK
      <4> QED
        BY <3>1, <4>2, <4>3, <4>4
    <3> QED
      BY <3>3, <3>4
  <2> QED
    BY <1>5, <2>1, <2>2, <2>3 DEF Finalizing
<1> QED
  BY <1>2, <1>3, <1>4, <1>5 DEF Inside

\* Where p can lose sight of what was installed once, it is replacing it.
LEMMA PresentAfter ==
    ASSUME NoAcquireFaults, Restored, Kept, Opened, Bared, Regained,
           NEW p \in Proc, Inside(p) \/ Ends(p), NEW f \in Formula, oldKeg[f]
    PROVE  Installed(f)' \/ \E q \in Proc : Replacing(q, f)'
<1>0. Safe /\ PrefixTypeOK
  BY DEF Kept, Safe, Typed, TypeOK
<1>1. oldKeg' = oldKeg
  BY OldKegsStay, StepOfOne
<1>2. Working(p) \/ pc[p] = "restore" => Inside(p)
  BY DEF Ends, Start, AcquireLock, Unlock, Exit, Crash, Restored, Working, FinalizeSteps
<1>3. ASSUME Working(p), op[p] = "upgrade", f = Candidate(p)
      PROVE  (UNCHANGED prefix /\ Installed(f)) \/ Replacing(p, f)'
  <2>1. CASE op'[p] = op[p] /\ todo'[p] = todo[p] /\ (Working(p)' \/ pc'[p] = "restore")
    BY <1>3, <2>1 DEF Replacing, Candidate
  <2>2. CASE UNCHANGED prefix /\ Complete(f)
    BY <2>2, CompleteIsWhole
  <2> QED
    BY <1>2, <1>3, <2>1, <2>2, UpgradeGoesOn
<1>4. CASE UNCHANGED <<receipt, opt>> /\ Installed(f)
  BY <1>1, <1>4, NothingShownChanges
<1>5. CASE Installed(f)
  <2>1. CASE SameShown(f)
    BY <1>1, <1>5, <2>1, VisibleKept DEF SameShown
  <2>2. CASE Hides(p, f)
    <3>1. Working(p)
      BY <2>2 DEF Hides, Unfinished, Working
    <3>2. op[p] = "upgrade" /\ f = Candidate(p)
      BY <2>2, <3>1 DEF Hides, Regained, OldBy
    <3> QED
      BY <1>3, <1>4, <1>5, <3>1, <3>2 DEF prefix
  <2>3. CASE Shows(p, f)
    <3>1. ShownNew(f)'
      BY <2>3 DEF Shows, ShownNew, Receipt, At, Opened, OpenedBy, FinalizeSteps
    <3> QED
      BY <3>1, StageIs DEF Staged
  <2>4. CASE Reopens(p, f)
    BY <1>1, <2>4, StageIs DEF Reopens, Staged
  <2> QED
    BY <2>1, <2>2, <2>3, <2>4, ShownStep DEF OneShown, SameShown
<1>6. ASSUME NEW q \in Proc, Replacing(q, f)
      PROVE  Installed(f)' \/ \E r \in Proc : Replacing(r, f)'
  <2>1. CASE q # p
    <3>1. Undisturbed(q)
      BY <1>0, <2>1, OthersUndisturbed
    <3>2. Replacing(q, f)'
      BY <1>6, <3>1 DEF Undisturbed, Replacing, Working, Candidate
    <3> QED
      BY <3>2
  <2>2. CASE q = p /\ Working(p)
    BY <1>1, <1>3, <1>6, <2>2, NothingShownChanges DEF Replacing, prefix
  <2>3. CASE q = p /\ pc[p] = "restore"
    <3>1. Restore(p)
      <4>1. ~\E g \in Formula : Thread(p, g)
        BY <1>0, <2>3, ThreadOnEntry
      <4>2. ~Acquiring(p)
        BY <2>3, AcquireLeavesPrefix
      <4>3. ~Finalizing(p)
        BY <1>0, <2>3, FinalizeOnEntry DEF FinalizeSteps
      <4> QED
        BY <1>2, <2>3, <4>1, <4>2, <4>3 DEF Inside, Resolving, ResolvePlanOnly, ResolveInstall,
           ResolveUpgrade, ResolveFails, Upgrading, UpgradeDone, UnlinkOld, UnlinkOldFails,
           PlanUpgrade, PlanUpgradeFails
    <3>2. opt'[f] = "old"
      BY <1>0, <1>6, <2>3, <3>1 DEF Restore, RefreshOptLink, Restored, Replacing, PrefixTypeOK
    <3> QED
      BY <1>1, <3>2, StageIs DEF Staged
  <2> QED
    BY <1>6, <2>1, <2>2, <2>3 DEF Replacing
<1> QED
  BY <1>5, <1>6 DEF Regained, Present

LEMMA OldAfter ==
    ASSUME NoAcquireFaults, Kept, Opened, Bared, Regained, NEW p \in Proc, Inside(p) \/ Ends(p)
    PROVE  OldBy(p)'
<1>0. Safe /\ Typed
  BY DEF Kept, Safe
<1>1. UNCHANGED oldKeg
  BY OldKegsStay, StepOfOne
<1>2. CASE Ends(p)
  BY <1>0, <1>2, AfterEnds DEF OldBy, Working, Outside, FinalizeSteps
<1>3. CASE Acquiring(p) \/ Finalizing(p) \/ \E f \in Formula : Thread(p, f)
  <2>1. Working(p) /\ UNCHANGED <<op, plan>> /\ Inside(p)
    BY <1>3, WorksOnEntries DEF Inside
  <2>2. op[p] = "upgrade" => todo'[p] = todo[p] \/ pc'[p] = "next"
    BY <2>1, UpgradeGoesOn
  <2> QED
    BY <1>1, <2>1, <2>2 DEF Regained, OldBy, Working, Candidate, FinalizeSteps
<1>4. CASE Resolving(p) \/ Upgrading(p)
  <2>1. pc[p] \in {"resolve", "replan"} /\ Inside(p) =>
            \A f \in Formula : oldKeg[f] => Installed(f)
    BY <1>0, InsideHasLock DEF Regained, Present, Replacing, Working, Outside, FinalizeSteps
  <2>2. CASE ResolveInstall(p)
    <3>1. PICK s \in Orders(Pending(wanted[p], {})) : BeginPlan(p, s)
      BY <2>2 DEF ResolveInstall
    <3>2. Pending(wanted[p], {}) \in SUBSET Formula /\ s \in SetToSeqs(Pending(wanted[p], {}))
      BY DEF Orders, Pending, Closure
    <3>3. \A i \in DOMAIN s : s[i] \in Formula /\ ~Installed(s[i])
      BY <3>2, OrdersAreInjective DEF Pending
    <3>4. plan'[p] = s /\ pc[p] = "resolve"
      BY <1>0, <2>2, <3>1 DEF ResolveInstall, BeginPlan, Typed, TypeOK
    <3> QED
      BY <1>1, <1>4, <2>1, <3>3, <3>4 DEF OldBy, Inside
  <2>3. CASE PlanUpgrade(p)
    <3>1. PICK c \in Formula : c = Candidate(p)
      BY <2>3, UpgradePlan
    <3>2. /\ pc[p] = "replan" /\ op'[p] = "upgrade" /\ todo' = todo
          /\ \A i \in DOMAIN plan'[p] :
                plan'[p][i] \in Formula /\ (plan'[p][i] = c \/ ~Installed(plan'[p][i]))
      BY <2>3, <3>1, UpgradePlan
    <3> QED
      BY <1>1, <1>4, <2>1, <3>1, <3>2 DEF OldBy, Inside, Candidate
  <2>4. CASE pc'[p] \in {"unlock", "next", "replan", "restore"}
    BY <2>4 DEF OldBy, Working, FinalizeSteps
  <2> QED
    BY <1>0, <1>4, <2>2, <2>3, <2>4 DEF Resolving, ResolvePlanOnly, ResolveUpgrade, ResolveFails,
       Upgrading, UpgradeDone, UnlinkOld, UnlinkOldFails, PlanUpgradeFails, Restore, PlanFails, Return,
       Goto, Typed, TypeOK
<1> QED
  BY <1>2, <1>3, <1>4 DEF Inside

LEMMA RegainedStep ==
    ASSUME NoAcquireFaults, Restored, Kept, Opened, Bared, Regained, [Next]_vars
    PROVE  Regained'
<1>0. Safe
  BY DEF Kept
<1>1. ASSUME NEW q \in Proc, Undisturbed(q) PROVE OldBy(q)'
  BY <1>1 DEF Undisturbed, Regained, OldBy, Working, Candidate, Outside, FinalizeSteps
<1>2. CASE UNCHANGED vars
  <2>1. \A q \in Proc : Undisturbed(q) /\ \A f : Replacing(q, f)' <=> Replacing(q, f)
    BY <1>2 DEF vars, job, prefix, Undisturbed, Replacing, Working, Candidate
  <2>2. Present'
    BY <1>2, <2>1, NothingShownChanges DEF Regained, Present, vars, prefix
  <2> QED
    BY <1>1, <2>1, <2>2 DEF Regained
<1>3. CASE Next
  <2>1. PICK p \in Proc : Inside(p) \/ Ends(p)
    BY <1>3, NextIsOfOne
  <2>2. UNCHANGED oldKeg
    BY <1>3, OldKegsStay
  <2>3. Present'
    BY <2>1, <2>2, PresentAfter DEF Present
  <2>4. OldBy(p)'
    BY <2>1, OldAfter
  <2>5. \A q \in Proc : q # p => OldBy(q)'
    BY <1>0, <1>1, <2>1, OthersUndisturbed
  <2> QED
    BY <2>3, <2>4, <2>5 DEF Regained
<1> QED
  BY <1>2, <1>3

LEMMA InitSeen == Init => DepsSeen /\ Regained
<1> SUFFICES ASSUME Init PROVE DepsSeen /\ Regained
  OBVIOUS
<1>1. PICK seen \in [Formula -> {"none"} \union Version], kept \in SUBSET Formula :
        /\ \A f \in Formula : seen[f] # "none" => \A d \in Deps[f] : seen[d] # "none"
        /\ \A f \in kept : seen[f] = "new"
        /\ oldKeg  = [f \in Formula |-> seen[f] = "old" \/ f \in kept]
        /\ receipt = [f \in Formula |-> IF seen[f] = "new" THEN "valid" ELSE "none"]
        /\ opt     = seen
  BY DEF Init
<1>2. \A f \in Formula : Installed(f) <=> seen[f] # "none"
  BY <1>1, StageIs DEF Staged, ShownNew, Version
<1>3. \A f \in Formula : oldKeg[f] => Installed(f)
  BY <1>1, <1>2
<1>4. DepsSeen
  BY <1>1, <1>2, <1>3, PipelineAssumption DEF DepsSeen, Seen
<1>5. Regained
  BY <1>3 DEF Init, Regained, Present, OldBy, Working, FinalizeSteps
<1> QED
  BY <1>4, <1>5

\* Between operations nothing is being replaced.
LEMMA PresentWhenQuiet ==
    ASSUME Safe, Present, Quiet, NEW f \in Formula, oldKeg[f]
    PROVE  Installed(f)
<1>1. \A p \in Proc : pc[p] \in Outside
  BY PipelineAssumption DEF Safe, HoldsLock, Quiet, Outside
<1> QED
  BY <1>1 DEF Present, Replacing, Working, Outside, FinalizeSteps

LEMMA AlwaysRegained ==
    ASSUME NoAcquireFaults, Restored
    PROVE  Spec => [](Safe /\ DepsSeen /\ Regained)
<1>1. Kept /\ Opened /\ [Next]_vars => Opened'
  BY OpenedStep
<1>2. Kept /\ Opened /\ Bared /\ [Next]_vars => Bared'
  BY BaredStep
<1>3. Kept /\ Supplied /\ [Next]_vars => Supplied'
  BY SuppliedStep
<1>4. Kept /\ Opened /\ Bared /\ Supplied /\ DepsSeen /\ [Next]_vars => DepsSeen'
  BY DepsSeenStep
<1>5. Kept /\ Opened /\ Bared /\ Regained /\ [Next]_vars => Regained'
  BY RegainedStep
<1>6. Kept => Safe
  BY DEF Kept
<1> QED
  BY <1>1, <1>2, <1>3, <1>4, <1>5, <1>6, AlwaysKept, InitOpened, InitBared, InitSupplied, InitSeen, PTL
     DEF Spec

\* A formula that was installed once is installed between operations, whatever failed
\* but a restore, and however many operations ran (orchestrate.rs upgrade and
\* restore_previous_upgrade).
THEOREM NothingLost ==
    ASSUME NoAcquireFaults, Restored
    PROVE  Spec => []NeverLost
<1>1. Safe /\ DepsSeen /\ Regained => NeverLost
  BY PresentWhenQuiet DEF NeverLost, Regained
<1> QED
  BY <1>1, AlwaysRegained, PTL

\* Between operations the dependencies of an installed formula are installed, also those
\* that an upgrade which failed had taken down (execution.rs execute_install_plan,
\* orchestrate.rs upgrade).
THEOREM DepsAreInstalled ==
    ASSUME NoAcquireFaults, Restored
    PROVE  Spec => []DepsInstalled
<1>1. Safe /\ DepsSeen /\ Regained => DepsInstalled
  <2> SUFFICES ASSUME Safe, DepsSeen, Regained, Quiet, NEW f \in Formula, Installed(f), NEW d \in Deps[f]
               PROVE  Installed(d)
    BY DEF DepsInstalled
  <2>1. d \in Formula /\ Seen(d)
    BY PipelineAssumption DEF DepsSeen, Seen
  <2> QED
    BY <2>1, PresentWhenQuiet DEF Seen, Regained
<1> QED
  BY <1>1, AlwaysRegained, PTL

----------------------------------------------------------------------------
(***************************************************************************)
(* Between operations what is shown is whole.                              *)
(***************************************************************************)

\* Every error of an operation is made up for, and no process dies.
Undone == {"crash", "restore", "unlink", "rollback", "commit"} \intersect Faults = {}

\* p has taken the links of f down, to replace it or to put it back.
Between(p, f) ==
    op[p] = "upgrade" /\ (Working(p) \/ pc[p] \in {"replan", "restore"}) /\ f = Candidate(p)

\* p has made the links of f and not yet its receipt, or is about to go on.
Linking(p, f) == pc[p] \in {"link", "receipt", "commit"} /\ f = Entry(p)

NewLinked ==
    \A f \in Formula :
        /\ ShownNew(f) => Linked(f)
        /\ links[f]["new"] # "none" => ShownNew(f) \/ \E p \in Proc : Linking(p, f)

OldLinked ==
    \A f \in Formula \ KegOnly :
        opt[f] = "old" /\ oldKeg[f] =>
            links[f]["old"] = "full" \/ \E p \in Proc : Between(p, f)

LEMMA OneLinked ==
    ASSUME PrefixTypeOK, NEW c \in Formula, NEW v \in Version,
           LinkKeg(c, v) \/ LinkPartly(c, v) \/ links' = Unlinked(c, v) \/ UNCHANGED links
    PROVE  \A f \in Formula : \A w \in Version : f # c \/ w # v => links'[f][w] = links[f][w]
<1> USE DEF PrefixTypeOK
<1>1. ASSUME NEW x, links' = [links EXCEPT ![c][v] = x]
      PROVE  \A f \in Formula : \A w \in Version : f # c \/ w # v => links'[f][w] = links[f][w]
  BY <1>1
<1> QED
  BY <1>1 DEF LinkKeg, LinkPartly, Unlinked

LEMMA LinksAfter ==
    ASSUME NoAcquireFaults, Undone, Kept, NEW p \in Proc, Inside(p) \/ Ends(p), NEW f \in Formula
    PROVE  /\ \/ links'[f]["new"] = links[f]["new"]
              \/ f = Entry(p) /\ (Hook(p) \/ Link(p))
              \/ f = Entry(p) /\ CleanupFailedInstall(f) /\ pc[p] \in FinalizeSteps \ {"commit"}
           /\ \/ links'[f]["old"] = links[f]["old"]
              \/ f = Candidate(p) /\ (UnlinkOld(p) \/ Restore(p))
<1>0. Safe /\ PrefixTypeOK /\ "new" \in Version /\ "old" \in Version
  BY DEF Kept, Safe, Typed, TypeOK, Version
<1>1. CASE UNCHANGED links
  BY <1>1
<1>2. CASE Upgrading(p)
  <2>1. CASE UnlinkOld(p) \/ Restore(p)
    <3>1. PICK c \in Formula : c = Candidate(p)
      BY <1>0, <2>1, HeadOfTodo DEF UnlinkOld, Restore, Safe, Typed, HasCandidate, Kept, Spared
    <3>2. LinkKeg(c, "old") \/ LinkPartly(c, "old") \/ links' = Unlinked(c, "old") \/ UNCHANGED links
      BY <2>1, <3>1 DEF UnlinkOld, Restore, Relinked
    <3> QED
      BY <1>0, <2>1, <3>1, <3>2, OneLinked
  <2>2. CASE ~(UnlinkOld(p) \/ Restore(p))
    <3>1. UNCHANGED links
      BY <1>2, <2>2 DEF Upgrading, UpgradeDone, UnlinkOldFails, PlanUpgrade, PlanUpgradeFails,
         Undone, prefix
    <3> QED
      BY <1>1, <3>1
  <2> QED
    BY <2>1, <2>2
<1>3. CASE Finalizing(p)
  <2>1. PICK e \in Formula : e = Entry(p) /\ pc[p] \in FinalizeSteps
    BY <1>0, <1>3, FinalizeOnEntry
  <2>2. CASE Hook(p) \/ Link(p)
    <3>1. LinkKeg(e, "new")
      BY <2>1, <2>2 DEF Hook, Link
    <3> QED
      BY <1>0, <2>1, <2>2, <3>1, OneLinked
  <2>3. CASE CleanupFailedInstall(e) /\ pc[p] # "commit"
    <3>1. links' = Unlinked(e, "new")
      BY <2>3 DEF CleanupFailedInstall
    <3> QED
      BY <1>0, <2>1, <2>3, <3>1, OneLinked
  <2>4. CASE RollbackFails(p)
    BY <2>4 DEF RollbackFails, Undone
  <2> QED
    BY <1>1, <1>3, <2>1, <2>2, <2>3, <2>4 DEF Finalizing, Build, BuildFails, OptLink, OptLinkFails, EtcVar,
       EtcVarFails, HookFails, Receipt, FinalizeFails, Commit, CommitFails, At, prefix
<1>4. CASE Ends(p)
  BY <1>1, <1>4 DEF Ends, Start, AcquireLock, Unlock, Exit, Crash, Undone, prefix
<1>5. CASE Resolving(p) \/ Acquiring(p) \/ \E g \in Formula : Thread(p, g)
  BY <1>0, <1>1, <1>5, AcquireLeavesPrefix, ThreadOnEntry DEF Resolving, ResolvePlanOnly, ResolveInstall,
     ResolveUpgrade, ResolveFails, prefix
<1> QED
  BY <1>2, <1>3, <1>4, <1>5 DEF Inside

\* What is shown at its latest version stays so.
LEMMA ShownStays ==
    ASSUME NoAcquireFaults, "commit" \notin Faults, Kept, Opened, Bared, NEW p \in Proc,
           Inside(p) \/ Ends(p), NEW f \in Formula
    PROVE  /\ ShownNew(f) => ShownNew(f)'
           /\ ShownNew(f)' => ShownNew(f) \/ Shows(p, f)
<1>1. oldKeg' = oldKeg
  BY OldKegsStay, StepOfOne
<1>2. CASE SameShown(f)
  BY <1>2 DEF SameShown, ShownNew
<1>3. CASE Hides(p, f)
  <2>1. Bare(f) /\ Bare(f)'
    BY <1>1, <1>3, BareKept DEF Hides, Bared, BareBy
  <2> QED
    BY <2>1 DEF Bare, ShownNew
<1>4. CASE Shows(p, f)
  BY <1>4 DEF Shows, Receipt, At, Opened, OpenedBy, FinalizeSteps, ShownNew
<1>5. CASE Reopens(p, f)
  <2>1. Bare(f)
    BY <1>5 DEF Reopens, Restore, Bared, BareBy
  <2> QED
    BY <1>5, <2>1 DEF Reopens, Bare, ShownNew
<1> QED
  BY <1>2, <1>3, <1>4, <1>5, ShownStep DEF OneShown, SameShown

\* The entry at hand is not shown before its receipt, nor is the candidate when its old
\* links go or come back.
LEMMA AtHandNotShown ==
    ASSUME "commit" \notin Faults, Kept, Bared, NEW p \in Proc
    PROVE  /\ pc[p] \in FinalizeSteps \ {"commit"} => ~ShownNew(Entry(p))
           /\ UnlinkOld(p) \/ Restore(p) => ~ShownNew(Candidate(p))
<1>1. ASSUME pc[p] \in FinalizeSteps \ {"commit"} PROVE ~ShownNew(Entry(p))
  <2>1. Bare(Entry(p))
    BY <1>1, EntryUnfinished DEF Bared, BareBy, Kept
  <2> QED
    BY <2>1 DEF Bare, ShownNew
<1>2. ASSUME UnlinkOld(p) PROVE ~ShownNew(Candidate(p))
  <2>1. todo[p] \in Seq(Formula) /\ todo[p] # <<>> /\ pc[p] = "next"
    BY <1>2 DEF UnlinkOld, Kept, Safe, Typed, TypeOK
  <2>2. 1 \in DOMAIN todo[p] /\ Candidate(p) = todo[p][1]
    BY <2>1 DEF Candidate
  <2>3. opt[Candidate(p)] = "old"
    BY <2>1, <2>2 DEF Kept, Safe, Ready, QueueBy
  <2> QED
    BY <2>3 DEF ShownNew
<1>3. ASSUME Restore(p) PROVE ~ShownNew(Candidate(p))
  BY <1>3 DEF Restore, Bared, BareBy, Bare, ShownNew
<1> QED
  BY <1>1, <1>2, <1>3

\* The links of the entry at hand stay its own, are shown, or go.
LEMMA LinkingGoesOn ==
    ASSUME NoAcquireFaults, Undone, Kept, Opened, NEW p \in Proc, Inside(p) \/ Ends(p),
           NEW f \in Formula, Linking(p, f)
    PROVE  Linking(p, f)' \/ ShownNew(f) \/ links'[f]["new"] = "none"
<1>0. Safe /\ Typed /\ PrefixTypeOK /\ Ready(p) /\ pc[p] \in {"link", "receipt", "commit"} /\ f = Entry(p)
  BY DEF Kept, Safe, Typed, TypeOK, Linking
<1>1. Finalizing(p)
  <2>1. ~Ends(p)
    BY <1>0 DEF Ends, Start, AcquireLock, Unlock, Exit, Crash, Undone
  <2>2. ~Acquiring(p) /\ ~\E g \in Formula : Thread(p, g)
    BY <1>0, AcquireLeavesPrefix, ThreadOnEntry
  <2>3. ~Resolving(p) /\ ~Upgrading(p)
    BY <1>0 DEF Resolving, ResolvePlanOnly, ResolveInstall, ResolveUpgrade, ResolveFails, Upgrading,
       UpgradeDone, UnlinkOld, UnlinkOldFails, PlanUpgrade, PlanUpgradeFails, Restore
  <2> QED
    BY <2>1, <2>2, <2>3 DEF Inside
<1>2. CASE Link(p) \/ Receipt(p)
  <2>1. pc'[p] \in {"receipt", "commit"} /\ UNCHANGED <<plan, at>>
    BY <1>0, <1>2, EntryOnly DEF Link, Receipt, StepTo, Goto, Typed, TypeOK
  <2> QED
    BY <1>0, <2>1 DEF Linking, Entry
<1>3. CASE Commit(p)
  BY <1>0, <1>3 DEF Commit, At, Opened, OpenedBy, ShownNew, FinalizeSteps
<1>4. CASE FinalizeFails(p)
  <2>1. keg[f] = "ready" /\ links' = Unlinked(f, "new")
    BY <1>0, <1>4 DEF FinalizeFails, CleanupFailedInstall, Ready, PreparedBy, FinalizeSteps
  <2> QED
    BY <1>0, <2>1 DEF Unlinked, KegExists, PrefixTypeOK, Version
<1> QED
  BY <1>0, <1>1, <1>2, <1>3, <1>4 DEF Finalizing, Build, BuildFails, OptLink, OptLinkFails, EtcVar,
     EtcVarFails, Hook, HookFails, RollbackFails, CommitFails, At, CanFail, Undone

LEMMA NewLinkedStep ==
    ASSUME NoAcquireFaults, Undone, Kept, Opened, Bared, NewLinked, NEW p \in Proc, Inside(p) \/ Ends(p)
    PROVE  NewLinked'
<1>0. Safe /\ Typed /\ PrefixTypeOK /\ "commit" \notin Faults
  BY DEF Kept, Safe, Typed, TypeOK, Undone
<1>1. ASSUME NEW f \in Formula, ShownNew(f)' PROVE Linked(f)'
  <2>1. CASE Shows(p, f)
    <3>1. Linked(f) /\ UNCHANGED links
      BY <2>1 DEF Shows, Receipt, At, Opened, OpenedBy
    <3> QED
      BY <3>1 DEF Linked
  <2>2. CASE ShownNew(f)
    <3>1. links'[f]["new"] = links[f]["new"]
      BY <1>0, <2>2, LinksAfter, AtHandNotShown DEF Hook, Link, At, FinalizeSteps
    <3>2. links'[f]["old"] = links[f]["old"]
      BY <1>0, <2>2, LinksAfter, AtHandNotShown
    <3> QED
      BY <2>2, <3>1, <3>2 DEF NewLinked, Linked
  <2> QED
    BY <1>0, <1>1, <2>1, <2>2, ShownStays
<1>2. ASSUME NEW f \in Formula, links'[f]["new"] # "none"
      PROVE  ShownNew(f)' \/ \E q \in Proc : Linking(q, f)'
  <2>1. CASE ShownNew(f)
    BY <1>0, <2>1, ShownStays
  <2>2. ASSUME NEW q \in Proc, Linking(q, f), ~ShownNew(f)
        PROVE  \E r \in Proc : Linking(r, f)'
    <3>1. CASE q = p
      BY <1>2, <2>2, <3>1, LinkingGoesOn
    <3>2. CASE q # p
      <4>1. Undisturbed(q)
        BY <1>0, <3>2, OthersUndisturbed
      <4>2. Linking(q, f)'
        BY <2>2, <4>1 DEF Undisturbed, Linking, Entry
      <4> QED
        BY <4>2
    <3> QED
      BY <3>1, <3>2
  <2>3. CASE links[f]["new"] = "none"
    <3>1. CASE f = Entry(p) /\ (Hook(p) \/ Link(p))
      <4>1. pc'[p] \in {"link", "receipt"} /\ UNCHANGED <<plan, at>>
        BY <1>0, <3>1, EntryOnly DEF Hook, Link, StepTo, Goto, Typed, TypeOK
      <4>2. Linking(p, f)'
        BY <3>1, <4>1 DEF Linking, Entry
      <4> QED
        BY <4>2
    <3>2. CASE CleanupFailedInstall(f)
      BY <1>0, <1>2, <2>3, <3>2 DEF CleanupFailedInstall, Unlinked, PrefixTypeOK, Version
    <3> QED
      BY <1>2, <2>3, <3>1, <3>2, LinksAfter
  <2> QED
    BY <2>1, <2>2, <2>3 DEF NewLinked
<1> QED
  BY <1>1, <1>2 DEF NewLinked

\* An upgrade that has taken the old links down is at the formula until it is shown at
\* its latest version, or the old version is back.
LEMMA BetweenGoesOn ==
    ASSUME NoAcquireFaults, Undone, Kept, Opened, Bared, NewLinked, NEW p \in Proc, Inside(p) \/ Ends(p),
           NEW f \in Formula \ KegOnly, Between(p, f), oldKeg[f]
    PROVE  Between(p, f)' \/ links'[f]["old"] = "full" \/ ShownNew(f)
<1>0. Safe /\ Typed /\ PrefixTypeOK /\ op[p] = "upgrade" /\ f = Candidate(p)
  BY DEF Kept, Safe, Typed, TypeOK, Between
<1>1. Inside(p)
  BY DEF Ends, Start, AcquireLock, Unlock, Exit, Crash, Undone, Between, Working, FinalizeSteps
<1>2. CASE Working(p)
  BY <1>0, <1>1, <1>2, UpgradeGoesOn DEF Between, Candidate, Complete
<1>3. CASE pc[p] \in {"replan", "restore"}
  <2>1. Upgrading(p)
    <3>1. ~Acquiring(p) /\ ~\E g \in Formula : Thread(p, g)
      BY <1>0, <1>3, AcquireLeavesPrefix, ThreadOnEntry
    <3>2. ~Finalizing(p)
      BY <1>0, <1>3, FinalizeOnEntry DEF FinalizeSteps
    <3> QED
      BY <1>1, <1>3, <3>1, <3>2 DEF Inside, Resolving, ResolvePlanOnly, ResolveInstall, ResolveUpgrade,
         ResolveFails
  <2>2. CASE PlanUpgrade(p)
    BY <1>0, <2>2, UpgradePlan DEF Between, Working, Candidate
  <2>3. CASE PlanUpgradeFails(p)
    <3>1. pc'[p] = "restore" /\ UNCHANGED <<op, todo>>
      BY <1>0, <2>3 DEF PlanUpgradeFails, PlanFails, Goto, Typed, TypeOK
    <3> QED
      BY <1>0, <3>1 DEF Between, Candidate
  <2>4. CASE Restore(p)
    <3>1. ~ShownNew(f)
      BY <1>0, <2>4, AtHandNotShown DEF Undone
    <3>2. \A q \in Proc : ~Linking(q, f)
      <4>1. pc[p] = "restore"
        BY <2>4 DEF Restore
      <4>2. \A q \in Proc : q # p => pc[q] \in Outside
        BY <1>0, <1>1, InsideHasLock
      <4> QED
        BY <4>1, <4>2 DEF Linking, Outside
    <3>3. links[f]["new"] = "none"
      BY <3>1, <3>2 DEF NewLinked
    <3>4. ~Collides(f, "old") /\ Linkable(f, "old")
      BY <3>3 DEF Collides, Linkable, KegExists, Other
    <3>5. LinkKeg(f, "old")
      BY <1>0, <2>4, <3>4 DEF Restore, Relinked, Undone
    <3> QED
      BY <1>0, <3>4, <3>5 DEF LinkKeg, PrefixTypeOK, Version
  <2> QED
    BY <1>3, <2>1, <2>2, <2>3, <2>4 DEF Upgrading, UpgradeDone, UnlinkOld, UnlinkOldFails
<1> QED
  BY <1>2, <1>3 DEF Between

LEMMA OldLinkedStep ==
    ASSUME NoAcquireFaults, Undone, Kept, Opened, Bared, NewLinked, OldLinked, NEW p \in Proc,
           Inside(p) \/ Ends(p)
    PROVE  OldLinked'
<1>0. Safe /\ Typed /\ PrefixTypeOK /\ "commit" \notin Faults /\ Spared(p)
  BY DEF Kept, Safe, Typed, TypeOK, Undone
<1> SUFFICES ASSUME NEW f \in Formula \ KegOnly, opt'[f] = "old", oldKeg'[f], links'[f]["old"] # "full"
             PROVE  \E q \in Proc : Between(q, f)'
  BY DEF OldLinked
<1>1. oldKeg[f] /\ ~ShownNew(f)
  <2>1. oldKeg' = oldKeg
    BY OldKegsStay, StepOfOne
  <2>2. ~ShownNew(f)'
    BY DEF ShownNew
  <2> QED
    BY <1>0, <2>1, <2>2, ShownStays
<1>2. CASE \E q \in Proc : Between(q, f)
  <2>1. PICK q \in Proc : Between(q, f)
    BY <1>2
  <2>2. CASE q = p
    BY <1>1, <2>1, <2>2, BetweenGoesOn
  <2>3. CASE q # p
    <3>1. Undisturbed(q)
      BY <1>0, <2>3, OthersUndisturbed
    <3>2. Between(q, f)'
      BY <2>1, <3>1 DEF Undisturbed, Between, Working, Candidate
    <3> QED
      BY <3>2
  <2> QED
    BY <2>2, <2>3
<1>3. CASE Restore(p) /\ f = Candidate(p)
  BY <1>0, <1>2, <1>3 DEF Restore, Spared, Between
<1>4. CASE UnlinkOld(p) /\ f = Candidate(p)
  <2>1. pc'[p] = "replan" /\ op'[p] = "upgrade" /\ todo'[p] = todo[p]
    BY <1>0, <1>4 DEF UnlinkOld, Spared, Goto, job, Typed, TypeOK
  <2>2. Between(p, f)'
    BY <1>4, <2>1 DEF Between, Candidate
  <2> QED
    BY <2>2
<1>5. CASE opt[f] = "old" /\ links[f]["old"] = "full"
  BY <1>0, <1>3, <1>4, <1>5, LinksAfter
<1>6. CASE opt[f] # "old"
  <2>1. Reopens(p, f)
    BY <1>0, <1>6, ShownStep DEF OneShown, SameShown, Hides, Shows
  <2> QED
    BY <1>3, <2>1 DEF Reopens
<1> QED
  BY <1>1, <1>2, <1>5, <1>6 DEF OldLinked

LEMMA LinkedStep ==
    ASSUME NoAcquireFaults, Undone, Kept, Opened, Bared, NewLinked, OldLinked, [Next]_vars
    PROVE  NewLinked' /\ OldLinked'
<1>1. CASE UNCHANGED vars
  BY <1>1 DEF vars, prefix, job, NewLinked, OldLinked, ShownNew, Linked, Linking, Between, Working,
     Candidate, Entry
<1>2. CASE Next
  BY <1>2, NextIsOfOne, NewLinkedStep, OldLinkedStep
<1> QED
  BY <1>1, <1>2

LEMMA InitLinked == Init => NewLinked /\ OldLinked
<1> SUFFICES ASSUME Init PROVE NewLinked /\ OldLinked
  OBVIOUS
<1>1. PICK seen \in [Formula -> {"none"} \union Version], kept \in SUBSET Formula :
        /\ oldKeg  = [f \in Formula |-> seen[f] = "old" \/ f \in kept]
        /\ receipt = [f \in Formula |-> IF seen[f] = "new" THEN "valid" ELSE "none"]
        /\ opt     = seen
        /\ links   = [f \in Formula |-> [v \in Version |->
                        IF v = seen[f] /\ f \notin KegOnly THEN "full" ELSE "none"]]
  BY DEF Init
<1> QED
  BY <1>1 DEF NewLinked, OldLinked, ShownNew, Linked, Version

\* Between operations nothing is half done.
LEMMA LinkedWhenQuiet ==
    ASSUME Safe, Opened, NewLinked, OldLinked, Quiet, NEW f \in Formula, Installed(f)
    PROVE  Whole(f, Visible(f))
<1>1. \A p \in Proc : ~Linking(p, f) /\ ~Between(p, f)
  BY PipelineAssumption DEF Safe, HoldsLock, Quiet, Linking, Between, Working, FinalizeSteps
<1>2. CASE ShownNew(f)
  <2>1. Complete(f)
    BY <1>2 DEF Complete, NewLinked, Safe, ReadyNew
  <2> QED
    BY <2>1, CompleteIsWhole
<1>3. CASE ~ShownNew(f)
  <2>1. opt[f] = "old" /\ oldKeg[f]
    BY <1>3 DEF Installed, Visible, ShownNew
  <2>2. Visible(f) = "old"
    BY <2>1, ShownIsVisible
  <2>3. links[f]["new"] = "none" /\ (f \notin KegOnly => links[f]["old"] = "full")
    BY <1>1, <1>3, <2>1 DEF NewLinked, OldLinked
  <2> QED
    BY <2>1, <2>2, <2>3 DEF Whole, KegExists, Other
<1> QED
  BY <1>2, <1>3

\* Between operations whatever is shown is complete, its keg relocated and all its links
\* made, and no link of the other version is left, if each error is made up for: a crash,
\* and an error of unlink, of a rollback, of a commit or of the restore leave what they
\* leave (orchestrate.rs upgrade, execution.rs finalize_with_keg).
THEOREM ShownWhole ==
    ASSUME NoAcquireFaults, Undone
    PROVE  Spec => []ShownIsWhole
<1>1. Kept /\ Opened /\ [Next]_vars => Opened'
  BY OpenedStep
<1>2. Kept /\ Opened /\ Bared /\ [Next]_vars => Bared'
  BY BaredStep
<1>3. Kept /\ Opened /\ Bared /\ NewLinked /\ OldLinked /\ [Next]_vars => NewLinked' /\ OldLinked'
  BY LinkedStep
<1>4. Kept /\ Opened /\ NewLinked /\ OldLinked => ShownIsWhole
  BY LinkedWhenQuiet DEF Kept, ShownIsWhole
<1> QED
  BY <1>1, <1>2, <1>3, <1>4, AlwaysKept, InitOpened, InitBared, InitLinked, PTL DEF Spec
=============================================================================
