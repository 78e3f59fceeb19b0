-------------------------- MODULE FormulaLifecycle --------------------------
(***************************************************************************)
(* What bd promises of one formula, seen through bd list (that is, through *)
(* find_installed_keg): it is absent, or installed at one version, and an  *)
(* upgrade replaces the version or brings the old one back.  A formula     *)
(* never disappears, and is never installed before its dependencies.       *)
(***************************************************************************)
CONSTANTS Formula, Deps

VARIABLE stage

Stages == {"absent", "old", "replacing", "new"}

Present(f) == stage[f] \in {"old", "new"}

LifecycleTypeOK == stage \in [Formula -> Stages]

Init ==
    /\ stage \in [Formula -> {"absent", "old", "new"}]
    /\ \A f \in Formula : Present(f) => \A d \in Deps[f] : Present(d)

Install(f) ==
    /\ stage[f] = "absent"
    /\ \A d \in Deps[f] : Present(d)
    /\ stage' = [stage EXCEPT ![f] = "new"]

\* The new version takes over opt/f before it has a receipt.
BeginReplace(f) ==
    /\ stage[f] = "old"
    /\ stage' = [stage EXCEPT ![f] = "replacing"]

EndReplace(f) ==
    /\ stage[f] = "replacing"
    /\ \E v \in {"old", "new"} : stage' = [stage EXCEPT ![f] = v]

Next == \E f \in Formula : Install(f) \/ BeginReplace(f) \/ EndReplace(f)

Spec == Init /\ [][Next]_stage
=============================================================================
