------------------------- MODULE MCInstallPipeline -------------------------
(***************************************************************************)
(* Instances of InstallPipeline for TLC.  The dependency graphs are given  *)
(* by number of formulae: an application on top of a bottle and of a       *)
(* source-built library, or of one library only.                           *)
(***************************************************************************)
EXTENDS InstallPipeline

CONSTANTS app, lib, src

MCDeps ==
    [f \in Formula |-> IF f = app THEN Formula \ {app}
                       ELSE IF f = src THEN Formula \ {app, src} ELSE {}]

\* Everything may go wrong.
AllFaults == FaultKinds

\* Everything but a crash and the errors whose handling gives up: unlinking the
\* old keg, the opt link of a source build, a rollback, a commit, the restore.
HandledFaults ==
    {"resolve", "fetch", "materialize", "build", "etcvar", "hook", "link", "receipt"}

\* Those of them that come after the acquire stage (or before it).
NoThreadFaults == HandledFaults \ {"fetch", "materialize"}

\* No failure of the acquire stage: no thread is left behind.
FinalizeFaults == FaultKinds \ {"fetch", "materialize", "crash"}
=============================================================================
