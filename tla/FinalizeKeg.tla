---------------------------- MODULE FinalizeKeg ----------------------------
(***************************************************************************)
(* Finishing one keg (core/src/orchestrate/execution.rs finalize_with_keg): *)
(* its .bottle/etc and .bottle/var go into the prefix under an undo log,   *)
(* its files are linked, post_install runs on top of saved copies, and on  *)
(* any error everything is to be undone in the opposite order.             *)
(***************************************************************************)
EXTENDS HookProgram
LOCAL INSTANCE SequencesExt
LOCAL INSTANCE Functions

CONSTANTS
    Starts,     \* what an install may begin with: the prefix (tree), the keg (keg), what
                \* .bottle holds (bottle: where it goes |-> what it is) and the program of
                \* post_install (hook)
    NoHook,     \* post_install is not defined
    Outputs,    \* the segments a captured output may be
    OtherFile,  \* a path at which another program may put a file meanwhile
    MaxFaults   \* bound: how many operations fail though they could have succeeded

ASSUME BoundAssumption == MaxFaults \in Nat

ASSUME OtherAssumption == IsPath(OtherFile) /\ Len(OtherFile) > 1 /\ OtherFile[1] # "Cellar"

\* The Cellar holds kegs and nothing else is in it; .bottle brings files to etc and var only.
ASSUME StartAssumption == \A s \in Starts :
    /\ IsTree(s.tree) /\ IsDir(s.tree, <<>>)
    /\ \A p \in DOMAIN s.tree : p # <<>> => p[1] # "Cellar"
    /\ IsTree(s.keg) /\ \A p \in DOMAIN s.keg : p # <<>> => p[1] = "Cellar"
    /\ \A p \in DOMAIN s.bottle :
         /\ IsPath(p) /\ Len(p) > 1 /\ p[1] \in {"etc", "var"}
         /\ s.bottle[p].kind \in {"file", "dir", "link"} /\ IsPath(s.bottle[p].to)
    /\ s.hook # NoHook => \A a \in PlainStatements(s.hook) : IsPath(Resolve(a.to, <<>>))

VARIABLES
    tree,       \* the prefix, the keg in it
    phase,      \* where finalize_with_keg is
    hook,       \* the program
    left,       \* what of .bottle is not yet installed
    created,    \* the undo log of the etc/var transaction
    backups,    \* rollback root |-> the saved tree there, empty if there was none
    rollback_dir, \* the directory of the saved copies exists
    todo,       \* the statements still to run
    captured,   \* the captured output
    before,     \* history: the prefix at the start
    prehook,    \* history: the tree when the hook started, empty before
    other,      \* history: another program put OtherFile there
    torn,       \* history: something was done that is not undone, or an undo step failed
    faults      \* bound: the faults so far

vars == <<tree, phase, hook, left, created, backups, rollback_dir, todo, captured, before,
          prehook, other, torn, faults>>

Phases == {"etcvar", "link", "backup", "run", "undo_hook", "finalize", "undo_late",
           "undo_etcvar", "undo_strict", "cleanup", "installed", "failed", "stuck"}

Init ==
    /\ \E s \in Starts :
         before = s.tree /\ tree = Over(before, s.keg) /\ left = s.bottle /\ hook = s.hook
    /\ prehook = <<>> /\ phase = "etcvar"
    /\ created = <<>> /\ backups = <<>> /\ rollback_dir = FALSE /\ todo = <<>> /\ captured = <<>>
    /\ other = FALSE /\ torn = FALSE /\ faults = 0

Goto(p) == phase' = p

\* An operation fails for a reason of its own, or because the system fails it.
Fault == faults < MaxFaults /\ faults' = faults + 1
NoFault == UNCHANGED faults
FailsIf(cannot) == (cannot /\ NoFault) \/ (~cannot /\ Fault)

----------------------------------------------------------------------------
(***************************************************************************)
(* install_bottle_etc_var.                                                 *)
(***************************************************************************)
\* ensure_dir_exists: up from d to a level that exists; the new ones are logged, parents first.
existing_level(d) == CHOOSE n \in 0 .. Len(d) :
    /\ Exists(tree, SubSeq(d, 1, n))
    /\ \A m \in n + 1 .. Len(d) : ~Exists(tree, SubSeq(d, 1, m))
NewLevels(d) == [i \in 1 .. Len(d) - existing_level(d) |-> SubSeq(d, 1, existing_level(d) + i)]
Logged(d)    == created \o NewLevels(d)
DirOf(p)     == IF left[p].kind = "dir" THEN p ELSE Parent(p)

default_install_path(p) == Append(Parent(p), Name(p) \o ".default")
SameFile(t, p, node) == IsFile(t, p) /\ t[Target(t, p)].text = node.text
SameLink(t, p, node) == IsLink(t, p) /\ t[p].to = node.to

\* Where an entry goes: its place, or <place>.default if something else is there.
Destination(t, p) ==
    LET node == left[p] IN
    IF node.kind = "file"
    THEN IF Exists(t, p) /\ ~SameFile(t, p, node) THEN default_install_path(p) ELSE p
    ELSE IF p \in DOMAIN t /\ ~SameLink(t, p, node) THEN default_install_path(p) ELSE p

\* A directory where a file goes, or a file where a link goes, is an error.
CanInstall(t, p) ==
    LET node == left[p]  d == Destination(t, p) IN
    CASE node.kind = "file" -> ~IsDir(t, p) /\ ~IsDir(t, d) /\ Parent(Target(t, d)) \in DOMAIN t
      [] node.kind = "link" -> \A q \in {p, d} : q \in DOMAIN t => IsLink(t, q)
      [] OTHER              -> TRUE

Same(t, p, node) == IF node.kind = "file" THEN SameFile(t, p, node) ELSE SameLink(t, p, node)
WasThere(t, p, node) == IF node.kind = "file" THEN Exists(t, p) ELSE p \in DOMAIN t

\* A file is written through a link that is in its place; what was not there is logged.
Installed(t, p, node) == IF node.kind = "file" THEN Put(t, Target(t, p), node) ELSE Put(t, p, node)
LoggedNew(log, t, p, node) == IF WasThere(t, p, node) THEN log ELSE Append(log, p)

\* Mutant: what is there already is written over.
InstallEntryOver(p) ==
    LET dirs == create_dir_all(tree, DirOf(p)) IN
    /\ phase = "etcvar" /\ CanMkdir(tree, DirOf(p)) /\ CanInstall(dirs, p)
    /\ tree' = IF left[p].kind = "dir" THEN dirs ELSE Installed(dirs, p, left[p])
    /\ created' = Logged(DirOf(p))
    /\ left' = Restrict(left, DOMAIN left \ {p})
    /\ NoFault /\ UNCHANGED <<phase, hook, backups, rollback_dir, todo, captured, before, prehook, other, torn>>

InstallEntry(p) ==
    LET dirs == create_dir_all(tree, DirOf(p))  node == left[p]  d == Destination(dirs, p) IN
    /\ phase = "etcvar" /\ CanMkdir(tree, DirOf(p)) /\ CanInstall(dirs, p)
    /\ IF node.kind = "dir" \/ Same(dirs, d, node)
       THEN tree' = dirs /\ created' = Logged(DirOf(p))
       ELSE tree' = Installed(dirs, d, node) /\ created' = LoggedNew(Logged(DirOf(p)), dirs, d, node)
    /\ left' = Restrict(left, DOMAIN left \ {p})
    /\ NoFault /\ UNCHANGED <<phase, hook, backups, rollback_dir, todo, captured, before, prehook, other, torn>>

\* The copy of a file may stop half way: what it wrote stays and is not in the log.
EntryFails(p) ==
    LET dirs == create_dir_all(tree, DirOf(p))  d == Destination(dirs, p) IN
    /\ phase = "etcvar"
    /\ FailsIf(~CanMkdir(tree, DirOf(p)) \/ ~CanInstall(dirs, p))
    /\ \/ UNCHANGED <<tree, created, torn>>
       \/ /\ CanMkdir(tree, DirOf(p))
          /\ tree' = dirs /\ created' = Logged(DirOf(p)) /\ UNCHANGED torn
       \/ /\ CanMkdir(tree, DirOf(p)) /\ CanInstall(dirs, p)
          /\ left[p].kind = "file" /\ ~Same(dirs, d, left[p])
          /\ tree' = Installed(dirs, d, File("partial")) /\ created' = Logged(DirOf(p))
          /\ torn' = TRUE
    /\ Goto("undo_etcvar")
    /\ UNCHANGED <<hook, left, backups, rollback_dir, todo, captured, before, prehook, other>>

EtcVarDone ==
    /\ phase = "etcvar" /\ left = <<>>
    /\ Goto(IF hook = NoHook THEN "finalize" ELSE "link")
    /\ NoFault
    /\ UNCHANGED <<tree, hook, left, created, backups, rollback_dir, todo, captured, before, prehook, other, torn>>

\* rollback: newest first; a directory must be empty.
UndoLast ==
    /\ phase \in {"undo_etcvar", "undo_strict"} /\ created # <<>>
    /\ Within(tree, Last(created)) \subseteq {Last(created)}
    /\ tree' = remove_path_if_exists(tree, Last(created))
    /\ created' = Front(created)
    /\ NoFault /\ UNCHANGED <<phase, hook, left, backups, rollback_dir, todo, captured, before, prehook, other, torn>>

\* The first error ends the rollback: a warning, or the end of the cleanup too.
UndoStops ==
    /\ phase \in {"undo_etcvar", "undo_strict"} /\ created # <<>>
    /\ FailsIf(~(Within(tree, Last(created)) \subseteq {Last(created)}))
    /\ Goto(IF phase = "undo_strict" THEN "stuck" ELSE "cleanup")
    /\ torn' = TRUE
    /\ UNCHANGED <<tree, hook, left, created, backups, rollback_dir, todo, captured, before, prehook, other>>

Undone ==
    /\ phase \in {"undo_etcvar", "undo_strict"} /\ created = <<>>
    /\ Goto("cleanup")
    /\ NoFault
    /\ UNCHANGED <<tree, hook, left, created, backups, rollback_dir, todo, captured, before, prehook, other, torn>>

----------------------------------------------------------------------------
(***************************************************************************)
(* link and unlink, file by file in the code, a set of files here.         *)
(***************************************************************************)
LINKABLE_DIRS == {"bin", "sbin", "lib", "include", "share", "etc"}

LinkPath(q) == Rebase(q, keg_path, <<>>)
LinkedFiles(t) ==
    {q \in Within(t, keg_path) :
        Len(q) > Len(keg_path) + 1 /\ t[q].kind # "dir" /\ LinkPath(q)[1] \in LINKABLE_DIRS}

\* A link in the keg that leads to the very place it would be linked at is left out.
should_skip(t, q) == IsLink(t, q) /\ t[q].to = LinkPath(q) /\ LinkPath(q) \in DOMAIN t

OurLink(t, p)    == IsLink(t, p) /\ Under(keg_path, t[p].to)
CanLink(t, q)    ==
    /\ CanMkdir(t, Parent(LinkPath(q)))
    /\ LinkPath(q) \in DOMAIN t => OurLink(t, LinkPath(q))
ToLink(t)        == {q \in LinkedFiles(t) : ~should_skip(t, q)}
Linked(t, S) ==
    LET links == {LinkPath(q) : q \in S}
    IN  Over([p \in links |-> Link(keg_path \o p)], Over(t, Dirs(UNION {Ancestors(p) : p \in links})))

\* Mutant: directories made for the links stay.
UnlinkedOnly(t) ==
    LET gone == {LinkPath(q) : q \in {f \in LinkedFiles(t) : OurLink(t, LinkPath(f))}}
    IN  Restrict(t, DOMAIN t \ gone)

\* unlink walks the files of the keg as they are now, and prunes directories left empty.
Unlinked(t) ==
    LET gone   == {LinkPath(q) : q \in {f \in LinkedFiles(t) : OurLink(t, LinkPath(f))}}
        above  == {d \in UNION {Ancestors(p) : p \in gone} : d \in DOMAIN t /\ t[d].kind = "dir"}
        pruned == {d \in above : Len(d) > 1 /\ Within(t, d) \subseteq above \union gone}
    IN  Restrict(t, DOMAIN t \ (gone \union pruned))

\* execute_post_install: the source is fetched, the keg is linked before the hook runs.
PreLink ==
    /\ phase = "link" /\ \A q \in ToLink(tree) : CanLink(tree, q)
    /\ tree' = Linked(tree, ToLink(tree))
    /\ Goto("backup")
    /\ NoFault
    /\ UNCHANGED <<hook, left, created, backups, rollback_dir, todo, captured, before, prehook, other, torn>>

\* Some files are linked.  The one that fails may have got its directories, which nobody
\* will remove.
LinkFails ==
    LET can == {q \in ToLink(tree) : CanLink(tree, q)} IN
    \/ /\ FailsIf(can # ToLink(tree)) /\ \E S \in SUBSET can : tree' = Linked(tree, S)
       /\ UNCHANGED torn
    \/ /\ Fault /\ torn' = TRUE
       /\ \E S \in SUBSET can : \E q \in can \ S :
            tree' = create_dir_all(Linked(tree, S), Parent(LinkPath(q)))

PreLinkFails ==
    /\ phase = "link" /\ LinkFails
    /\ Goto("undo_etcvar")
    /\ UNCHANGED <<hook, left, created, backups, rollback_dir, todo, captured, before, prehook, other>>
----------------------------------------------------------------------------
(***************************************************************************)
(* run_post_install and PostInstallTransaction.                            *)
(***************************************************************************)
\* copy_path keeps the modes of files, not those of directories.
Saved(t, r) == [p \in Within(t, r) |-> Copied(t[p])]

Backup ==
    /\ phase = "backup"
    /\ backups' = [r \in collect_rollback_roots(hook) |-> Saved(tree, r)]
    /\ rollback_dir' = TRUE /\ todo' = hook /\ prehook' = tree
    /\ Goto("run")
    /\ NoFault /\ UNCHANGED <<tree, hook, left, created, captured, before, other, torn>>

\* The directory made for the copies is left behind.
BackupFails ==
    /\ phase = "backup" /\ Fault
    /\ rollback_dir' \in BOOLEAN
    /\ Goto("undo_etcvar")
    /\ UNCHANGED <<tree, hook, left, created, backups, todo, captured, before, prehook, other, torn>>

From(s) == Resolve(s.from, captured)
To(s)   == Resolve(s.to, captured)

\* A child process may change what its arguments name; its output is captured.
Command(s) ==
    \/ /\ s.op = "System" /\ tree' \in Commanded(tree, To(s)) /\ UNCHANGED captured
    \/ /\ s.op = "ProcessCapture" /\ captured' \in Outputs /\ UNCHANGED tree

Branch(s) ==
    \/ s.op = "IfPath" /\ path_condition_matches(tree, To(s), s.kind)
    \/ s.op = "IfEnv"

RunStatement ==
    /\ phase = "run" /\ todo # <<>>
    /\ LET s == Head(todo) IN
       /\ Admitted(s, captured)
       /\ \/ /\ s.op \in {"System", "ProcessCapture"}
             /\ Command(s) /\ todo' = Tail(todo)
          \/ /\ Branch(s)
             /\ todo' = s.then \o Tail(todo) /\ UNCHANGED <<tree, captured>>
          \/ /\ s.op \in {"IfPath", "IfEnv"} /\ (s.op = "IfPath" => ~Branch(s))
             /\ todo' = Tail(todo) /\ UNCHANGED <<tree, captured>>
          \/ /\ s.op \notin {"System", "ProcessCapture", "IfPath", "IfEnv"}
             /\ Runs(s, tree, From(s), To(s))
             /\ tree' = Effect(s, tree, From(s), To(s))
             /\ todo' = Tail(todo) /\ UNCHANGED captured
    /\ NoFault
    /\ UNCHANGED <<phase, hook, left, created, backups, rollback_dir, before, prehook, other, torn>>

\* A statement fails before its effect, after it or in the middle.  A link over a file of the
\* keg may be left without the link: unlink will not know of that file then.
StatementFails ==
    /\ phase = "run" /\ todo # <<>>
    /\ LET s == Head(todo)
           admitted == Admitted(s, captured)
       IN  /\ FailsIf(~(admitted /\ Runs(s, tree, From(s), To(s))))
           /\ tree' \in IF admitted THEN Partly(s, tree, From(s), To(s)) ELSE {tree}
    /\ torn' = (torn \/ ~(LinkedFiles(prehook) \subseteq LinkedFiles(tree')))
    /\ Goto("undo_hook")
    /\ UNCHANGED <<hook, left, created, backups, rollback_dir, todo, captured, before, prehook, other>>

HookDone ==
    /\ phase = "run" /\ todo = <<>>
    /\ Goto("finalize")
    /\ NoFault
    /\ UNCHANGED <<tree, hook, left, created, backups, rollback_dir, todo, captured, before, prehook, other, torn>>

\* Mutant: a root is copied back over what is there.
RemovedNothing(t, R) == t

\* restore_backups: each root is removed, then copied back if there was something.
Removed(t, R) == Restrict(t, {p \in DOMAIN t : \A r \in R : ~Under(r, p)})
CopiedBack(t, R) ==
    LET saved == {r \in R : backups[r] # <<>>}
        copies == UNION {DOMAIN backups[r] : r \in saved}
    IN  Over([p \in copies |-> backups[CHOOSE r \in saved : p \in DOMAIN backups[r]][p]],
             Over(t, Dirs(UNION {Ancestors(r) : r \in saved})))

AfterRestore == IF phase = "undo_hook" THEN "undo_etcvar" ELSE "undo_strict"

RestoreBackups ==
    /\ phase \in {"undo_hook", "undo_late"}
    /\ tree' = CopiedBack(Removed(tree, DOMAIN backups), DOMAIN backups)
    /\ rollback_dir' = FALSE
    /\ Goto(AfterRestore)
    /\ NoFault
    /\ UNCHANGED <<hook, left, created, backups, todo, captured, before, prehook, other, torn>>

\* The first error ends it: some roots are back, one is gone, the copies stay.  From
\* finalize_with_keg nothing else is undone then.
RestoreFails ==
    /\ phase \in {"undo_hook", "undo_late"} /\ Fault
    /\ \E done \in SUBSET DOMAIN backups : \E r \in DOMAIN backups \ done :
         tree' = CopiedBack(Removed(tree, done \union {r}), done)
    /\ torn' = TRUE
    /\ Goto(IF phase = "undo_hook" THEN "undo_etcvar" ELSE "stuck")
    /\ UNCHANGED <<hook, left, created, backups, rollback_dir, todo, captured, before, prehook, other>>

----------------------------------------------------------------------------
(***************************************************************************)
(* finalize_installed_formula, commit and cleanup_failed_install.          *)
(***************************************************************************)
Finalize ==
    /\ phase = "finalize" /\ \A q \in ToLink(tree) : CanLink(tree, q)
    /\ tree' = Linked(tree, ToLink(tree))
    /\ rollback_dir' = FALSE
    /\ Goto("installed")
    /\ NoFault
    /\ UNCHANGED <<hook, left, created, backups, todo, captured, before, prehook, other, torn>>

FinalizeFails ==
    /\ phase = "finalize" /\ LinkFails
    /\ Goto(IF hook = NoHook THEN "undo_strict" ELSE "undo_late")
    /\ UNCHANGED <<hook, left, created, backups, rollback_dir, todo, captured, before, prehook, other>>

Cleanup ==
    /\ phase = "cleanup"
    /\ tree' = remove_path_if_exists(Unlinked(tree), keg_path)
    /\ Goto("failed")
    /\ NoFault
    /\ UNCHANGED <<hook, left, created, backups, rollback_dir, todo, captured, before, prehook, other, torn>>

\* Another program of the user's, a daemon for one, puts a file into the prefix.
Other ==
    /\ ~other /\ OtherFile \notin DOMAIN tree /\ Parent(OtherFile) \in DOMAIN tree
    /\ tree' = Put(tree, OtherFile, File("other"))
    /\ other' = TRUE
    /\ NoFault
    /\ UNCHANGED <<phase, hook, left, created, backups, rollback_dir, todo, captured, before, prehook, torn>>

Next ==
    \/ \E p \in DOMAIN left : InstallEntry(p) \/ EntryFails(p)
    \/ EtcVarDone \/ UndoLast \/ UndoStops \/ Undone
    \/ PreLink \/ PreLinkFails
    \/ Backup \/ BackupFails \/ RunStatement \/ StatementFails \/ HookDone
    \/ RestoreBackups \/ RestoreFails
    \/ Finalize \/ FinalizeFails \/ Cleanup
    \/ Other

Spec == Init /\ [][Next]_vars

----------------------------------------------------------------------------
(***************************************************************************)
(* Properties.                                                             *)
(***************************************************************************)
InPrefix(t) == Restrict(t, {p \in DOMAIN t : p = <<>> \/ p[1] # "Cellar"})

\* The directories with no file below them: unlink prunes one that is above a link of the
\* keg, whoever made it.
Hollow(t) == {p \in DOMAIN t : \A q \in Within(t, p) : t[q].kind = "dir"}

\* What is below a saved root comes back as it was, but a directory without its mode.
BelowRoot(p) == \E r \in DOMAIN backups : Under(r, p)
CameBack(p, now, was) == now = was \/ (BelowRoot(p) /\ now = Copied(was))

\* No root covers the directories above it, which a statement makes where they are missing, nor
\* the directory an InstallSymlink makes before its target is refused.
AboveRoot(p) == \E r \in DOMAIN backups : p \in Ancestors(r)
RefusedDirs == {Resolve(s.to, captured) : s \in {a \in PlainStatements(hook) :
    a.op = "InstallSymlink" /\ Allowed(a.to, captured) /\ ~Allowed(a.from, captured)}}
ForRefused(p) ==
    prehook # <<>> /\ \E d \in RefusedDirs : IsPath(d) /\ (p = d \/ p \in Ancestors(d))
Abandoned(p)  == AboveRoot(p) \/ ForRefused(p)

\* An install that failed and could undo its steps leaves every file and link of the prefix as it
\* found them and adds none: the undo log, the saved copies and unlink together miss nothing
\* and take nothing, if the hook removes no linked file of the keg and takes nothing out of
\* etc or var.  Directories may differ in four ways: unlink takes those without files and stops
\* below bin, lib and the like, a hook abandons some, and those below a root lose their mode.
FailureLeavesPrefix ==
    phase = "failed" /\ ~torn /\ ~other =>
        LET now == InPrefix(tree) IN
        /\ \A p \in DOMAIN now :
             \/ p \in DOMAIN before /\ CameBack(p, now[p], before[p])
             \/ now[p] = Dir /\ (p \in {<<d>> : d \in LINKABLE_DIRS} \/ Abandoned(p))
        /\ DOMAIN before \ DOMAIN now \subseteq Hollow(before)

\* Until the hook runs, no file of the user's in etc or var is lost or changed, whatever
\* the bottle brings and wherever it fails: what differs goes to <file>.default.  What
\* another program put into a directory the transaction made is not rolled back with it.
UserFilesKept ==
    /\ prehook = <<>> =>
         \A p \in DOMAIN before \ Hollow(before) : p \in DOMAIN tree /\ tree[p] = before[p]
    /\ other /\ (\A r \in DOMAIN backups : ~Under(r, OtherFile)) => OtherFile \in DOMAIN tree

\* The statements of a hook change the keg and what is below a saved root; elsewhere they only
\* add directories, above a root or for a link whose target is refused.
Reached(p) == IsPath(p) /\ (Under(keg_path, p) \/ BelowRoot(p))
HookStays ==
    RunStatement \/ StatementFails =>
        /\ \A p \in DOMAIN tree : ~Reached(p) => p \in DOMAIN tree' /\ tree'[p] = tree[p]
        /\ \A p \in DOMAIN tree' \ DOMAIN tree :
             \/ Reached(p)
             \/ /\ IsPath(p) /\ tree'[p] = Dir
                /\ AboveRoot(p) \/ (phase' = "undo_hook" /\ ForRefused(p))

\* Those that run to their end remove no file of the keg that was linked when the hook started.
KegStays == RunStatement => LinkedFiles(prehook) \subseteq LinkedFiles(tree')

\* The saved copies and unlink are enough for every statement of a hook, in a branch or not,
\* whatever it copies, links or removes and wherever it fails: no file out of their reach is
\* changed, and no directory but those no root covers.
HookConfined == [][HookStays /\ KegStays]_vars

\* Undoing a hook that failed restores the files and links the hook found, and the directories
\* but for modes and those it abandons, if the hook takes only from the keg or a root: a file it
\* moved out of etc or var is not among the saved copies.
PreHookState ==
    [][phase = "undo_hook" /\ ~torn' /\ ~other' =>
         LET was == InPrefix(prehook)  now == InPrefix(tree') IN
         /\ \A p \in DOMAIN was : p \in DOMAIN now /\ CameBack(p, now[p], was[p])
         /\ \A p \in DOMAIN now \ DOMAIN was : now[p] = Dir /\ Abandoned(p)]_vars

----------------------------------------------------------------------------
(***************************************************************************)
(* What the theorems ask of a start beyond StartAssumption.                *)
(***************************************************************************)
\* No link of the prefix leads into the keg: the formula is not linked yet.
NotYetLinked == \A s \in Starts : \A p \in DOMAIN s.tree : ~OurLink(s.tree, p)

\* No entry of .bottle needs a place that is taken: its .default is free and nobody
\* else's, and a link in the place of a file leads somewhere.
PlacesFree == \A s \in Starts : \A p \in DOMAIN s.bottle :
    /\ default_install_path(p) \notin DOMAIN s.tree \union DOMAIN s.bottle
    /\ \A q \in DOMAIN s.bottle : default_install_path(q) = default_install_path(p) => q = p
    /\ s.bottle[p].kind = "file" /\ p \in DOMAIN s.tree => Exists(s.tree, p)
=============================================================================
