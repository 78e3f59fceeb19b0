---------------------------- MODULE HookProgram ----------------------------
(***************************************************************************)
(* A lowered post_install program (cellar/src/post_install): what a path   *)
(* expression names, what each statement does to the tree, and the roots   *)
(* that are saved before the program runs.                                 *)
(***************************************************************************)
EXTENDS FileTree
LOCAL INSTANCE SequencesExt

CONSTANTS
    formula_name, keg_path,     \* the formula and the path of its keg
    dependency,                 \* the formula a Formula["..."] names
    Captured,                   \* the path segment #{out} of a captured output
    Attributes                  \* a segment with formula attributes |-> its value at run time

ASSUME KegAssumption == IsPath(keg_path) /\ Len(keg_path) >= 2 /\ keg_path[1] = "Cellar"

\* A path expression: a base and segments; a statement, its fields by name.
Path(base, segments) == [base |-> base, segments |-> segments]

BasePath(base) ==
    CASE base = "Prefix"         -> keg_path
      [] base = "Bin"            -> keg_path \o <<"bin">>
      [] base = "Lib"            -> keg_path \o <<"lib">>
      [] base = "Libexec"        -> keg_path \o <<"libexec">>
      [] base = "Sbin"           -> keg_path \o <<"sbin">>
      [] base = "Share"          -> keg_path \o <<"share">>
      [] base = "Pkgshare"       -> keg_path \o <<"share", formula_name>>
      [] base = "Etc"            -> <<"etc">>
      [] base = "Var"            -> <<"var">>
      [] base = "Pkgetc"         -> <<"etc", formula_name>>
      [] base = "FormulaPkgetc"  -> <<"etc", dependency>>
      [] base = "FormulaOptBin"  -> <<"opt", dependency, "bin">>
      [] base = "HomebrewPrefix" -> <<>>

\* An output that was not captured yet is the empty segment, which adds nothing.
resolve_segment(segment, out) ==
    CASE segment = Captured             -> out
      [] segment \in DOMAIN Attributes -> <<Attributes[segment]>>
      [] OTHER                          -> <<segment>>

Outside == <<"..">>

\* resolve_path and normalize_absolute_path: ".." takes the segment before it away.
Resolve(expr, out) ==
    LET push(path, segment) ==
          CASE path = Outside -> Outside
            [] segment = ".." -> IF path = <<>> THEN Outside ELSE Parent(path)
            [] OTHER          -> path \o resolve_segment(segment, out)
    IN  FoldLeft(push, BasePath(expr.base), expr.segments)

ALLOWED_PREFIX_DIRS == {"etc", "var", "share", "bin", "sbin", "lib", "include", "opt"}

path_is_allowed(path) ==
    \/ Under(keg_path, path)
    \/ path # <<>> /\ path[1] \in ALLOWED_PREFIX_DIRS

Allowed(expr, out) == path_is_allowed(Resolve(expr, out))

path_condition_matches(t, p, kind) ==
    CASE kind = "Exists"              -> Exists(t, p)
      [] kind = "Missing"             -> ~Exists(t, p)
      [] kind = "Symlink"             -> IsLink(t, p)
      [] kind = "ExistsAndNotSymlink" -> Exists(t, p) /\ ~IsLink(t, p)

----------------------------------------------------------------------------
(***************************************************************************)
(* Statements.  from and to are path expressions, pattern a set of names.  *)
(***************************************************************************)
Do(op, from, to)   == [op |-> op, from |-> from, to |-> to, pattern |-> {}, kind |-> "", then |-> <<>>]
Glob(op, from, to, names) == [Do(op, from, to) EXCEPT !.pattern = names]
If(kind, path, then)      == [Do("IfPath", path, path) EXCEPT !.kind = kind, !.then = then]

OneLink(t, link, target) == Put(remove_path_if_exists(t, link), link, Link(target))
install_symlink_path(link_dir, target) == Append(link_dir, Name(target))

\* The same change for every member of a set of paths, in any order.
ForAll(S, t, change(_, _)) == FoldLeft(change, t, SetToSeq(S))

Matching(t, d, names) == {q \in Children(t, d) : Name(q) \in names}

\* mirror_tree_walk: directories become directories, everything else a link into the source.
MirrorOne(t, q, source, dest) ==
    LET d == Rebase(q, source, dest) IN
    IF t[q].kind # "dir" THEN OneLink(create_dir_all(t, Parent(d)), d, q)
    ELSE IF IsDir(t, d) /\ ~IsLink(t, d) THEN t
    ELSE create_dir_all(remove_path_if_exists(t, d), d)

Walked(t, source, prune_names) ==
    IF IsDir(t, source)
    THEN {q \in Within(t, source) \ {source} :
            ~\E n \in Len(source) + 1 .. Len(q) : q[n] \in prune_names}
    ELSE {}

\* The directory a statement makes before anything else.
Makes(s, to) ==
    CASE s.op \in {"Mkpath", "InstallSymlink", "CopyChildren", "GlobSymlink", "ChildrenSymlink",
                   "Install", "MoveChildren"}           -> to
      [] s.op \in {"Copy", "ForceSymlink", "WriteFile", "Move"} -> Parent(to)
      [] OTHER                                            -> <<>>

\* What it goes through one by one.
Entries(s, t, from, to) ==
    CASE s.op \in {"GlobRemove", "GlobChmod"} -> Matching(t, to, s.pattern)
      [] s.op = "GlobSymlink"                 -> Matching(t, from, s.pattern)
      [] s.op \in {"CopyChildren", "ChildrenSymlink", "MoveChildren"} -> Children(t, from)
      [] s.op = "MirrorTree"                  -> Walked(t, from, s.pattern)
      [] OTHER                                 -> {}

CanEntry(s, t, q, to) ==
    CASE s.op = "GlobChmod"    -> Exists(t, q)
      [] s.op = "CopyChildren" -> CanCopyPath(t, q, Append(to, Name(q)))
      [] s.op = "MoveChildren" -> CanMove(t, q, Append(to, Name(q)))
      [] OTHER                  -> TRUE

EachEntry(s, t, from, to, S) ==
    CASE s.op = "GlobRemove"   -> ForAll(S, t, remove_path_if_exists)
      [] s.op = "GlobChmod"    -> ForAll(S, t, LAMBDA u, q : [u EXCEPT ![Target(u, q)].mode = "set"])
      [] s.op = "GlobSymlink"  -> ForAll(S, t, LAMBDA u, q : OneLink(u, Append(to, Name(q)), q))
      [] s.op = "ChildrenSymlink" -> ForAll(S, t, LAMBDA u, q : OneLink(u, Append(to, Name(q) \o "-1"), q))
      [] s.op = "CopyChildren" -> ForAll(S, t, LAMBDA u, q : copy_path(u, q, Append(to, Name(q))))
      [] s.op = "MoveChildren" -> ForAll(S, t, LAMBDA u, q : move_path(u, q, Append(to, Name(q))))
      [] s.op = "MirrorTree"   ->
           FoldLeft(LAMBDA u, q : MirrorOne(u, q, from, to), t,
                    SetToSortSeq(S, LAMBDA p, q : Len(p) < Len(q)))
      [] OTHER                  -> t

\* Whether a statement whose paths resolve to from and to can run on t.  InstallSymlink makes
\* its directory before it looks at its target.
Runs(s, t, from, to) ==
    LET made == create_dir_all(t, Makes(s, to)) IN
    /\ CanMkdir(t, Makes(s, to))
    /\ \A q \in Entries(s, made, from, to) : CanEntry(s, made, q, to)
    /\ CASE s.op = "Copy"           -> CanCopyFile(made, from, to)
         [] s.op = "WriteFile"      -> ~IsDir(t, to)
         [] s.op = "Chmod"          -> Exists(t, to)
         [] s.op = "InstallSymlink" -> path_is_allowed(from)
         [] s.op = "RecursiveCopy"  -> CanCopyPath(t, from, Append(to, Name(from)))
         [] s.op = "Install"        -> CanRename(made, from, Append(to, Name(from)))
         [] s.op = "Move"           -> CanMove(made, from, to)
         [] OTHER                   -> TRUE

\* The tree after it.
Effect(s, t, from, to) ==
    LET made == create_dir_all(t, Makes(s, to)) IN
    CASE s.op = "Copy"           -> copy_file(made, from, to)
      [] s.op = "RemoveIfExists" -> remove_path_if_exists(t, to)
      [] s.op = "InstallSymlink" -> OneLink(made, install_symlink_path(to, from), from)
      [] s.op = "ForceSymlink"   -> OneLink(made, to, from)
      [] s.op = "RecursiveCopy"  -> copy_path(t, from, Append(to, Name(from)))
      [] s.op = "WriteFile"      -> Put(made, Target(t, to), File("written"))
      [] s.op = "Chmod"          -> [t EXCEPT ![Target(t, to)].mode = "set"]
      [] s.op = "Install"        -> rename(made, from, Append(to, Name(from)))
      [] s.op = "Move"           -> move_path(made, from, to)
      [] OTHER                   -> EachEntry(s, made, from, to, Entries(s, made, from, to))

\* A child process changes what its last argument names, or nothing.
Commanded(t, to) ==
    {t} \union IF CanMkdir(t, Parent(to)) /\ ~IsDir(t, to)
                THEN {Put(create_dir_all(t, Parent(to)), Target(t, to), File("made"))} ELSE {}

\* A copy that stops half way has some of the entries.
Copying(t, from, dest) ==
    IF from \in DOMAIN t /\ t[from].kind = "dir" /\ CanMkdir(t, dest)
    THEN LET made == create_dir_all(t, dest)
             can  == {q \in Children(t, from) : CanCopyPath(made, q, Append(dest, Name(q)))}
         IN  {ForAll(S, made, LAMBDA u, q : copy_path(u, q, Append(dest, Name(q)))) : S \in SUBSET can}
    ELSE {}

\* What only some statements leave: part of a file, no link in the place of an old one, part
\* of a tree removed or copied.
Halfway(s, t, from, to) ==
    CASE s.op \in {"Copy", "WriteFile"} ->
           IF IsDir(t, to) THEN {} ELSE {Put(t, Target(t, to), File("partial"))}
      [] s.op = "ForceSymlink"   -> {remove_path_if_exists(t, to)}
      [] s.op = "InstallSymlink" ->
           IF path_is_allowed(from) THEN {remove_path_if_exists(t, install_symlink_path(to, from))} ELSE {}
      [] s.op = "RemoveIfExists" -> {ForAll(S, t, remove_path_if_exists) : S \in SUBSET Children(t, to)}
      [] s.op = "RecursiveCopy"  -> Copying(t, from, Append(to, Name(from)))
      [] s.op = "Move"           -> Copying(t, from, to)
      [] s.op = "System"         -> Commanded(t, to)
      [] OTHER                   -> {}

\* The trees a statement may leave that fails: some of its directories, then some of its entries.
Partly(s, t, from, to) ==
    LET d    == Makes(s, to)
        made == create_dir_all(t, d)
        can  == {q \in Entries(s, made, from, to) : CanEntry(s, made, q, to)}
    IN  {t} \union
        IF ~CanMkdir(t, d) THEN {}
        ELSE {create_dir_all(t, SubSeq(d, 1, n)) : n \in 1 .. Len(d)}
               \union {EachEntry(s, made, from, to, S) : S \in SUBSET can}
               \union Halfway(s, made, from, to)
               \union (IF Runs(s, t, from, to) THEN {Effect(s, t, from, to)} ELSE {})

\* The statements that look at both their paths before they do anything.
TwoPaths == {"Copy", "ForceSymlink", "RecursiveCopy", "CopyChildren", "GlobSymlink",
             "ChildrenSymlink", "Install", "Move", "MoveChildren", "MirrorTree", "System"}
Admitted(s, out) == Allowed(s.to, out) /\ (s.op \in TwoPaths => Allowed(s.from, out))

----------------------------------------------------------------------------
(***************************************************************************)
(* What run_with_rollback saves.                                           *)
(***************************************************************************)
rollback_root(p) ==
    CASE Under(keg_path, p) \/ p = <<>> -> {}
      [] OTHER -> IF Len(p) > 1 /\ p[1] \in {"etc", "var", "share"} THEN {SubSeq(p, 1, 2)} ELSE {p}

\* A path that is not allowed has no root: the statement will fail when it runs.
RootsOf(expr) == IF Allowed(expr, <<>>) THEN rollback_root(Resolve(expr, <<>>)) ELSE {}

\* collect_statement_roots, with no output captured yet.
PlainRoots(s) ==
    CASE s.op \in {"SetEnv", "ProcessCapture"} -> {}
      [] s.op = "InstallSymlink" ->
           IF Allowed(s.to, <<>>) /\ Allowed(s.from, <<>>)
           THEN rollback_root(install_symlink_path(Resolve(s.to, <<>>), Resolve(s.from, <<>>)))
           ELSE {}
      [] OTHER -> RootsOf(s.to)

\* Mutant: what a conditional guards has no roots.
BranchesSkipped(S) == {s \in S : s.op \notin {"IfPath", "IfEnv"}}

\* What a conditional guards has roots whether it will run or not.  They nest at most twice.
Branches(S) ==
    UNION {IF s.op \in {"IfPath", "IfEnv"} THEN {s.then[i] : i \in DOMAIN s.then} ELSE {s} : s \in S}
PlainStatements(program) == Branches(Branches({program[i] : i \in DOMAIN program}))

collapse_nested_roots(R) == {r \in R : \A q \in R : Under(q, r) => q = r}

collect_rollback_roots(program) ==
    collapse_nested_roots(UNION {PlainRoots(s) : s \in PlainStatements(program)})
=============================================================================
