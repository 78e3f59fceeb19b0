------------------------------ MODULE FileTree ------------------------------
(***************************************************************************)
(* A directory tree and the file operations the hook runtime uses.  A tree *)
(* maps each existing path, a sequence of names from the Homebrew prefix   *)
(* down, to what is there.  A link holds the path it leads to.             *)
(***************************************************************************)
EXTENDS Naturals, Sequences, FiniteSets, TLC
LOCAL INSTANCE SequencesExt
LOCAL INSTANCE Functions

Dir      == [kind |-> "dir",  text |-> "", mode |-> "rw", to |-> <<>>]
File(c)  == [kind |-> "file", text |-> c,  mode |-> "rw", to |-> <<>>]
Link(p)  == [kind |-> "link", text |-> "", mode |-> "rw", to |-> p]

Parent(p)    == Front(p)
Name(p)      == Last(p)
Ancestors(p) == {SubSeq(p, 1, n) : n \in 1 .. Len(p) - 1}
Under(d, p)  == IsPrefix(d, p)
Rebase(p, from, to) == to \o SubSeq(p, Len(from) + 1, Len(p))

\* Paths are sequences, and every path of a tree comes with the directories it is in.
IsPath(p) == p \in Seq({p[i] : i \in DOMAIN p})
IsTree(t) == \A p \in DOMAIN t : IsPath(p) /\ Ancestors(p) \subseteq DOMAIN t /\ IsPath(t[p].to)

Within(t, p)   == {q \in DOMAIN t : Under(p, q)}
Children(t, d) == {q \in DOMAIN t : Len(q) = Len(d) + 1 /\ Under(d, q)}

\* symlink_metadata sees the link itself, exists and is_dir follow it.
IsLink(t, p)  == p \in DOMAIN t /\ t[p].kind = "link"
Target(t, p)  == IF IsLink(t, p) THEN t[p].to ELSE p
Exists(t, p)  == Target(t, p) \in DOMAIN t
IsDir(t, p)   == Exists(t, p) /\ t[Target(t, p)].kind = "dir"
IsFile(t, p)  == Exists(t, p) /\ t[Target(t, p)].kind = "file"

\* f on top of g.
Over(f, g) == [p \in DOMAIN f \union DOMAIN g |-> IF p \in DOMAIN f THEN f[p] ELSE g[p]]
Dirs(S)    == [p \in S |-> Dir]

Put(t, p, node) == Over([q \in {p} |-> node], t)
remove_path_if_exists(t, p) == Restrict(t, DOMAIN t \ Within(t, p))

CanMkdir(t, p) == \A q \in Ancestors(p) \union {p} : q \in DOMAIN t => IsDir(t, q)
create_dir_all(t, p) == Over(t, Dirs(Ancestors(p) \union {p}))

\* std::fs::copy: both ends follow links.
CanCopyFile(t, from, to) ==
    /\ IsFile(t, from) /\ ~IsDir(t, to)
    /\ Parent(Target(t, to)) \in DOMAIN t
copy_file(t, from, to) == Put(t, Target(t, to), t[Target(t, from)])

\* copy_path: a tree, links as links; a link is never written over.
CanCopyPath(t, from, to) ==
    /\ from \in DOMAIN t /\ CanMkdir(t, Parent(to)) /\ ~Under(from, to)
    /\ \A q \in Within(t, from) :
         LET d == Rebase(q, from, to) IN
         CASE t[q].kind = "link" -> d \notin DOMAIN t
           [] t[q].kind = "dir"  -> d \in DOMAIN t => IsDir(t, d)
           [] OTHER              -> ~IsDir(t, d)
\* A directory is made anew: its mode is lost, or that of the one in its place stays.
Copied(node) == IF node.kind = "dir" THEN Dir ELSE node
copy_path(t, from, to) ==
    LET base   == create_dir_all(t, Parent(to))
        copies == {Rebase(q, from, to) : q \in Within(t, from)}
        stays(d) == d \in DOMAIN base /\ t[Rebase(d, to, from)].kind = "dir"
    IN  Over([d \in copies |-> IF stays(d) THEN base[d] ELSE Copied(t[Rebase(d, to, from)])], base)

CanRename(t, from, to) ==
    /\ from \in DOMAIN t /\ Parent(to) \in DOMAIN t /\ ~Under(from, to)
    /\ to \in DOMAIN t => (t[to].kind = "dir") = (t[from].kind = "dir") /\ Children(t, to) = {}
rename(t, from, to) ==
    LET moved == {Rebase(q, from, to) : q \in Within(t, from)}
        rest  == Restrict(t, DOMAIN t \ (Within(t, from) \union Within(t, to)))
    IN  Over([d \in moved |-> t[Rebase(d, to, from)]], rest)

\* rename, or copy and remove where it fails.
CanMove(t, from, to) == CanRename(t, from, to) \/ CanCopyPath(t, from, to)
move_path(t, from, to) ==
    IF CanRename(t, from, to) THEN rename(t, from, to)
    ELSE remove_path_if_exists(copy_path(t, from, to), from)
=============================================================================
