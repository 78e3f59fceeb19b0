------------------------ MODULE PostInstallLowering ------------------------
(***************************************************************************)
(* Lowering a formula's post_install (analysis/src/post_install.rs): the   *)
(* Ruby syntax tree is walked once, helpers are put in the place of their  *)
(* calls, whole methods of known shapes are replaced (schema.rs), and what *)
(* is not on the allowlist fails the hook.  Tier 1 is tried before Tier 2. *)
(*                                                                         *)
(* The recursion of lower_statement is a stack of work.  A statement is a  *)
(* node; a path, or any other argument, an expression: a base and what is  *)
(* joined to it.                                                           *)
(***************************************************************************)
EXTENDS HookSchemas
LOCAL INSTANCE SequencesExt

CONSTANTS
    Formulas,   \* the sources: method name |-> definition, "post_install" among them
    Trees,      \* the prefixes to compare two programs on
    MaxWork     \* bound: the length of the stack of work

ASSUME MaxWorkAssumption == MaxWork \in Nat

VARIABLES
    methods,    \* the formula: its method table
    tier,       \* "Static" or "WithAttributes"
    work,       \* what is still to lower, the next first
    helper_stack, \* the methods being lowered
    out,        \* the programs under construction, the innermost last
    status,     \* "lowering", "lowered" or "failed"
    schemas     \* history: the schemas recognized

vars == <<methods, tier, work, helper_stack, out, status, schemas>>

----------------------------------------------------------------------------
(***************************************************************************)
(* Syntax.                                                                 *)
(***************************************************************************)
\* What is joined: a literal (its parts), .parent, a formula attribute, or anything else.
Expr(base, ops) == [base |-> base, ops |-> ops]
Lit(parts)  == [op |-> "literal", parts |-> parts]
ParentOp    == [op |-> "parent", parts |-> <<>>]
Attr(name)  == [op |-> "attribute", parts |-> <<name>>]
NoExpr      == Expr("", <<>>)

Node(kind, name, recv, args, then, els) ==
    [kind |-> kind, name |-> name, recv |-> recv, args |-> args, then |-> then, els |-> els]
Call(recv, name, args) == Node("call", name, recv, args, <<>>, <<>>)
Method(body, marks)    == [body |-> body, marks |-> marks, signature |-> TRUE, container |-> TRUE]

\* Bases as they are written and as they are called; libexec is not among them.
parse_path_base ==
    "prefix" :> "Prefix" @@ "bin" :> "Bin" @@ "etc" :> "Etc" @@ "lib" :> "Lib" @@ "pkgetc" :> "Pkgetc"
    @@ "pkgshare" :> "Pkgshare" @@ "sbin" :> "Sbin" @@ "share" :> "Share" @@ "var" :> "Var"
    @@ "HOMEBREW_PREFIX" :> "HomebrewPrefix"
FormulaRefs == "Formula.pkgetc" :> "FormulaPkgetc" @@ "Formula.opt_bin" :> "FormulaOptBin"

Bad == Path("unsupported", <<>>)

validate_path_segment(part) == part \notin {".", ".."}

\* One step of parse_path_expr_ast.
JoinTo(t, path, o) ==
    CASE path = Bad         -> Bad
      [] o.op = "literal"   -> IF \A i \in DOMAIN o.parts : validate_path_segment(o.parts[i])
                               THEN [path EXCEPT !.segments = @ \o o.parts] ELSE Bad
      [] o.op = "parent"    -> IF path.segments = <<>> THEN Bad ELSE [path EXCEPT !.segments = Front(@)]
      [] o.op = "attribute" -> IF t = "Static" THEN Bad ELSE [path EXCEPT !.segments = @ \o o.parts]
      [] OTHER              -> Bad

\* parse_path_expr_text, the fallback: a literal is one segment, whatever is in it.
TextPath(e) ==
    IF /\ e.base \in DOMAIN parse_path_base
       /\ \A i \in DOMAIN e.ops : e.ops[i].op = "literal"
                                  /\ (Len(e.ops[i].parts) = 1 => validate_path_segment(e.ops[i].parts[1]))
    THEN Path(parse_path_base[e.base], FlattenSeq([i \in DOMAIN e.ops |-> e.ops[i].parts]))
    ELSE Bad

\* A helper that names a path has one expression; open holds the ones being expanded.
RECURSIVE parse_path_expr(_, _, _)
parse_helper_path_expr(t, name, open) ==
    IF /\ name \in DOMAIN methods \ open
       /\ methods[name].signature /\ methods[name].container
       /\ Len(methods[name].body) = 1 /\ methods[name].body[1].kind = "value"
    THEN parse_path_expr(t, methods[name].body[1].recv, open \union {name}) ELSE Bad

parse_path_expr(t, e, open) ==
    LET start == CASE e.base \in DOMAIN parse_path_base -> Path(parse_path_base[e.base], <<>>)
                   [] e.base \in DOMAIN FormulaRefs     -> Path(FormulaRefs[e.base], <<>>)
                   [] OTHER -> parse_helper_path_expr(t, e.base, open)
        ast   == FoldLeft(LAMBDA path, o : JoinTo(t, path, o), start, e.ops)
    IN  IF ast # Bad THEN ast ELSE TextPath(e)

PathOf(t, e) == parse_path_expr(t, e, {})
IsPathExpr(t, e) == PathOf(t, e) # Bad

----------------------------------------------------------------------------
(***************************************************************************)
(* Statements that lower by themselves (lower_call_statement).             *)
(***************************************************************************)
\* Arguments that are no paths: string literals, strings with HOMEBREW_PREFIX, modes.
Text == Expr("text", <<>>)  Interpolated == Expr("interpolated", <<>>)
Mode == Expr("mode", <<>>)  Force == Expr("force", <<>>)

IsContent(e)     == e \in {Text, Interpolated}
IsArgument(t, e) == e = Text \/ IsPathExpr(t, e)
Logging          == {"ohai", "opoo", "odebug"}
OnReceiver       == {"mkpath", "install_symlink", "atomic_write", "install", "chmod"}

IsHelperCall(n) ==
    /\ n.kind = "call" /\ n.recv = NoExpr
    /\ n.name \notin {"cp", "system", "quiet_system", "rm", "mkdir_p"} \union Logging
    /\ n.name \in DOMAIN methods

Supported(t, n) ==
    CASE n.kind = "assign" ->
           t = "WithAttributes" /\ n.name = "safe_popen_read" /\ n.args # <<>>
           /\ \A i \in DOMAIN n.args : IsArgument(t, n.args[i])
      [] n.kind # "call" -> FALSE
      [] n.recv.base = "ENV" -> n.name = "[]=" /\ Len(n.args) = 2 /\ n.args[1] = Text /\ IsContent(n.args[2])
      [] n.recv # NoExpr ->
           /\ IsPathExpr(t, n.recv) /\ n.name \in OnReceiver
           /\ n.name = "install_symlink" =>
                n.args # <<>> /\ \A i \in DOMAIN n.args : IsPathExpr(t, n.args[i])
           /\ n.name \in {"atomic_write", "install", "chmod"} => Len(n.args) = 1
           /\ n.name = "atomic_write" => IsContent(n.args[1])
           /\ n.name = "install" => IsPathExpr(t, n.args[1])
           /\ n.name = "chmod" => n.args[1] = Mode
      [] n.name = "cp" -> Len(n.args) = 2 /\ \A i \in 1 .. 2 : IsPathExpr(t, n.args[i])
      [] n.name \in {"system", "quiet_system"} ->
           n.args # <<>> /\ \A i \in DOMAIN n.args : IsArgument(t, n.args[i])
      [] n.name = "rm" -> /\ Len(n.args) \in 1 .. 2 /\ IsPathExpr(t, n.args[1])
                          /\ Len(n.args) = 2 => n.args[2] = Force
      [] n.name = "mkdir_p" -> Len(n.args) = 1 /\ IsPathExpr(t, n.args[1])
      [] OTHER -> n.name \in Logging

\* Of the arguments of a command the model keeps the command and the last path.
Paths(t, args) == SelectSeq([i \in DOMAIN args |-> PathOf(t, args[i])], LAMBDA p : p # Bad)
CommandOf(t, args) ==
    LET on == Paths(t, Tail(args)) IN
    System(IF IsPathExpr(t, args[1]) THEN PathOf(t, args[1]) ELSE Nothing,
           IF on = <<>> THEN Nothing ELSE Last(on))

Lowered(t, n) ==
    LET recv == PathOf(t, n.recv)  arg(i) == PathOf(t, n.args[i]) IN
    CASE n.kind = "assign"          -> <<[CommandOf(t, n.args) EXCEPT !.op = "ProcessCapture"]>>
      [] n.name = "[]="             -> <<SetEnv>>
      [] n.name = "mkpath"          -> <<Mkpath(recv)>>
      [] n.name = "install_symlink" -> [i \in DOMAIN n.args |-> Do("InstallSymlink", arg(i), recv)]
      [] n.name = "atomic_write"    -> <<WriteFile(recv)>>
      [] n.name = "install"         -> <<Do("Install", arg(1), recv)>>
      [] n.name = "chmod"           -> <<Chmod(recv)>>
      [] n.name = "cp"              -> <<Do("Copy", arg(1), arg(2))>>
      [] n.name \in {"system", "quiet_system"} -> <<CommandOf(t, n.args)>>
      [] n.name = "rm"              -> <<RemoveIfExists(arg(1))>>
      [] n.name = "mkdir_p"         -> <<Mkpath(arg(1))>>
      [] OTHER                      -> <<>>

----------------------------------------------------------------------------
(***************************************************************************)
(* Schemas.  Most are recognized by what the text of the body contains (its *)
(* marks), the methods of the formula and the calls visit_calls reaches:    *)
(* it looks into both branches of an if, not into unless or arguments.      *)
(***************************************************************************)
RECURSIVE visit_calls(_)
visit_calls(nodes) ==
    UNION {LET n == nodes[i] IN
           CASE n.kind = "call"                  -> {n}
             [] n.kind \in {"if_os", "if_exist"} -> visit_calls(n.then) \union visit_calls(n.els)
             [] OTHER                            -> {} : i \in DOMAIN nodes}

Shape(name, tier2, marks, without, needs, calls, program) ==
    [name |-> name, tier2 |-> tier2, marks |-> marks, without |-> without, needs |-> needs,
     calls |-> calls, program |-> program]

DataDir == parse_helper_path_expr("WithAttributes", "postgresql_datadir", {})

\* In the order of normalize_method_schema.
Shapes == <<
    Shape("gdk_pixbuf", FALSE, {"GDK_PIXBUF_MODULEDIR", "query-loaders"}, {}, {}, {}, normalize_gdk_pixbuf(TRUE)),
    Shape("basic_postgresql", TRUE, {"datadir.mkpath", "initdb", "GITHUB_ACTIONS"},
          {"each_child", "relative_path_from"}, {"postgresql_datadir"}, {}, basic_postgresql(DataDir)),
    Shape("postgresql", TRUE, {"each_child", ".find", "relative_path_from"}, {}, {"postgresql_datadir"}, {},
          postgresql(DataDir, "pg_version_exists?" \in DOMAIN methods)),
    Shape("mysql", FALSE, {"mysql.mkpath", "my.cnf"}, {}, {}, {}, mysql),
    Shape("llvm", TRUE, {"write_config_files", "kernel_version", "Hardware::CPU"}, {},
          {"clang_config_file_dir", "write_config_files"}, {}, llvm_clang_config),
    Shape("ruby_bundler", FALSE, {}, {}, {"api_version", "rubygems_bindir"}, {"rm", "rm_r"},
          normalize_ruby_bundler_cleanup),
    Shape("node_npm", FALSE, {"HOMEBREW_PREFIX", "node_modules"}, {}, {}, {"cp_r", "ln_sf"},
          normalize_node_npm_propagation),
    Shape("python", TRUE, {"site_packages.mkpath", "ensurepip"}, {}, {}, {}, normalize_python_site_packages),
    Shape("php_pear", TRUE, {"pecl_path.mkpath", "update-channels"}, {}, {}, {}, normalize_php_pear_schema),
    Shape("shared_mime", FALSE, {"global_mime", "update-mime-database"}, {}, {}, {"rm_r", "ln_sf", "cp", "system"},
          normalize_shared_mime_info) >>

MarksMatch(s, m) ==
    /\ s.tier2 => tier = "WithAttributes"
    /\ s.marks \subseteq m.marks /\ s.without \cap m.marks = {} /\ s.needs \subseteq DOMAIN methods
    /\ s.calls \subseteq {n.name : n \in visit_calls(m.body)}
    /\ s.name = "mysql" =>
         \E i \in DOMAIN m.body : /\ m.body[i].kind = "call" /\ m.body[i].name = "mkpath"
                                  /\ PathOf(tier, m.body[i].recv) = Path("Var", <<"mysql">>)

\* Both are read as Tier 1 whatever the tier.
matches_bundle_bootstrap(m) ==
    LET on(name, path) == \E n \in visit_calls(m.body) :
          n.name = name /\ n.recv # NoExpr /\ PathOf("Static", n.recv) = path
    IN  on("mkpath", At("Pkgetc")) /\ on("atomic_write", Path("Pkgetc", <<"cert.pem">>))

SymlinkCalls(m) == {i \in DOMAIN m.body : LET n == m.body[i] IN
                        n.kind = "call" /\ n.name = "install_symlink" /\ n.recv # NoExpr}
OneTarget(m)    == {i \in SymlinkCalls(m) : Len(m.body[i].args) = 1}

\* A path here that is no path is an error of the whole method.
CertSymlinkFails(m) ==
    \/ \E i \in SymlinkCalls(m) : ~IsPathExpr("Static", m.body[i].recv)
    \/ \E i \in OneTarget(m) : ~IsPathExpr("Static", m.body[i].args[1])

\* The last call of this form makes the program; the rest of the body is dropped.
CertSymlinkOf(m) ==
    LET last == CHOOSE i \in OneTarget(m) : \A j \in OneTarget(m) : j <= i
        n    == m.body[last]
    IN  cert_symlink(PathOf("Static", n.recv), PathOf("Static", n.args[1]))

Recognized(m) == {i \in DOMAIN Shapes : MarksMatch(Shapes[i], m)}

\* [name, program]: no name, no schema; the program is <<Bad>> where it is an error.
Normalized(m) ==
    CASE Recognized(m) # {} ->
           LET s == Shapes[CHOOSE i \in Recognized(m) : \A j \in Recognized(m) : i <= j] IN
           [name |-> s.name, program |-> IF "postgresql_datadir" \in s.needs /\ DataDir = Bad
                                         THEN <<Bad>> ELSE s.program]
      [] Recognized(m) = {} /\ matches_bundle_bootstrap(m) ->
           [name |-> "bundle_bootstrap", program |-> bundle_bootstrap]
      [] Recognized(m) = {} /\ ~matches_bundle_bootstrap(m) /\ CertSymlinkFails(m) ->
           [name |-> "cert_symlink", program |-> <<Bad>>]
      [] Recognized(m) = {} /\ ~matches_bundle_bootstrap(m) /\ ~CertSymlinkFails(m) /\ OneTarget(m) # {} ->
           [name |-> "cert_symlink", program |-> CertSymlinkOf(m)]
      [] OTHER -> [name |-> "", program |-> <<>>]

----------------------------------------------------------------------------
(***************************************************************************)
(* The walk.                                                               *)
(***************************************************************************)
Start == Call(NoExpr, "post_install", <<>>)
Leave(name) == Node("leave", name, NoExpr, <<>>, <<>>, <<>>)
Close(n)    == [n EXCEPT !.kind = "close"]

Init ==
    /\ methods \in Formulas
    /\ tier = "Static" /\ work = <<Start>> /\ helper_stack = {} /\ out = << <<>> >>
    /\ status = "lowering" /\ schemas = {}

Emit(statements) == out' = Append(Front(out), Last(out) \o statements)
Replace(nodes)   == work' = nodes \o Tail(work)
At_(kind)        == status = "lowering" /\ work # <<>> /\ Head(work).kind = kind
IsLeaf(n)        == n.kind \in {"call", "assign"} /\ ~IsHelperCall(n) /\ n # Start

LowerCall ==
    /\ status = "lowering" /\ work # <<>> /\ IsLeaf(Head(work)) /\ Supported(tier, Head(work))
    /\ Emit(Lowered(tier, Head(work))) /\ Replace(<<>>)
    /\ UNCHANGED <<methods, tier, helper_stack, status, schemas>>

\* Mutant: the parameters of a helper are not looked at.
CanEnterWithParameters(name) ==
    name \in DOMAIN methods /\ name \notin helper_stack /\ Len(work) <= MaxWork

\* lower_method: a method is lowered by its own shape first, then statement by statement.
CanEnter(name) ==
    /\ name \in DOMAIN methods /\ methods[name].signature /\ name \notin helper_stack
    /\ Len(work) <= MaxWork
IsPlain(name) == methods[name].container /\ Normalized(methods[name]).name = ""
HasSchema(name) == Normalized(methods[name]).name # "" /\ Normalized(methods[name]).program # <<Bad>>

\* Mutant: a method that is being lowered may be entered again.
EnterMethodAgain ==
    /\ status = "lowering" /\ work # <<>> /\ (IsHelperCall(Head(work)) \/ Head(work) = Start)
    /\ CanEnter(Head(work).name) /\ IsPlain(Head(work).name)
    /\ Replace(methods[Head(work).name].body)
    /\ UNCHANGED <<methods, tier, helper_stack, out, status, schemas>>

EnterMethod ==
    /\ status = "lowering" /\ work # <<>> /\ (IsHelperCall(Head(work)) \/ Head(work) = Start)
    /\ LET name == Head(work).name IN
       /\ CanEnter(name) /\ IsPlain(name)
       /\ Replace(Append(methods[name].body, Leave(name)))
       /\ helper_stack' = helper_stack \union {name}
    /\ UNCHANGED <<methods, tier, out, status, schemas>>

ReplaceMethod ==
    /\ status = "lowering" /\ work # <<>> /\ (IsHelperCall(Head(work)) \/ Head(work) = Start)
    /\ LET name == Head(work).name IN
       /\ CanEnter(name) /\ HasSchema(name)
       /\ Emit(Normalized(methods[name]).program)
       /\ schemas' = schemas \union {Normalized(methods[name]).name}
    /\ Replace(<<>>)
    /\ UNCHANGED <<methods, tier, helper_stack, status>>

\* Mutant: the name stays on the stack.
LeaveMethodKept ==
    /\ At_("leave") /\ Replace(<<>>)
    /\ UNCHANGED <<methods, tier, helper_stack, out, status, schemas>>

LeaveMethod ==
    /\ At_("leave") /\ Replace(<<>>)
    /\ helper_stack' = helper_stack \ {Head(work).name}
    /\ UNCHANGED <<methods, tier, out, status, schemas>>

\* On macOS the other branch is never a runtime path.
RuntimeBranch(n) ==
    IF n.kind = "if_os" THEN IF n.name = "mac?" THEN n.then ELSE n.els
    ELSE IF n.name = "linux?" THEN n.then ELSE <<>>

LowerOsBranch ==
    /\ At_("if_os") \/ At_("unless_os")
    /\ Replace(RuntimeBranch(Head(work)))
    /\ UNCHANGED <<methods, tier, helper_stack, out, status, schemas>>

OpenExist ==
    /\ At_("if_exist") /\ IsPathExpr(tier, Head(work).recv)
    /\ out' = Append(out, <<>>)
    /\ Replace(Append(Head(work).then, Close(Head(work))))
    /\ UNCHANGED <<methods, tier, helper_stack, status, schemas>>

\* Mutant: a branch that is one removal, of whatever path, is the removal itself.
CloseExistAny ==
    /\ At_("close") /\ Head(work).els = <<>>
    /\ LET condition == PathOf(tier, Head(work).recv)
           collapses == Len(Last(out)) = 1 /\ Last(out)[1].op = "RemoveIfExists"
           whole     == IF collapses THEN Last(out) ELSE <<If("Exists", condition, Last(out))>>
       IN  out' = Append(Front(Front(out)), Last(Front(out)) \o whole)
    /\ Replace(<<>>)
    /\ UNCHANGED <<methods, tier, helper_stack, status, schemas>>

\* A branch that only removes the path it tests is the removal itself.
CloseExist ==
    /\ At_("close") /\ Head(work).els = <<>>
    /\ LET condition == PathOf(tier, Head(work).recv)
           collapses == Last(out) = <<RemoveIfExists(condition)>>
           whole     == IF collapses THEN Last(out) ELSE <<If("Exists", condition, Last(out))>>
       IN  out' = Append(Front(Front(out)), Last(Front(out)) \o whole)
    /\ Replace(<<>>)
    /\ UNCHANGED <<methods, tier, helper_stack, status, schemas>>

Unsupported(n) ==
    CASE n.kind \in {"leave", "if_os", "unless_os"} -> FALSE
      [] n.kind = "close"     -> n.els # <<>>
      [] n.kind = "if_exist"  -> ~IsPathExpr(tier, n.recv)
      [] IsHelperCall(n) \/ n = Start -> ~CanEnter(n.name) \/ ~(IsPlain(n.name) \/ HasSchema(n.name))
      [] OTHER                -> ~Supported(tier, n)

\* run_post_install and the viability check: an error of Tier 1 is another try with Tier 2.
FallBack ==
    /\ status = "lowering" /\ tier = "Static" /\ work # <<>> /\ Unsupported(Head(work))
    /\ tier' = "WithAttributes" /\ work' = <<Start>> /\ helper_stack' = {} /\ out' = << <<>> >>
    /\ schemas' = {}
    /\ UNCHANGED <<methods, status>>

Fail ==
    /\ status = "lowering" /\ tier = "WithAttributes" /\ work # <<>> /\ Unsupported(Head(work))
    /\ status' = "failed"
    /\ UNCHANGED <<methods, tier, work, helper_stack, out, schemas>>

Finish ==
    /\ status = "lowering" /\ work = <<>>
    /\ status' = "lowered"
    /\ UNCHANGED <<methods, tier, work, helper_stack, out, schemas>>

Next ==
    \/ LowerCall \/ EnterMethod \/ ReplaceMethod \/ LeaveMethod \/ LowerOsBranch
    \/ OpenExist \/ CloseExist \/ FallBack \/ Fail \/ Finish

Spec == Init /\ [][Next]_vars /\ WF_vars(Next)

----------------------------------------------------------------------------
(***************************************************************************)
(* The feature census of a body (analyze_post_install_all), of every node. *)
(***************************************************************************)
RECURSIVE AllNodes(_)
AllNodes(nodes) ==
    UNION {{nodes[i]} \union AllNodes(nodes[i].then) \union AllNodes(nodes[i].els) : i \in DOMAIN nodes}

ExprFeatures(e) ==
    CASE e.base \in DOMAIN parse_path_base \union {"libexec"} -> {e.base}
      [] e.base \in DOMAIN FormulaRefs -> {"formula_ref"}
      [] e.base \in DOMAIN methods \ {"post_install"} -> {"helper_methods"}
      [] OTHER -> {}

visit_receiverless(name) ==
    CASE name \in {"system", "quiet_system"} -> {"system"}
      [] name \in {"cp", "rm", "mkdir_p"}    -> {name}
      [] name \in Logging                    -> {"log"}
      [] name \in DOMAIN methods \ {"post_install"} -> {"helper_methods"}
      [] OTHER -> {}

\* Mutant: the arguments of a call are not visited.
NodeFeaturesShallow(n) ==
    ExprFeatures(n.recv)
    \union CASE n.kind = "assign"                  -> {"process_capture"}
             [] n.kind \in {"if_os", "unless_os"}  -> {"os_condition"}
             [] n.kind = "if_exist"                -> {"path_condition"}
             [] n.recv.base = "ENV"                -> {"ENV"}
             [] n.recv # NoExpr                    -> {n.name} \cap OnReceiver
             [] OTHER                              -> visit_receiverless(n.name)

NodeFeatures(n) ==
    ExprFeatures(n.recv) \union UNION {ExprFeatures(n.args[i]) : i \in DOMAIN n.args}
    \union CASE n.kind = "assign"                  -> {"process_capture"}
             [] n.kind \in {"if_os", "unless_os"}  -> {"os_condition"}
             [] n.kind = "if_exist"                -> {"path_condition"}
             [] n.recv.base = "ENV"                -> {"ENV"}
             [] n.recv # NoExpr                    -> {n.name} \cap OnReceiver
             [] OTHER                              -> visit_receiverless(n.name)

Census == UNION {NodeFeatures(n) : n \in AllNodes(methods["post_install"].body)}

----------------------------------------------------------------------------
(***************************************************************************)
(* Properties.                                                             *)
(***************************************************************************)
\* What a body comes to on macOS, without tiers or schemas: helpers in the place of their calls.
RECURSIVE Meaning(_)
Meaning(nodes) ==
    FlattenSeq([i \in DOMAIN nodes |-> LET n == nodes[i] IN
        CASE n.kind \in {"if_os", "unless_os"} -> Meaning(RuntimeBranch(n))
          [] n.kind = "if_exist" -> <<If("Exists", PathOf(tier, n.recv), Meaning(n.then))>>
          [] IsHelperCall(n)     -> Meaning(methods[n.name].body)
          [] OTHER               -> Lowered(tier, n)])

\* Running a program: [ok, tree], the tree where it stopped.
RECURSIVE Perform(_, _)
Perform(program, t) ==
    LET one(r, s) ==
          LET from == Resolve(s.from, <<>>)  to == Resolve(s.to, <<>>) IN
          CASE ~r.ok                 -> r
            [] ~Admitted(s, <<>>)    -> [r EXCEPT !.ok = FALSE]
            [] s.op = "IfPath"       -> IF path_condition_matches(r.tree, to, s.kind)
                                        THEN Perform(s.then, r.tree) ELSE r
            [] s.op = "IfEnv"        -> Perform(s.then, r.tree)
            [] OTHER                 -> IF Runs(s, r.tree, from, to)
                                        THEN [r EXCEPT !.tree = Effect(s, @, from, to)]
                                        ELSE [r EXCEPT !.ok = FALSE]
    IN  FoldLeft(one, [ok |-> TRUE, tree |-> t], program)

\* Where no schema is recognized, the lowered program does on every prefix what the hook's
\* statements do in the order of the source, the removals it folded included.
SameEffect ==
    status = "lowered" /\ schemas = {} =>
        \A t \in Trees : Perform(out[1], t) = Perform(Meaning(methods["post_install"].body), t)

\* The nodes of a body that are reachable on macOS, and the methods they call.
RECURSIVE RuntimeNodes(_)
RuntimeNodes(nodes) ==
    UNION {LET n == nodes[i] IN
           CASE n.kind \in {"if_os", "unless_os"} -> RuntimeNodes(RuntimeBranch(n))
             [] n.kind = "if_exist" -> {n} \union RuntimeNodes(n.then)
             [] OTHER -> {n} : i \in DOMAIN nodes}
HelpersOf(name) == {n.name : n \in {x \in RuntimeNodes(methods[name].body) : IsHelperCall(x)}}
CalledFrom(names) ==
    LET more(S, i) == S \union UNION {HelpersOf(m) : m \in S}
    IN  FoldLeft(more, names, [i \in 1 .. Cardinality(DOMAIN methods) |-> i])
Reached   == CalledFrom({"post_install"})
Recursive == \E m \in Reached : m \in CalledFrom(HelpersOf(m))

Allowlisted(t) ==
    /\ Reached \subseteq DOMAIN methods
    /\ \A m \in Reached :
         /\ methods[m].signature /\ methods[m].container
         /\ \A n \in RuntimeNodes(methods[m].body) :
              \/ IsHelperCall(n)
              \/ n.kind = "if_exist" /\ n.els = <<>> /\ IsPathExpr(t, n.recv)
              \/ n.kind # "if_exist" /\ Supported(t, n)
    /\ ~Recursive

\* architecture.md: unsupported nodes in a reachable branch, recursive helpers and helpers
\* with parameters fail the hook, wherever they hide.  A method that a schema stands for is
\* out of its reach: what it does besides is dropped.
FailsClosed == status = "lowered" /\ schemas = {} => Allowlisted(tier)

\* post_install.rs: Tier 2 "allows symbolic formula attributes": a hook made of supported
\* statements is lowered, and nodes that exist only in a non-runtime branch do not fail it.
\* The exception is a link whose ends have attributes: the schema of cert.pem reads it as Tier 1.
Accepted ==
    status = "failed" =>
        ~Allowlisted("WithAttributes") \/ \E m \in Reached : CertSymlinkFails(methods[m])

\* Every hook is decided: a helper that calls itself, by whatever way, does not go on for ever.
Terminates == <>(status \in {"lowered", "failed"})

\* The census of a hook names every operation and every base of the program it lowers to,
\* or says that helpers are used.
OpFeature == "Mkpath" :> {"mkpath", "mkdir_p"} @@ "InstallSymlink" :> {"install_symlink"}
    @@ "WriteFile" :> {"atomic_write"} @@ "Install" :> {"install"} @@ "Chmod" :> {"chmod"}
    @@ "Copy" :> {"cp"} @@ "RemoveIfExists" :> {"rm"} @@ "System" :> {"system"} @@ "SetEnv" :> {"ENV"}
    @@ "ProcessCapture" :> {"process_capture"} @@ "IfPath" :> {"path_condition"}
BaseFeature(base) == {b \in DOMAIN parse_path_base : parse_path_base[b] = base}
                     \union (IF base \in {"FormulaPkgetc", "FormulaOptBin"} THEN {"formula_ref"} ELSE {})
CensusExplains ==
    status = "lowered" /\ schemas = {} /\ "helper_methods" \notin Census =>
        \A i \in DOMAIN out[1] : LET s == out[1][i] IN
            /\ OpFeature[s.op] \cap Census # {}
            /\ \A p \in {s.from, s.to} \ {Nothing} : BaseFeature(p.base) \cap Census # {}
=============================================================================
