----------------------- MODULE MCPostInstallLowering -----------------------
(***************************************************************************)
(* Hooks for TLC: every pair of the statements below in a formula with     *)
(* helpers, and the bodies of the formulas the schemas were made for.      *)
(***************************************************************************)
EXTENDS PostInstallLowering

TreeOf(nodes) ==
    nodes @@ [p \in {<<>>} \union UNION {Ancestors(q) : q \in DOMAIN nodes} |-> Dir]
MCKegPath == <<"Cellar", "foo">>
MCTrees == {TreeOf(MCKegPath :> Dir),
            TreeOf(<<"Cellar", "foo", "bin", "foo">> :> File("f") @@ <<"etc", "foo", "a">> :> File("a")
                   @@ <<"etc", "foo", "b">> :> Dir @@ <<"var", "x">> :> Link(<<"etc", "foo", "a">>))}
MCAttributes == "#name" :> "foo" @@ "#python" :> "python3"

E0(base)      == Expr(base, <<>>)
E1(base, name) == Expr(base, <<Lit(<<name>>)>>)
EtcA == Expr("etc", <<Lit(<<"foo", "a">>)>>)
EtcB == Expr("etc", <<Lit(<<"foo">>), Lit(<<"b">>)>>)
Odd  == Node("other", "each", NoExpr, <<>>, <<>>, <<>>)
Rm(e)             == Call(NoExpr, "rm", <<e>>)
Mk(e)             == Call(e, "mkpath", <<>>)
Helper(name)      == Call(NoExpr, name, <<>>)
IfOs(os, then, els) == Node("if_os", os, NoExpr, <<>>, then, els)
Unless(os, then)    == Node("unless_os", os, NoExpr, <<>>, then, <<>>)
IfExist(e, then, els) == Node("if_exist", "exist?", e, <<>>, then, els)
Value(e) == Node("value", "", e, <<>>, <<>>, <<>>)

Statements == {
    Mk(E1("var", "foo")), Call(NoExpr, "mkdir_p", <<Expr("pkgetc", <<Lit(<<"d">>), ParentOp>>)>>),
    Mk(Expr("etc", <<ParentOp>>)), Mk(Expr("HOMEBREW_PREFIX", <<Lit(<<"etc", "..">>)>>)), Mk(E1("etc", "..")),
    Mk(Expr("var", <<Attr("#name")>>)), Mk(E1("dir", "x")), Mk(E1("selfdir", "x")), Mk(E0("libexec")),
    Rm(EtcA), Call(NoExpr, "rm", <<EtcB, Force>>), Call(NoExpr, "rm", <<EtcB, Text>>), Call(NoExpr, "ohai", <<Text>>),
    Call(NoExpr, "cp", <<E1("bin", "foo"), EtcB>>), Call(NoExpr, "cp", <<EtcA, E1("Formula.pkgetc", "c")>>),
    Call(E1("etc", "foo"), "install", <<EtcA>>), Call(EtcA, "chmod", <<Mode>>), Call(EtcA, "chmod", <<Text>>),
    Call(EtcB, "atomic_write", <<Interpolated>>), Call(EtcA, "atomic_write", <<EtcA>>),
    Call(NoExpr, "quiet_system", <<E1("bin", "foo"), Text, EtcA>>), Call(NoExpr, "system", <<>>),
    Call(E0("ENV"), "[]=", <<Text, Interpolated>>), Call(E0("ENV"), "delete", <<Text>>),
    Node("assign", "safe_popen_read", NoExpr, <<E1("bin", "foo"), Text>>, <<>>, <<>>),
    IfExist(EtcA, <<Rm(EtcA)>>, <<>>), IfExist(EtcA, <<Rm(EtcB)>>, <<>>), IfExist(EtcA, <<Mk(EtcA)>>, <<Odd>>),
    IfExist(EtcB, <<IfOs("linux?", <<Odd>>, <<Mk(E1("var", "y"))>>), Helper("twice")>>, <<>>),
    IfExist(EtcB, <<Call(E0("bin"), "install_symlink", <<EtcA, EtcB>>), Odd>>, <<>>),
    IfOs("mac?", <<Rm(EtcB)>>, <<Odd>>), IfOs("linux?", <<Odd>>, <<>>), IfOs("mac?", <<>>, <<Mk(E1("var", "linux"))>>),
    Unless("mac?", <<Odd>>), Unless("linux?", <<Mk(E1("var", "z"))>>), Unless("linux?", <<Odd>>),
    Call(Expr("lib", <<Attr("#name")>>), "install_symlink", <<E1("bin", "foo")>>),
    Helper("twice"), Helper("loop"), Helper("ping"), Helper("arity"), Helper("rescued"), Helper("nobody"), Odd }

\* A method whose definition takes parameters, or rescues.
Helpers ==
    "twice" :> Method(<<Mk(E1("var", "t")), Helper("once")>>, {}) @@ "once" :> Method(<<Rm(E1("var", "x"))>>, {})
    @@ "loop" :> Method(<<Helper("loop")>>, {}) @@ "ping" :> Method(<<IfExist(EtcA, <<Helper("pong")>>, <<>>)>>, {})
    @@ "pong" :> Method(<<Helper("ping")>>, {}) @@ "dir" :> Method(<<Value(E1("var", "dir"))>>, {})
    @@ "selfdir" :> Method(<<Value(E0("selfdir"))>>, {})
    @@ "arity" :> [Method(<<>>, {}) EXCEPT !.signature = FALSE]
    @@ "rescued" :> [Method(<<>>, {}) EXCEPT !.container = FALSE]

Hook(body) == "post_install" :> Method(body, {}) @@ Helpers
MCPairs    == {Hook(<<a, b>>) : a, b \in Statements}

\* Bodies that a schema stands for: the marks and calls it looks for.
Marked(marks, calls, helpers) ==
    "post_install" :> Method([i \in DOMAIN calls |-> Call(NoExpr, calls[i], <<EtcA>>)], marks) @@ helpers
Named(names) == [n \in names |-> Method(<<>>, {})]
DataDirHelper == "postgresql_datadir" :> Method(<<Value(Expr("var", <<Attr("#name")>>))>>, {})
Pgs == {"datadir.mkpath", "initdb", "GITHUB_ACTIONS"}
MCSchemas == {
    Marked({"GDK_PIXBUF_MODULEDIR", "query-loaders"}, <<>>, <<>>),
    Marked(Pgs, <<>>, DataDirHelper), Marked(Pgs, <<>>, Named({"postgresql_datadir"})),
    Marked(Pgs \union {"each_child", ".find", "relative_path_from"}, <<>>, DataDirHelper),
    Marked({"write_config_files", "kernel_version", "Hardware::CPU"}, <<"write_config_files">>,
           Named({"clang_config_file_dir", "write_config_files"})),
    Marked({}, <<"rm", "rm_r">>, Named({"api_version", "rubygems_bindir"})),
    Marked({"HOMEBREW_PREFIX", "node_modules"}, <<"cp_r", "ln_sf">>, <<>>),
    Marked({"site_packages.mkpath", "ensurepip"}, <<"each">>, <<>>),
    Marked({"pecl_path.mkpath", "update-channels"}, <<"each">>, <<>>),
    Marked({"global_mime", "update-mime-database"}, <<"rm_r", "ln_sf", "cp", "system">>, <<>>),
    "post_install" :> Method(<<Mk(E1("var", "mysql")), Odd>>, {"mysql.mkpath", "my.cnf"}) }

MCHooks == MCPairs \union MCSchemas
=============================================================================
