--------------------------- MODULE MCFinalizeKeg ---------------------------
(***************************************************************************)
(* A keg, prefixes, bottles and hooks for TLC.  The hooks take their       *)
(* sources from the keg or from what has a root; some of them fail.        *)
(***************************************************************************)
EXTENDS FinalizeKeg, HookSchemas

\* The parents come with every path.
TreeOf(nodes) ==
    nodes @@ [p \in {<<>>} \union UNION {Ancestors(q) : q \in DOMAIN nodes} |-> Dir]

MCKegPath == <<"Cellar", "foo">>
InKeg(p)  == MCKegPath \o p
NpmDir    == <<"lib", "node_modules", "npm">>
Keg == TreeOf(InKeg(<<"bin", "foo">>) :> File("foo") @@ InKeg(<<"share", "foo", "doc">>) :> File("doc")
    @@ InKeg(<<"libexec", "a">>) :> File("a") @@ InKeg(<<"libexec", "b">>) :> File("b")
    @@ InKeg(<<"etc", "self">>) :> Link(<<"etc", "self">>))
SchemaKeg == TreeOf(InKeg(<<"bin", "npm">>) :> File("npm")
    @@ InKeg(<<"libexec">> \o NpmDir \o <<"man", "man1", "npm.1">>) :> File("man")
    @@ InKeg(<<"libexec">> \o NpmDir \o <<"man", "man5", "npmrc.5">>) :> File("man")
    @@ InKeg(<<"libexec">> \o NpmDir \o <<"bin", "npm-cli.js">>) :> File("cli")
    @@ InKeg(<<"share", "foo", "packages", "x.xml">>) :> File("x")
    @@ InKeg(<<"share", "foo", "cacert.pem">>) :> File("pem")
    @@ InKeg(<<"include", "postgresql", "pg.h">>) :> File("h"))
Pear(name) == InKeg(<<"share", "foo", "pear", name>>)
PhpKeg == TreeOf(Pear(".channels") \o <<".alias", "c">> :> File("c") @@ Pear(".filemap") :> File("f")
    @@ Pear(".lock") :> File("k") @@ Pear(".depdb") :> File("d") @@ Pear(".depdblock") :> File("k"))

Conf  == <<"etc", "foo", "conf">>
Private == [Dir EXCEPT !.mode = "set"]
Empty == TreeOf(<<"etc", "hosts">> :> File("h") @@ <<"var", "log">> :> File("l")
                  @@ <<"share", "man">> :> File("m") @@ <<"share", "foo", "bare">> :> Dir)
Configured == TreeOf(Conf :> File("mine") @@ <<"etc", "self">> :> File("s") @@ <<"bin", "sh">> :> File("sh")
                       @@ <<"var", "foo">> :> Private @@ <<"share", "foo", "own">> :> File("own"))
Shared == Configured @@ (<<"bin", "foo">> :> File("other"))
Prefixes == {Empty, Configured, Shared}

Bottles  == {<<>>, Conf :> File("new") @@ <<"var", "foo", "db">> :> Dir,
              Conf :> File("mine") @@ <<"etc", "foo", "cur">> :> Link(Conf),
              <<"etc", "foo">> :> Dir @@ <<"etc", "foo", "conf">> :> Link(<<"etc", "foo", "d">>)}
Brought  == {Conf :> File("new")}

Etc(p) == Path("Etc", p)
P(b)   == Path(b, <<>>)
Hooks == {
    <<Do("Mkpath", P("Etc"), Path("Var", <<"foo", "a", "b">>)), Do("WriteFile", P("Etc"), Etc(<<"foo", "conf">>))>>,
    <<Do("Copy", Path("Bin", <<"foo">>), Etc(<<"foo", "x">>)), Do("Chmod", P("Etc"), Etc(<<"foo", "x">>))>>,
    <<Do("InstallSymlink", Path("Bin", <<"foo">>), Etc(<<"foo">>)), Glob("GlobRemove", P("Etc"), Etc(<<"foo">>), {"conf"})>>,
    <<Do("ForceSymlink", Path("Share", <<"foo">>), Path("HomebrewPrefix", <<"bin", "sh">>))>>,
    <<Do("RemoveIfExists", P("Etc"), Path("Pkgetc", <<>>)), Do("RecursiveCopy", P("Pkgshare"), Path("Var", <<>>))>>,
    <<Do("RemoveIfExists", P("Etc"), Path("HomebrewPrefix", <<"share", "foo">>)),
      Do("CopyChildren", P("Share"), Path("Var", <<"foo">>))>>,
    <<Glob("GlobSymlink", P("Bin"), Path("Var", <<"foo">>), {"foo"}), Do("ChildrenSymlink", P("Bin"), Path("Var", <<"foo">>)),
      Glob("GlobChmod", P("Etc"), Path("Var", <<"foo">>), {"foo"})>>,
    <<Glob("MirrorTree", P("Share"), Path("Var", <<"foo">>), {"own"}), Do("MoveChildren", P("Libexec"), Path("Etc", <<"foo">>))>>,
    <<Do("Install", Path("Libexec", <<"a">>), Path("Var", <<"foo">>)), Do("Move", Path("Libexec", <<"b">>), Etc(<<"foo", "m">>))>>,
    <<If("Exists", Etc(<<"foo">>), <<Do("WriteFile", P("Etc"), Etc(<<"foo", "y">>))>>),
      If("Missing", Etc(<<"foo">>), <<Do("Mkpath", P("Etc"), Etc(<<"foo">>))>>)>>,
    <<If("ExistsAndNotSymlink", Etc(<<"foo">>), <<Do("RemoveIfExists", P("Etc"), Etc(<<"foo">>))>>),
      [If("", Etc(<<"foo">>), <<Do("WriteFile", P("Etc"), Etc(<<"foo", "z">>))>>) EXCEPT !.op = "IfEnv"],
      Do("SetEnv", P("Etc"), P("Etc"))>>,
    <<Do("System", Path("Bin", <<"foo">>), Etc(<<"foo", "made">>)), Do("ProcessCapture", P("Bin"), P("Bin"))>>,
    <<Do("WriteFile", P("Etc"), Etc(<<"foo", "k">>)), Do("WriteFile", P("Etc"), Path("HomebrewPrefix", <<"Library", "x">>))>>,
    <<Do("WriteFile", P("Etc"), Etc(<<"..", "etc", "foo", "u">>)), Do("WriteFile", P("Etc"), Etc(<<"..", "..", "x">>))>>,
    <<Do("WriteFile", P("Etc"), Etc(<<"foo", "k">>)), Do("InstallSymlink", Path("HomebrewPrefix", <<"Library", "x">>), Etc(<<"new", "d">>))>>,
    <<Do("Mkpath", P("Etc"), Path("HomebrewPrefix", <<"lib", "a", "b">>)), Do("ForceSymlink", Path("Bin", <<"foo">>), Path("HomebrewPrefix", <<"sbin", "d", "y">>))>>
}
\* The prefixes for the programs of the schemas have every directory that holds a root.
Home == TreeOf(<<"etc", "hosts">> :> File("h") @@ <<"var", "log">> :> Dir @@ <<"share", "man">> :> Dir
    @@ <<"include">> :> Dir @@ <<"bin", "sh">> :> File("sh") @@ <<"lib", "ruby", "gems", "3", "gems", "bundler-2">> :> File("b")
    @@ <<"lib", "python3">> :> Dir @@ <<"lib", "php">> :> Dir)
Lived == TreeOf(<<"etc", "clang", "own">> :> File("own") @@ <<"var", "foo", "PG_VERSION">> :> File("17")
    @@ <<"share", "mime">> :> Link(<<"share", "man">>) @@ <<"share", "man", "man1", "npm.1">> :> File("old")
    @@ <<"include", "foo">> :> File("odd") @@ <<"bin", "other">> :> File("o")
    @@ <<"lib", "ruby", "gems", "3", "bin", "bundle">> :> File("b") @@ NpmDir \o <<"old">> :> File("old")
    @@ <<"lib", "python3", "site-packages", "bin", "wheel">> :> File("w") @@ <<"lib", "php", "pecl">> :> Dir)
Homes == {Home, Lived}
SchemaHooks == {
    normalize_gdk_pixbuf(TRUE), mysql, llvm_clang_config, normalize_ruby_bundler_cleanup, normalize_node_npm_propagation,
    basic_postgresql(Path("Var", <<"#name">>)), postgresql(Path("Var", <<"#name">>), TRUE), normalize_shared_mime_info,
    normalize_python_site_packages, bundle_bootstrap,
    cert_symlink(Path("Pkgetc", <<>>), Path("FormulaPkgetc", <<"cert.pem">>)) }

MCStarts ==
    [tree : Prefixes, keg : {Keg}, bottle : Bottles, hook : Hooks \union {NoHook}]
      \union [tree : Homes, keg : {SchemaKeg}, bottle : Brought, hook : SchemaHooks]
      \union [tree : Homes, keg : {PhpKeg}, bottle : Brought, hook : {normalize_php_pear_schema}]

\* These starts are ones the theorems speak of.
ASSUME StartsAreFresh == NotYetLinked /\ PlacesFree

MCAttributes == "#name" :> "foo" @@ "#python" :> "python3" @@ "#wheel" :> "wheel3" @@ "#pip" :> "pip3" @@ "#api" :> "3"
    @@ "#darwin.cfg" :> "darwin24.cfg" @@ "#macosx.cfg" :> "macosx15.cfg" @@ "#major_minor" :> "8.4"
MCOtherFile == <<"etc", "foo", "other">>
MCOutputs   == {<<>>, <<"sh">>}
=============================================================================
