---------------------------- MODULE HookSchemas ----------------------------
(***************************************************************************)
(* The programs that analysis/src/post_install/schema.rs puts in the place *)
(* of a hook it recognizes.  A glob pattern is the set of names it matches *)
(* among the names that occur; a string argument and a mode are left out.  *)
(* A name in #name form is an interpolated segment.  Left out are the      *)
(* errors of a version that is not found (helper_string_literal,           *)
(* extract_resource_version): the hook is then not lowered at all.         *)
(***************************************************************************)
EXTENDS HookProgram

HP(segments)  == Path("HomebrewPrefix", segments)
At(base)      == Path(base, <<>>)
Nothing       == At("Prefix")

append_segment(path, segment) == [path EXCEPT !.segments = Append(@, segment)]

Mkpath(p)         == Do("Mkpath", Nothing, p)
RemoveIfExists(p) == Do("RemoveIfExists", Nothing, p)
WriteFile(p)      == Do("WriteFile", Nothing, p)
Chmod(p)          == Do("Chmod", Nothing, p)
SetEnv            == Do("SetEnv", Nothing, Nothing)
\* The command and what its path arguments name.
System(command, on) == Do("System", command, on)
IfEnvUnset(then)    == [If("", Nothing, then) EXCEPT !.op = "IfEnv"]

normalize_gdk_pixbuf(ownTool) ==
    <<SetEnv, System(IF ownTool THEN Path("Bin", <<"query-loaders">>) ELSE Path("FormulaOptBin", <<"query-loaders">>),
                     Nothing)>>

\* From the three directories of a keg, links into HOMEBREW_PREFIX/<dir>/<name>.
postgresql_mirror_trees(sub) ==
    [i \in 1 .. 3 |-> LET dir == <<"include", "lib", "share">>[i] IN
       Glob("MirrorTree", Path("Prefix", <<dir>> \o sub), HP(<<dir, "#name">>), {".DS_Store"})]

postgresql_ci_guard(datadir, check_pg_version) ==
    LET initdb == <<System(Path("Bin", <<"initdb">>), datadir)>> IN
    IfEnvUnset(IF check_pg_version
               THEN <<If("Missing", append_segment(datadir, "PG_VERSION"), initdb)>> ELSE initdb)

basic_postgresql(datadir) ==
    <<Mkpath(Path("Var", <<"log">>)), Mkpath(datadir)>>
    \o postgresql_mirror_trees(<<>>) \o <<postgresql_ci_guard(datadir, TRUE)>>

postgresql(datadir, check_pg_version) ==
    <<Mkpath(Path("Var", <<"log">>)), Mkpath(datadir)>>
    \o postgresql_mirror_trees(<<"postgresql">>)
    \o <<Do("ChildrenSymlink", At("Bin"), HP(<<"bin">>)), postgresql_ci_guard(datadir, check_pg_version)>>

mysql == <<Mkpath(Path("Var", <<"mysql">>))>>

llvm_clang_config ==
    <<Mkpath(Path("Etc", <<"clang">>))>>
    \o [i \in 1 .. 2 |-> WriteFile(Path("Etc", <<"clang", <<"#darwin.cfg", "#macosx.cfg">>[i]>>))]

normalize_ruby_bundler_cleanup ==
    LET gems(sub) == HP(<<"lib", "ruby", "gems", "#api">> \o sub) IN
    <<RemoveIfExists(gems(<<"bin", "bundle">>)), RemoveIfExists(gems(<<"bin", "bundler">>)),
      Glob("GlobRemove", Nothing, gems(<<"gems">>), {"bundler-2"})>>

normalize_node_npm_propagation ==
    LET node_modules == <<"lib", "node_modules">>
        npm          == node_modules \o <<"npm">>
        cli(name, js) == Do("ForceSymlink", HP(npm \o <<"bin", js>>), Path("Bin", <<name>>))
        tool(name)    == Do("ForceSymlink", Path("Bin", <<name>>), HP(<<"bin", name>>))
        man(section)  == LET dir == HP(<<"share", "man", section>>) IN
          <<Mkpath(dir), Glob("GlobRemove", Nothing, dir, {"npm.1", "npmrc.5"}),
            Glob("GlobSymlink", HP(npm \o <<"man", section>>), dir, {"npm.1", "npmrc.5"})>>
    IN  <<Mkpath(HP(node_modules)), If("Exists", HP(npm), <<RemoveIfExists(HP(npm))>>),
          Do("RecursiveCopy", Path("Libexec", npm), HP(node_modules)),
          cli("npm", "npm-cli.js"), cli("npx", "npx-cli.js"), tool("npm"), tool("npx")>>
        \o man("man1") \o man("man5") \o man("man7") \o <<WriteFile(HP(npm \o <<"npmrc">>))>>

normalize_shared_mime_info ==
    LET global_mime == HP(<<"share", "mime">>)  cellar_mime == Path("Share", <<"mime">>)
        packages == append_segment(global_mime, "packages")
    IN  <<If("Symlink", global_mime, <<RemoveIfExists(global_mime)>>),
          If("ExistsAndNotSymlink", cellar_mime, <<RemoveIfExists(cellar_mime)>>),
          Do("ForceSymlink", global_mime, cellar_mime), Mkpath(packages),
          Do("CopyChildren", Path("Pkgshare", <<"packages">>), packages),
          System(Path("Bin", <<"update-mime-database">>), global_mime)>>

normalize_python_site_packages ==
    LET site_packages == HP(<<"lib", "#python", "site-packages">>)
        lib_cellar    == Path("Prefix", <<"Frameworks", "#python">>)
        in_bin(name)  == Path("Bin", <<name>>)
        in_cellar     == append_segment(lib_cellar, "site-packages")
        in_site_bin   == append_segment(site_packages, "bin")
        libexec_bin   == Path("Libexec", <<"bin">>)
        tool(short, long) == <<Do("InstallSymlink", in_bin(long), libexec_bin),
                               Do("ForceSymlink", append_segment(libexec_bin, short), HP(<<"bin", short>>))>>
    IN  <<Mkpath(site_packages), If("Exists", in_cellar, <<RemoveIfExists(in_cellar)>>),
          Do("InstallSymlink", site_packages, lib_cellar),
          RemoveIfExists(append_segment(site_packages, "sitecustomize.pyc")),
          RemoveIfExists(append_segment(site_packages, "sitecustomize.pyo")),
          System(in_bin("#python"), Nothing), System(in_bin("#python"), append_segment(site_packages, "pip")),
          Do("MoveChildren", in_site_bin, At("Bin")), RemoveIfExists(in_site_bin),
          RemoveIfExists(in_bin("pip")), RemoveIfExists(in_bin("pip3")), Do("Move", in_bin("wheel"), in_bin("#wheel"))>>
        \o tool("pip", "#pip") \o tool("pip3", "#pip") \o tool("wheel", "#wheel") \o tool("wheel3", "#wheel")

\* The arguments below opt/php, a link into the keg, are left out.
normalize_php_pear_schema ==
    LET pkg_pear(name) == Path("Pkgshare", <<"pear", name>>)
        channels == pkg_pear(".channels")
        aliases  == append_segment(channels, ".alias")
        pecl     == HP(<<"lib", "php", "pecl">>)
        ext_dir  == append_segment(pecl, Captured)
        pear     == HP(<<"share", "pear">>)
        in_pear(name) == append_segment(pear, name)
        config(path)  == System(Path("Bin", <<"pear">>), path)
    IN  <<Chmod(channels), Chmod(aliases), Glob("GlobChmod", Nothing, channels, {"c", ".alias"}),
          Glob("GlobChmod", Nothing, aliases, {"c"}), Chmod(pkg_pear(".depdblock")), Chmod(pkg_pear(".filemap")),
          Chmod(pkg_pear(".depdb")), Chmod(pkg_pear(".lock")), Mkpath(pecl),
          If("Missing", Path("Prefix", <<"pecl">>), <<Do("ForceSymlink", pecl, Path("Prefix", <<"pecl">>))>>),
          Do("ProcessCapture", Path("Bin", <<"php-config">>), Nothing), Mkpath(ext_dir),
          Do("RecursiveCopy", Path("Pkgshare", <<"pear">>), HP(<<"share">>)),
          Mkpath(pear), Mkpath(in_pear("doc")), Mkpath(ext_dir), Mkpath(in_pear("data")), Mkpath(in_pear("cfg")),
          Mkpath(in_pear("htdocs")), Mkpath(in_pear("test")),
          config(Path("Etc", <<"php", "#major_minor", "php.ini">>)), config(pear), config(in_pear("doc")), config(ext_dir),
          config(in_pear("data")), config(in_pear("cfg")), config(in_pear("htdocs")), config(HP(<<"share", "man">>)),
          config(in_pear("test")), config(Nothing)>>

bundle_bootstrap ==
    <<Mkpath(At("Pkgetc")), Do("Copy", Path("Pkgshare", <<"cacert.pem">>), Path("Pkgetc", <<"cert.pem">>))>>

cert_symlink(link_dir, target) ==
    <<RemoveIfExists(append_segment(link_dir, "cert.pem")), Do("InstallSymlink", target, link_dir)>>
=============================================================================
