-------------------------- MODULE MCResolveOrder --------------------------
(***************************************************************************)
(* Indexes for TLC: every graph of three formulae, with a fourth that only *)
(* a source build needs; and one formula in every form.                    *)
(***************************************************************************)
EXTENDS ResolveOrder, TLC

MCHost == Tag("arm64", "sonoma")

Formula(deps, build, source) ==
    [disabled |-> FALSE, pour_bottle_only_if |-> "", bottle |-> ~source, source |-> "tar.gz", checksum |-> TRUE,
     files |-> IF source THEN <<>> ELSE MCHost :> ":any", requirements |-> <<>>,
     dependencies |-> deps, build_dependencies |-> build]

Three == {"a", "b", "c"}
Lists == {<<>>, <<"a">>, <<"b">>, <<"c">>, <<"a", "b">>, <<"c", "b">>, <<"a", "c">>, <<"b", "c", "a">>}
Edges == UNION {[S -> Lists] : S \in SUBSET Three}
\* "b" is built from source, with build dependencies; "x" is disabled.
Entry(n, deps) ==
    IF n = "b" THEN Formula(deps, <<"c", "x">>, TRUE) ELSE Formula(deps, <<"b">>, FALSE)
Graphs == {[n \in DOMAIN g \union {"x"} |-> IF n = "x" THEN Formula(<<>>, <<>>, FALSE) ELSE Entry(n, g[n])] : g \in Edges}
MCRequests == {<<"a">>, <<"b", "a", "b">>}

\* The index while it is read: "c" loses its dependencies or gets others.
MCReplacements == {c \in Graphs : Three \subseteq DOMAIN c /\ c["a"].dependencies = <<"b">>
                                      /\ c["b"].dependencies \in {<<>>, <<"c">>}
                                      /\ c["c"].dependencies \in {<<>>, <<"a">>, <<"b">>}}

Cellars == {":any", "/opt/homebrew/Cellar", "/usr/local/Cellar"}
Tags == {Tag("arm64", "sequoia"), MCHost, Tag("arm64", "ventura"), Tag("arm64", "linux"), All}
Requirement(name, version, major) == [name |-> name, version |-> version, major |-> major]
Requirements == {<<>>} \union {<<r>> : r \in {
    Requirement("linux", "", 0), Requirement("xcode", "", 0), Requirement("xcode", "16", 16),
    Requirement("arch", "x86_64", 0), Requirement("macos", "13", 13), Requirement("macos", "15", 15),
    Requirement("maximum_macos", "13", 13)}}

\* One formula in every form: all bottles it may have; all that else decides, with few bottles.
Form(disabled, pour, bottle, source, files, requirements) ==
    "a" :> [disabled |-> disabled, pour_bottle_only_if |-> pour, bottle |-> bottle, source |-> source,
            checksum |-> source # "", files |-> files, requirements |-> requirements,
            dependencies |-> <<>>, build_dependencies |-> <<>>]
Forms ==
    {Form(FALSE, "", TRUE, source, files, <<>>) :
        source \in {"", "tar.gz"}, files \in UNION {[S -> Cellars] : S \in SUBSET Tags}}
    \union {Form(disabled, pour, bottle, source, files, requirements) :
        disabled \in BOOLEAN, pour \in {"", "clt_installed", "other"}, bottle \in BOOLEAN,
        source \in {"", "tar.gz", "tar.xz"}, files \in {<<>>, MCHost :> "/usr/local/Cellar", All :> ":any"},
        requirements \in Requirements}

MCCatalogs == Graphs \union Forms
=============================================================================
