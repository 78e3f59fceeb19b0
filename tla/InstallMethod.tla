--------------------------- MODULE InstallMethod ---------------------------
(***************************************************************************)
(* What is decided about one formula before anything is installed: whether *)
(* it is supported, the bottle that fits the host, or the source build     *)
(* that takes its place (formula/src/bottle_selection.rs, supportability.rs *)
(* and core/src/source_build.rs).                                          *)
(***************************************************************************)
EXTENDS Naturals, Sequences, FiniteSets

CONSTANTS
    host_tag,    \* the platform: a tag
    cellar_path, \* the Cellar of this prefix
    XcodeMajor   \* the Xcode installed, 0 for none

\* arm64_sonoma is Tag("arm64", "sonoma"); the tag "all" has no arch.
Tag(arch, codename) == [arch |-> arch, codename |-> codename]
All                 == Tag("", "all")
TagSet              == [arch : STRING, codename : STRING]

APPLE_SILICON_CODENAMES == <<"tahoe", "sequoia", "sonoma", "ventura", "monterey", "big_sur">>
MACOS_VERSIONS == {<<26, "tahoe">>, <<15, "sequoia">>, <<14, "sonoma">>, <<13, "ventura">>, <<12, "monterey">>, <<11, "big_sur">>}

\* HostTag::detect: the one architecture there is, and a version of the table.
ASSUME HostTagAssumption == \E v \in MACOS_VERSIONS : host_tag = Tag("arm64", v[2])

\* The major version, 0 for a codename that is not in the table.
macos_major(tag) ==
    IF \E v \in MACOS_VERSIONS : v[2] = tag.codename
    THEN (CHOOSE v \in MACOS_VERSIONS : v[2] = tag.codename)[1] ELSE 0

Position(codename) == CHOOSE i \in DOMAIN APPLE_SILICON_CODENAMES : APPLE_SILICON_CODENAMES[i] = codename

\* Mutant: every codename of the table, the host's among them.
bottle_candidatesAll(host) ==
    Append([i \in DOMAIN APPLE_SILICON_CODENAMES |-> Tag("arm64", APPLE_SILICON_CODENAMES[i])], All)

bottle_candidates(host) ==
    IF host.arch = "arm64" /\ \E i \in DOMAIN APPLE_SILICON_CODENAMES : APPLE_SILICON_CODENAMES[i] = host.codename
    THEN Append([i \in 1 .. Len(APPLE_SILICON_CODENAMES) - Position(host.codename) + 1 |->
                    Tag("arm64", APPLE_SILICON_CODENAMES[Position(host.codename) + i - 1])], All)
    ELSE IF host = All THEN <<All>> ELSE <<host, All>>

(***************************************************************************)
(* A formula: files maps tags to cellars (":any", ":any_skip_relocation"   *)
(* or a path); bottle is versions.bottle; a requirement is [name, version] *)
(* with version 0 for none.                                                *)
(***************************************************************************)
NoBottle == Tag("", "")
Candidates == bottle_candidates(host_tag)
\* The first candidate that there is a file for.
select_bottle(f) ==
    LET fits == {i \in DOMAIN Candidates : Candidates[i] \in DOMAIN f.files}
    IN  IF fits = {} THEN NoBottle ELSE Candidates[CHOOSE i \in fits : \A j \in fits : i <= j]

is_compatible(cellar) == cellar \in {":any", ":any_skip_relocation", cellar_path}

Supported == "ok"
check_supportability(f) ==
    CASE f.disabled -> "Disabled"
      [] ~f.disabled /\ f.pour_bottle_only_if \notin {"", "clt_installed", "default_prefix"} -> "PourBottleRestricted"
      [] OTHER -> IF (f.bottle /\ select_bottle(f) # NoBottle) \/ f.source # "" THEN Supported
                  ELSE IF f.bottle THEN "NoBottleForTag" ELSE "NoBottle"

\* A bare name is not checked any further.
is_satisfied_system_requirement(r) ==
    CASE r.name \in {"arch", "macos", "maximum_macos", "xcode"} /\ r.version = "" -> TRUE
      [] r.name = "arch"          -> r.version = host_tag.arch
      [] r.name = "macos"         -> macos_major(host_tag) > 0 /\ macos_major(host_tag) >= r.major
      [] r.name = "maximum_macos" -> macos_major(host_tag) > 0 /\ macos_major(host_tag) <= r.major
      [] r.name = "xcode"         -> XcodeMajor > 0 /\ XcodeMajor >= r.major
      [] OTHER                    -> FALSE

build_source_plan(f) ==
    CASE \E i \in DOMAIN f.requirements : ~is_satisfied_system_requirement(f.requirements[i]) -> "UnsupportedRequirement"
      [] OTHER -> IF f.source = "" THEN "UnsupportedSourceArchive"
                  ELSE IF ~f.checksum THEN "MissingSourceChecksum"
                  ELSE IF f.source # "tar.gz" THEN "UnsupportedSourceArchive" ELSE "Source"

\* "Bottle", "Source" or the error.
resolve_install_method(f) ==
    LET tag == select_bottle(f) IN
    CASE tag # NoBottle /\ is_compatible(f.files[tag]) -> "Bottle"
      [] tag # NoBottle /\ ~is_compatible(f.files[tag]) /\ f.source = "" -> "IncompatibleCellar"
      [] tag = NoBottle /\ f.source = "" -> "NoBottleForTag"
      [] OTHER -> build_source_plan(f)

Installable(f) == resolve_install_method(f) \in {"Bottle", "Source"}

plan_dependencies(f) ==
    f.dependencies \o IF resolve_install_method(f) = "Source" THEN f.build_dependencies ELSE <<>>
=============================================================================
