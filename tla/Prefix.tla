------------------------------- MODULE Prefix -------------------------------
(***************************************************************************)
(* The Homebrew-visible prefix (/opt/homebrew) as bd sees and changes it:  *)
(* for every formula its kegs in the Cellar, the opt link, the symlinks in *)
(* bin, lib, ..., and the install receipt.  The operators are the          *)
(* functions of crates/cellar and of core/src/finalize.rs that the staged  *)
(* executor (module InstallPipeline) calls.                                *)
(*                                                                         *)
(* Two versions of a formula are told apart: "new", the one the metadata   *)
(* names as the latest and the only one bd ever installs, and "old", an    *)
(* outdated one that was installed before.  bd never deletes an old keg.   *)
(***************************************************************************)
EXTENDS Naturals, FiniteSets

CONSTANTS
    Formula,    \* the formulae of the metadata index
    KegOnly     \* those marked keg_only: never linked into the prefix

ASSUME KegOnlyAssumption == KegOnly \subseteq Formula

VARIABLES
    oldKeg,     \* oldKeg[f]: Cellar/f/<old> exists, with its receipt
    keg,        \* keg[f]: Cellar/f/<new>: absent, there but not fit for use, ready
    tmp,        \* tmp[f]: Cellar/f/.<new>.brewdock-tmp exists
    receipt,    \* receipt[f]: INSTALL_RECEIPT.json of the new keg
    opt,        \* opt[f]: the version opt/f points to
    links       \* links[f][v]: symlinks of the prefix that resolve into keg v

prefix == <<oldKeg, keg, tmp, receipt, opt, links>>

Version   == {"old", "new"}
LinkState == {"none", "partial", "full"}

PrefixTypeOK ==
    /\ oldKeg  \in [Formula -> BOOLEAN]
    /\ keg     \in [Formula -> {"absent", "raw", "ready"}]
    /\ tmp     \in [Formula -> BOOLEAN]
    /\ receipt \in [Formula -> {"none", "torn", "valid"}]
    /\ opt     \in [Formula -> {"none"} \union Version]
    /\ links   \in [Formula -> [Version -> LinkState]]

----------------------------------------------------------------------------
(***************************************************************************)
(* Reading the prefix: find_installed_keg follows opt/f to a keg of f and  *)
(* reads its receipt.  A receipt that does not parse is an error, not an   *)
(* absent keg.                                                             *)
(***************************************************************************)
Visible(f) ==
    CASE opt[f] = "old" /\ oldKeg[f]            -> "old"
      [] opt[f] = "new" /\ receipt[f] = "valid" -> "new"
      [] OTHER                                  -> "none"

Installed(f) == Visible(f) # "none"
Unreadable(f) == opt[f] = "new" /\ receipt[f] = "torn"

----------------------------------------------------------------------------
(***************************************************************************)
(* Changing it.  The keg and its receipt are one directory, so removing or *)
(* replacing the keg loses the receipt.                                    *)
(***************************************************************************)
Other(v) == IF v = "old" THEN "new" ELSE "old"

KegExists(f, v) == IF v = "old" THEN oldKeg[f] ELSE keg[f] # "absent"

\* check_link_collision: both versions of a formula ship the same file names.
Linkable(f, v) == f \notin KegOnly /\ KegExists(f, v)
Collides(f, v) == Linkable(f, v) /\ links[f][Other(v)] # "none"

\* link: every entry of the keg's linkable directories, in order.
LinkKeg(f, v) ==
    links' = IF Linkable(f, v) THEN [links EXCEPT ![f][v] = "full"] ELSE links

\* link that stops at some entry: the symlinks made so far stay.
LinkPartly(f, v) ==
    Linkable(f, v) /\ links' = [links EXCEPT ![f][v] = "partial"]

\* unlink walks the files of the keg: a keg that is gone has nothing to walk.
Unlinked(f, v) ==
    IF KegExists(f, v) THEN [links EXCEPT ![f][v] = "none"] ELSE links

\* unlink that stops at some entry.
UnlinkPartly(f, v) ==
    /\ KegExists(f, v) /\ links[f][v] # "none"
    /\ links' = [links EXCEPT ![f][v] = "partial"]

\* Mutant of CleanupFailedInstall: the keg goes first, so unlink finds nothing.
CleanupKegFirst(f) ==
    /\ opt'     = [opt EXCEPT ![f] = "none"]
    /\ keg'     = [keg EXCEPT ![f] = "absent"]
    /\ receipt' = [receipt EXCEPT ![f] = "none"]
    /\ tmp'     = [tmp EXCEPT ![f] = FALSE]
    /\ UNCHANGED <<oldKeg, links>>

\* cleanup_failed_install: the opt link goes whatever it points to.
CleanupFailedInstall(f) ==
    /\ links'   = Unlinked(f, "new")
    /\ opt'     = [opt EXCEPT ![f] = "none"]
    /\ keg'     = [keg EXCEPT ![f] = "absent"]
    /\ receipt' = [receipt EXCEPT ![f] = "none"]
    /\ tmp'     = [tmp EXCEPT ![f] = FALSE]
    /\ UNCHANGED oldKeg

\* Removing the keg, cut short: some of its files are left, the receipt perhaps.
RemoveKegPartly(f) ==
    /\ keg[f] # "absent"
    /\ \/ /\ keg' = [keg EXCEPT ![f] = "absent"]
          /\ receipt' = [receipt EXCEPT ![f] = "none"]
       \/ /\ keg' = [keg EXCEPT ![f] = "raw"]
          /\ receipt' \in {receipt, [receipt EXCEPT ![f] = "none"]}

\* cleanup_failed_install, cut short: links, opt link, keg, temporary keg.
CleanupPartly(f) ==
    \/ /\ UnlinkPartly(f, "new") \/ links' = Unlinked(f, "new")
       /\ UNCHANGED <<keg, receipt, opt>>
    \/ /\ links' = Unlinked(f, "new")
       /\ opt' = [opt EXCEPT ![f] = "none"]
       /\ RemoveKegPartly(f) \/ UNCHANGED <<keg, receipt>>

\* Mutant of RefreshOptLink: link and target swapped, opt/f points to itself.
RefreshOptLinkSwapped(f, v) == opt' = [opt EXCEPT ![f] = f]

\* refresh_opt_link, and the last part of materialize: an atomic replace.
RefreshOptLink(f, v) == opt' = [opt EXCEPT ![f] = v]

\* write_receipt into the new keg.
WriteReceipt(f) == receipt' = [receipt EXCEPT ![f] = "valid"]
=============================================================================
