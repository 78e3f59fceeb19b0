---------------------------- MODULE ContentStore ----------------------------
(***************************************************************************)
(* What a content-addressed store promises (TODO.md: "publish it to        *)
(* blob/store only after checksum-complete success so other formulae       *)
(* cannot observe partial payload state"): an entry appears all at once,   *)
(* with all of its content, and disappears all at once.                    *)
(***************************************************************************)
CONSTANT Sha            \* the digests that name the entries

VARIABLE content        \* content[s]: what a reader of entry s finds

Init == content \in [Sha -> {"none", "whole"}]

Publish(s) ==
    /\ content[s] = "none"
    /\ content' = [content EXCEPT ![s] = "whole"]

Discard(s) ==
    /\ content[s] = "whole"
    /\ content' = [content EXCEPT ![s] = "none"]

Next == \E s \in Sha : Publish(s) \/ Discard(s)

Spec == Init /\ [][Next]_content
=============================================================================
