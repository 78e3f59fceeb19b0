-------------------------- MODULE MCMetadataCache --------------------------
(***************************************************************************)
(* An index with every name, then one without any, which always counts as  *)
(* one to refresh.                                                         *)
(***************************************************************************)
EXTENDS MetadataCache

MCListed == [v \in 0 .. Last |-> IF v = 0 THEN Names ELSE {}]
=============================================================================
