--------------------------- MODULE MCUserManager ---------------------------
(***************************************************************************)
(* UserManager for TLC.  Users and credentials are interchangeable: every  *)
(* definition treats the ids alike, and the credentials too, and the       *)
(* checked properties are invariants, so the permutations are sound.       *)
(***************************************************************************)
EXTENDS UserManager, TLC

Symmetry == Permutations(Ids) \cup Permutations(Creds)
=============================================================================
