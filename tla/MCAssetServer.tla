--------------------------- MODULE MCAssetServer ----------------------------
(* Small instances of AssetServer for TLC. *)
EXTENDS AssetServer, TLC

Symmetry == Permutations(Requests)
=============================================================================
