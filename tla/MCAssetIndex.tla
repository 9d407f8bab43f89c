---------------------------- MODULE MCAssetIndex ----------------------------
(* Small instances of AssetIndex for TLC. *)
EXTENDS AssetIndex, TLC
=============================================================================
