--------------------------- MODULE MCShadowCanvas ---------------------------
(***************************************************************************)
(* Instances of ShadowCanvas for TLC.  Three rows are the least for which  *)
(* the order of the rows in copyShadow matters, and the two sizes differ   *)
(* in both directions.                                                     *)
(***************************************************************************)
EXTENDS ShadowCanvas

InsideSizes == {<<2, 3>>, <<3, 1>>}
=============================================================================
