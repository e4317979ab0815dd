--------------------------- MODULE HandleScopesMC ---------------------------
(* Three slots of two generations, four scopes: ids are reused and wrap,   *)
(* and calls nest with scopes left open between them.                      *)
EXTENDS HandleScopes
=============================================================================
