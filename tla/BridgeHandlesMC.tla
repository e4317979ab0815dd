-------------------------- MODULE BridgeHandlesMC --------------------------
(* Three resources: one ended, one made after it, one taken by the other   *)
(* thread; guest code two deep.                                            *)
EXTENDS BridgeHandles
=============================================================================
