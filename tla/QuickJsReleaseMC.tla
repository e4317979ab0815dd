-------------------------- MODULE QuickJsReleaseMC --------------------------
(* Four registrations of any kind: a value whose finalizer makes, frees or *)
(* withdraws another, and two that wait for their turn.                    *)
EXTENDS QuickJsRelease
MCKinds == {"hook", "ref", "store", "instance"}
=============================================================================
