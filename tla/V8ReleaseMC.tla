----------------------------- MODULE V8ReleaseMC -----------------------------
(* Three registrations of any kind; the hook holds at most two drains.     *)
EXTENDS V8Release
MCKinds == {"hook", "ref", "store", "memory", "token", "instance"}
=============================================================================
