---------------------------- MODULE NapiCallsMC ----------------------------
(* Every path of every call in the providers' tables.                      *)
EXTENDS NapiCalls, V8Calls, QuickJsCalls
MCPaths == [v8 |-> V8Paths, qjs |-> QjsPaths]
=============================================================================
