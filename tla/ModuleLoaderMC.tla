--------------------------- MODULE ModuleLoaderMC ---------------------------
(* Three modules make a chain to a synthetic module, a cycle, and a module *)
(* two others import; script nests twice.                                  *)
EXTENDS ModuleLoader, TLC
ModuleSymmetry == Permutations(Modules)
=============================================================================
