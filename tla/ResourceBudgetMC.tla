-------------------------- MODULE ResourceBudgetMC --------------------------
(* Two stores share a budget with room for one default env and a growth    *)
(* step, or two small envs: reservations, growth and guest charges compete. *)
EXTENDS ResourceBudget
=============================================================================
