--------------------------- MODULE MCPluginWorkers ---------------------------
(* One plugin, two requests of operators at once. *)
EXTENDS PluginWorkers

CONSTANTS o1, o2

TwoOperators == {o1, o2}
=============================================================================
