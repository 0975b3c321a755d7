--------------------------- MODULE MCToolLifecycle ---------------------------
(* Two plugins: enough for one to be loaded without the other.  The inputs *)
(* of the process are all tried, so nothing else needs a bound.            *)
EXTENDS ToolLifecycle, TLC

PluginSymmetry == Permutations(Plugins)

=============================================================================
