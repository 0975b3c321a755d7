--------------------------- MODULE PluginProtocol ---------------------------
(***************************************************************************)
(* What flextool promises its plugins, without the program around it.      *)
(* The plugins that Startup loads stay together: each event reaches all of *)
(* them or none, the interpreter (if there is one) comes before the        *)
(* annotation methods, those before the command, nothing comes twice, and  *)
(* after unload nothing comes.                                             *)
(***************************************************************************)
EXTENDS Sequences

CONSTANT Plugins

VARIABLE history  \* what happened to each plugin, in order

Steps == {"loaded", "connected", "RegisterClingInterpreter",
          "RegisterAnnotationMethods", "version", "unload"}

Last(p) == history[p][Len(history[p])]

Init == history = [p \in Plugins |-> <<>>]

Load ==
  /\ \A p \in Plugins : history[p] = <<>>
  /\ \E found \in SUBSET Plugins :
       history' = [p \in Plugins |-> IF p \in found THEN <<"loaded">> ELSE <<>>]

\* Every plugin that was loaded is where `from` says, and all go on together.
Advance(from, to) ==
  /\ \A p \in Plugins : history[p] # <<>> => Last(p) \in from
  /\ history' = [p \in Plugins |->
                   IF history[p] = <<>> THEN <<>> ELSE Append(history[p], to)]

Next ==
  \/ Load
  \/ Advance({"loaded"}, "connected")
  \/ Advance({"connected"}, "RegisterClingInterpreter")
  \/ Advance({"connected", "RegisterClingInterpreter"}, "RegisterAnnotationMethods")
  \/ Advance({"RegisterAnnotationMethods"}, "version")
  \/ Advance(Steps \ {"unload"}, "unload")

Spec == Init /\ [][Next]_history

=============================================================================
