-------------------------- MODULE FlextoolContract --------------------------
(***************************************************************************)
(* What whoever starts flextool, a build say, may rely on, without its     *)
(* plugins, its arguments or its sources: files are made one at a time,    *)
(* and only files that were expected; each is open, and so incomplete,     *)
(* before it is announced; success stands for all of them, failure for     *)
(* none; where the process is stopped, what there was stays.  Module       *)
(* FlextoolSystem implements it.                                           *)
(***************************************************************************)

VARIABLES
  expected,  \* the files that the command line asks for: never changes
  outcome,   \* "running", or how the process ends
  files,     \* announced as saved
  broken     \* opened, and not yet, or never, completed

vars == <<expected, outcome, files, broken>>

Init ==
  /\ outcome = "running"
  /\ files = {}
  /\ broken = {}

\* An earlier file of that name goes, one made by this process from another source too.
Open ==
  /\ outcome = "running" /\ broken = {}
  /\ \E file \in expected : broken' = {file}
  /\ UNCHANGED <<expected, outcome, files>>

Close ==
  /\ outcome = "running" /\ broken # {}
  /\ files' = files \cup broken
  /\ broken' = {}
  /\ UNCHANGED <<expected, outcome>>

\* Announced although the disk is full; that is the end.
CloseBadly ==
  /\ outcome = "running" /\ broken # {}
  /\ files' = files \cup broken
  /\ outcome' = "stopped"
  /\ UNCHANGED <<expected, broken>>

\* EXIT_SUCCESS from main.
Succeed ==
  /\ outcome = "running"
  /\ files = expected /\ broken = {}
  /\ outcome' = "success"
  /\ UNCHANGED <<expected, files, broken>>

\* EXIT_FAILURE from main.
Fail ==
  /\ outcome = "running"
  /\ files = {} /\ broken = {}
  /\ outcome' = "failure"
  /\ UNCHANGED <<expected, files, broken>>

\* exit() or abort() where main does not get to return.
Stop ==
  /\ outcome = "running"
  /\ outcome' = "stopped"
  /\ UNCHANGED <<expected, files, broken>>

Next == Open \/ Close \/ CloseBadly \/ Succeed \/ Fail \/ Stop

Spec == Init /\ [][Next]_vars

=============================================================================
