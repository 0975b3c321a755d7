------------------------ MODULE ToolLifecycleProofs ------------------------
(***************************************************************************)
(* Proofs about ToolLifecycle for every set of plugins.                    *)
(***************************************************************************)
EXTENDS ToolLifecycle, SequenceTheorems, TLAPS

-----------------------------------------------------------------------------
(* Type correctness.                                                       *)

LEMMA MembersKnown ==
  /\ Len(Members) = 11
  /\ Objects = {"cmd_env", "base_env", "plug_mgr", "main_events_dispatcher",
                "annotationMethods", "sourceTransformPipeline", "annotationParser",
                "anotationMatchHandler", "annotationMatchOptions", "fileSaveHandler",
                "clingInterpreter"}
<1>1. DOMAIN Members = 1..11
  BY DEF Members
<1>2. \A i : i \in 1..11 <=> i \in {1, 2, 3, 4, 5, 6, 7, 8, 9, 10, 11}
  OBVIOUS
<1> QED
  BY <1>1, <1>2 DEF Members, Objects

LEMMA OutDirTyped ==
  ASSUME NEW dir \in Dirs, NEW kind
  PROVE  OutDir(kind, dir) \in Dirs
BY DEF OutDir, Dirs

LEMMA TellTyped ==
  ASSUME TypeOK, NEW listeners, NEW event \in Events, NEW objects, objects \subseteq Objects,
         Tell(listeners, event, objects)
  PROVE  /\ heard' \in [Plugins -> Seq(Events)]
         /\ given' \in [Plugins -> SUBSET Objects]
<1>1. \A p \in Plugins : heard[p] \in Seq(Events) /\ given[p] \in SUBSET Objects
  BY DEF TypeOK
<1>2. \A p \in Plugins : Append(heard[p], event) \in Seq(Events)
  BY <1>1, AppendProperties
<1>3. \A p \in Plugins : given[p] \cup objects \in SUBSET Objects
  BY <1>1
<1> QED
  BY <1>1, <1>2, <1>3 DEF Tell

\* The events that carry no pointers.
LEMMA TellNothing ==
  ASSUME TypeOK, NEW listeners, NEW event \in Events, Tell(listeners, event, {})
  PROVE  /\ heard' \in [Plugins -> Seq(Events)]
         /\ given' \in [Plugins -> SUBSET Objects]
<1>1. \A p \in Plugins : heard[p] \in Seq(Events) /\ given[p] \in SUBSET Objects
  BY DEF TypeOK
<1>2. \A p \in Plugins : Append(heard[p], event) \in Seq(Events)
  BY <1>1, AppendProperties
<1>3. \A p \in Plugins : given[p] \cup {} \in SUBSET Objects
  BY <1>1
<1> QED
  BY <1>1, <1>2, <1>3 DEF Tell

LEMMA TypeOKInit == Init => TypeOK
<1> SUFFICES ASSUME Init PROVE TypeOK
  OBVIOUS
<1>1. <<>> \in Seq(Events)
  OBVIOUS
<1>2. heard \in [Plugins -> Seq(Events)] /\ given \in [Plugins -> SUBSET Objects]
  BY <1>1 DEF Init
<1>3. alive \in SUBSET Objects
  BY MembersKnown DEF Init, BuiltByConstructors
<1>4. slot \in 0..Len(Members) /\ slot # 0
  BY MembersKnown DEF Init
<1> QED
  BY <1>2, <1>3, <1>4 DEF Init, TypeOK, InitPcs, Dirs, Statuses

\* What the outcomes of a step do to pc and status.
LEMMA OutcomeTyped ==
  /\ \A how \in Statuses : Return(how) \/ End(how) =>
       pc' \in {"teardown", "exited"} /\ status' \in Statuses
  /\ FailInit => pc' \in {"teardown", "exited"} /\ status' \in Statuses
BY DEF Return, End, FailInit, Statuses

LEMMA TypeOKNext == TypeOK /\ [Next]_vars => TypeOK'
<1> SUFFICES ASSUME TypeOK, [Next]_vars PROVE TypeOK'
  OBVIOUS
<1> USE DEF pluginVars, Continue
<1> USE DEF InitPcs, CommandPcs, EndPcs
<1>1. CASE InitCmd
  BY <1>1, OutcomeTyped DEF InitCmd, TypeOK
<1>2. CASE InitBase
  BY <1>2, OutcomeTyped, OutDirTyped DEF InitBase, Statuses, TypeOK
<1>3. CASE ConnectManager
  BY <1>3, OutcomeTyped DEF ConnectManager, TypeOK
<1>4. CASE SendInit
  <2>1. Tell(connected, "Init", {}) /\ UNCHANGED <<managerConnected, loaded, connected>>
    BY <1>4 DEF SendInit, Trigger, TypeOK
  <2>2. heard' \in [Plugins -> Seq(Events)] /\ given' \in [Plugins -> SUBSET Objects]
    BY <2>1, TellNothing DEF Events
  <2> QED
    BY <1>4, <2>1, <2>2, OutcomeTyped DEF SendInit, TypeOK, Statuses
<1>5. CASE StartUpPlugins
  BY <1>5 DEF StartUpPlugins, TypeOK
<1>6. CASE ConnectPlugins
  BY <1>6 DEF ConnectPlugins, TypeOK
<1>7. CASE InitClang
  <2>1. BuiltByClangInit \subseteq Objects
    BY MembersKnown DEF BuiltByClangInit
  <2> QED
    BY <1>7, <2>1, OutcomeTyped, OutDirTyped DEF InitClang, Statuses, TypeOK
<1>8. CASE InitCling
  BY <1>8, OutcomeTyped, MembersKnown DEF InitCling, Statuses, TypeOK
<1>9. CASE RegisterClingInterpreter
  <2>1. /\ Tell(connected, "RegisterClingInterpreter", {"clingInterpreter"})
        /\ UNCHANGED <<managerConnected, loaded, connected>>
    BY <1>9 DEF RegisterClingInterpreter, Trigger, TypeOK
  <2>2. heard' \in [Plugins -> Seq(Events)] /\ given' \in [Plugins -> SUBSET Objects]
    BY <2>1, TellTyped, MembersKnown DEF Events
  <2> QED
    BY <1>9, <2>1, <2>2 DEF RegisterClingInterpreter, TypeOK
<1>10. CASE RegisterAnnotationMethods
  <2>1. /\ Tell(connected, "RegisterAnnotationMethods", {"annotationMethods", "sourceTransformPipeline"})
        /\ UNCHANGED <<managerConnected, loaded, connected>>
    BY <1>10 DEF RegisterAnnotationMethods, Trigger, TypeOK
  <2>2. heard' \in [Plugins -> Seq(Events)] /\ given' \in [Plugins -> SUBSET Objects]
    BY <2>1, TellTyped, MembersKnown DEF Events
  <2> QED
    BY <1>10, <2>1, <2>2 DEF RegisterAnnotationMethods, TypeOK
<1>11. CASE LogVersion \/ LogHelp \/ NoCommand
  BY <1>11 DEF LogVersion, LogHelp, NoCommand, TypeOK
<1>12. CASE SendVersion
  <2>1. Tell(connected, "version", {}) /\ UNCHANGED <<managerConnected, loaded, connected>>
    BY <1>12 DEF SendVersion, Trigger, TypeOK
  <2>2. heard' \in [Plugins -> Seq(Events)] /\ given' \in [Plugins -> SUBSET Objects]
    BY <2>1, TellNothing DEF Events
  <2> QED
    BY <1>12, <2>1, <2>2, OutcomeTyped DEF SendVersion, TypeOK, Statuses
<1>13. CASE SendHelp
  <2>1. Tell(connected, "version", {}) /\ UNCHANGED <<managerConnected, loaded, connected>>
    BY <1>13 DEF SendHelp, Trigger, TypeOK
  <2>2. heard' \in [Plugins -> Seq(Events)] /\ given' \in [Plugins -> SUBSET Objects]
    BY <2>1, TellNothing DEF Events
  <2> QED
    BY <1>13, <2>1, <2>2, OutcomeTyped DEF SendHelp, TypeOK, Statuses
<1>14. CASE RunTool
  BY <1>14, OutcomeTyped DEF RunTool, Statuses, TypeOK
<1>15. CASE ShutdownPlugins
  <2>1. Tell(loaded, "unload", {}) \/ UNCHANGED <<heard, given>>
    BY <1>15 DEF ShutdownPlugins, TypeOK
  <2>2. heard' \in [Plugins -> Seq(Events)] /\ given' \in [Plugins -> SUBSET Objects]
    <3>1. CASE Tell(loaded, "unload", {})
      BY <3>1, TellNothing DEF Events
    <3>2. CASE UNCHANGED <<heard, given>>
      BY <3>2 DEF TypeOK
    <3> QED
      BY <2>1, <3>1, <3>2
  <2>3. slot # 0
    BY <1>15 DEF ShutdownPlugins, TypeOK
  <2> QED
    BY <1>15, <2>2, <2>3 DEF ShutdownPlugins, TypeOK
<1>16. CASE DestroyMember
  <2>1. slot \in 1..11
    BY <1>16, MembersKnown DEF DestroyMember, TypeOK
  <2>2. slot' \in 0..Len(Members) /\ (slot' = 0 => pc' = "exited")
    BY <1>16, <2>1, MembersKnown DEF DestroyMember, LastMember
  <2>3. alive' \in SUBSET Objects /\ pc' \in EndPcs
    BY <1>16 DEF DestroyMember, TypeOK
  <2> QED
    BY <1>16, <2>2, <2>3 DEF DestroyMember, TypeOK
<1>17. CASE UNCHANGED vars
  BY <1>17 DEF vars, TypeOK
<1> QED
  BY <1>1, <1>2, <1>3, <1>4, <1>5, <1>6, <1>7, <1>8, <1>9, <1>10, <1>11, <1>12,
     <1>13, <1>14, <1>15, <1>16, <1>17 DEF Next, Step, Finished

\* The variables keep their types for every set of plugins, and the member the
\* destructors come to is always one there is.
THEOREM TypeCorrect == Spec => []TypeOK
BY TypeOKInit, TypeOKNext, PTL DEF Spec

-----------------------------------------------------------------------------
(* Destruction.  Each member that is still to be destroyed and was built   *)
(* by a constructor exists, and what exists is still to be destroyed, but  *)
(* for the options that libtooling's factory keeps.                        *)

DestructionInv ==
  /\ pc \notin EndPcs => slot = 11
  /\ \A i \in 1..4 : i <= slot => Members[i] \in alive
  /\ \A o \in alive : o = "annotationMatchOptions" \/ \E i \in 1..slot : o = Members[i]

LEMMA MemberNames ==
  /\ Members[1] = "cmd_env"
  /\ Members[2] = "base_env"
  /\ Members[3] = "plug_mgr"
  /\ Members[4] = "main_events_dispatcher"
  /\ \A i \in 5..11 : Members[i] \notin {"cmd_env", "base_env", "plug_mgr", "main_events_dispatcher"}
  /\ \A i, j \in 1..11 : Members[i] = Members[j] => i = j
<1>1. \A i : i \in 1..11 <=> i \in {1, 2, 3, 4, 5, 6, 7, 8, 9, 10, 11}
  OBVIOUS
<1>2. \A i : i \in 5..11 => i \in {5, 6, 7, 8, 9, 10, 11}
  OBVIOUS
<1> QED
  BY <1>1, <1>2 DEF Members

LEMMA ObjectsAreMembers == \A o \in Objects : \E i \in 1..11 : o = Members[i]
<1>1. DOMAIN Members = 1..11
  BY DEF Members
<1> QED
  BY <1>1 DEF Objects

LEMMA DestructionInit == Init => DestructionInv
<1> SUFFICES ASSUME Init PROVE DestructionInv
  OBVIOUS
<1>1. slot = 11
  BY MembersKnown DEF Init
<1>2. alive \subseteq Objects
  BY MembersKnown DEF Init, BuiltByConstructors
<1>3. \A i \in 1..4 : Members[i] \in alive
  <2>1. \A i \in 1..4 : i \in {1, 2, 3, 4}
    OBVIOUS
  <2> QED
    BY <2>1, MemberNames DEF Init, BuiltByConstructors
<1> QED
  BY <1>1, <1>2, <1>3, ObjectsAreMembers DEF DestructionInv

LEMMA DestructionNext == TypeOK /\ DestructionInv /\ [Next]_vars => DestructionInv'
<1> SUFFICES ASSUME TypeOK, DestructionInv, [Next]_vars PROVE DestructionInv'
  OBVIOUS
<1>1. TypeOK'
  BY TypeOKNext
<1>2. CASE DestroyMember
  <2>1. slot \in 1..11 /\ slot' = slot - 1 /\ pc' \in EndPcs
    BY <1>2, MembersKnown DEF DestroyMember, TypeOK, EndPcs
  <2>2. alive' = alive \/ alive' = alive \ {Members[slot]}
    BY <1>2 DEF DestroyMember
  <2>3. alive' = alive => Members[slot] = "annotationMatchOptions" \/ Members[slot] \notin alive
    BY <1>2 DEF DestroyMember
  <2>4. ASSUME NEW i \in 1..4, i <= slot'
        PROVE  Members[i] \in alive'
    <3>1. i \in 1..11 /\ i # slot /\ i <= slot
      BY <2>1, <2>4
    <3>2. Members[i] \in alive /\ Members[i] # Members[slot]
      BY <2>1, <3>1, MemberNames DEF DestructionInv
    <3> QED
      BY <2>2, <3>2
  <2>5. ASSUME NEW o \in alive', o # "annotationMatchOptions"
        PROVE  \E i \in 1..slot' : o = Members[i]
    <3>1. o \in alive /\ o # Members[slot]
      BY <2>2, <2>3, <2>5
    <3>2. PICK i \in 1..slot : o = Members[i]
      BY <2>5, <3>1 DEF DestructionInv
    <3>3. i \in 1..slot'
      BY <2>1, <3>1, <3>2
    <3> QED
      BY <3>2, <3>3
  <2> QED
    BY <2>1, <2>4, <2>5 DEF DestructionInv
<1>3. CASE /\ UNCHANGED slot
           /\ pc \notin EndPcs \/ pc' \in EndPcs
           /\ alive \subseteq alive'
           /\ alive' = alive \/ pc \notin EndPcs
  <2>1. pc' \notin EndPcs => slot' = 11
    BY <1>3 DEF DestructionInv
  <2>2. \A i \in 1..4 : i <= slot' => Members[i] \in alive'
    BY <1>3 DEF DestructionInv
  <2>3. CASE alive' = alive
    BY <1>3, <2>1, <2>2, <2>3 DEF DestructionInv
  <2>4. CASE pc \notin EndPcs
    <3>1. slot' = 11
      BY <1>3, <2>4 DEF DestructionInv
    <3>2. alive' \subseteq Objects
      BY <1>1 DEF TypeOK
    <3>3. \A o \in alive' : \E i \in 1..slot' : o = Members[i]
      BY <3>1, <3>2, ObjectsAreMembers
    <3> QED
      BY <2>1, <2>2, <3>3 DEF DestructionInv
  <2> QED
    BY <1>3, <2>3, <2>4
<1> USE DEF EndPcs
<1>4. CASE InitCmd \/ InitBase \/ ConnectManager
  BY <1>3, <1>4 DEF InitCmd, InitBase, ConnectManager
<1>5. CASE SendInit \/ StartUpPlugins \/ ConnectPlugins
  BY <1>3, <1>5 DEF SendInit, StartUpPlugins, ConnectPlugins
<1>6. CASE InitClang \/ InitCling
  BY <1>3, <1>6 DEF InitClang, InitCling
<1>7. CASE RegisterClingInterpreter \/ RegisterAnnotationMethods
  BY <1>3, <1>7 DEF RegisterClingInterpreter, RegisterAnnotationMethods
<1>8. CASE LogVersion \/ SendVersion \/ LogHelp \/ SendHelp \/ NoCommand
  BY <1>3, <1>8 DEF LogVersion, SendVersion, LogHelp, SendHelp, NoCommand
<1>9. CASE RunTool
  BY <1>3, <1>9 DEF RunTool
<1>10. CASE ShutdownPlugins
  BY <1>3, <1>10 DEF ShutdownPlugins
<1>11. CASE UNCHANGED vars
  BY <1>3, <1>11 DEF vars
<1> QED
  BY <1>2, <1>4, <1>5, <1>6, <1>7, <1>8, <1>9, <1>10, <1>11 DEF Next, Step, Finished

LEMMA DestructionSafe == TypeOK /\ DestructionInv => TornDownInsideOut
<1> SUFFICES ASSUME TypeOK, DestructionInv PROVE TornDownInsideOut
  OBVIOUS
<1>1. slot \in 0..11
  BY MembersKnown DEF TypeOK
<1>2. ASSUME "main_events_dispatcher" \in alive
      PROVE  "plug_mgr" \in alive
  <2>1. PICK i \in 1..slot : "main_events_dispatcher" = Members[i]
    BY <1>2 DEF DestructionInv
  <2>2. i = 4
    BY <1>1, <2>1, MemberNames
  <2> QED
    BY <1>1, <2>1, <2>2, MemberNames DEF DestructionInv
<1>3. ASSUME NEW o \in alive, o \notin {"cmd_env", "base_env", "annotationMatchOptions"}
      PROVE  "base_env" \in alive
  <2>1. PICK i \in 1..slot : o = Members[i]
    BY <1>3 DEF DestructionInv
  <2>2. i # 1
    BY <1>3, <2>1, MemberNames
  <2> QED
    BY <1>1, <2>1, <2>2, MemberNames DEF DestructionInv
<1> QED
  BY <1>2, <1>3 DEF TornDownInsideOut

\* Wherever a run fails, the environments are destroyed from the inside out.
THEOREM DestructionOrder == Spec => []TornDownInsideOut
BY TypeOKInit, TypeOKNext, DestructionInit, DestructionNext, DestructionSafe, PTL DEF Spec

-----------------------------------------------------------------------------
(* The output directory.  Only InitBase changes the current directory, to  *)
(* what outDir() says of the first one; past the CHECK outDir() says the   *)
(* same of the second.                                                     *)

OutDirInv ==
  /\ pc \in {"init_cmd", "init_base"} => cwd = "start"
  /\ pc \in InitPcs \ {"init_cmd", "init_base"} => cwd = OutDir(run.outdir, "start")
  /\ pc \in {"plugin_startup", "plugin_connect", "init_clang"} => cwd = OutDir(run.outdir, cwd)
  /\ saveDir # "none" => pc \notin {"init_cmd", "init_base"}
  /\ GeneratedIntoCwd

LEMMA OutDirInit == Init => OutDirInv
BY DEF Init, OutDirInv, GeneratedIntoCwd, InitPcs

LEMMA OutDirNext == OutDirInv /\ [Next]_vars => OutDirInv'
<1> SUFFICES ASSUME OutDirInv, [Next]_vars PROVE OutDirInv'
  OBVIOUS
<1> USE DEF OutDirInv, GeneratedIntoCwd, InitPcs
<1> USE DEF Continue, Return, End, FailInit
<1>1. CASE InitCmd \/ InitBase
  BY <1>1 DEF InitCmd, InitBase
<1>2. CASE ConnectManager \/ StartUpPlugins \/ ConnectPlugins
  BY <1>2 DEF ConnectManager, StartUpPlugins, ConnectPlugins
<1>3. CASE SendInit
  BY <1>3 DEF SendInit, OutDirIsCurrent
<1>4. CASE InitClang
  BY <1>4 DEF InitClang
<1>5. CASE InitCling \/ RegisterClingInterpreter \/ RegisterAnnotationMethods
  BY <1>5 DEF InitCling, RegisterClingInterpreter, RegisterAnnotationMethods
<1>6. CASE LogVersion \/ SendVersion \/ LogHelp \/ SendHelp \/ NoCommand
  BY <1>6 DEF LogVersion, SendVersion, LogHelp, SendHelp, NoCommand
<1>7. CASE RunTool \/ ShutdownPlugins \/ DestroyMember
  BY <1>7 DEF RunTool, ShutdownPlugins, DestroyMember
<1>8. CASE UNCHANGED vars
  BY <1>8 DEF vars
<1> QED
  BY <1>1, <1>2, <1>3, <1>4, <1>5, <1>6, <1>7, <1>8 DEF Next, Step, Finished

\* A run that saves files saves them into its current directory, which is what
\* the first evaluation of --outdir named.
THEOREM OutDirStable == Spec => []GeneratedIntoCwd
<1>1. OutDirInv => GeneratedIntoCwd
  BY DEF OutDirInv
<1> QED
  BY <1>1, OutDirInit, OutDirNext, PTL DEF Spec

-----------------------------------------------------------------------------
(* What plugins were told when main returns.  Nothing is sent to a plugin  *)
(* before the last init that can fail; unload is sent once, when the       *)
(* destructors come to the dispatcher.                                     *)

Registered(p) == \E i \in DOMAIN heard[p] : heard[p][i] = "RegisterAnnotationMethods"

EventInv ==
  /\ pc \notin EndPcs => status = "running"
  /\ pc \in InitPcs => \A p \in Plugins : heard[p] = <<>>
  /\ pc \in {"plugin_init_event", "plugin_startup", "plugin_connect"} \cup
             {"init_cmd", "init_base", "plugin_connect_manager"} => connected = {}
  /\ pc \in CommandPcs \ {"register_methods"} => \A p \in connected : Registered(p)
  /\ pc = "teardown_plugins" => slot = 4
  /\ status = "main_success" => \A p \in connected : Registered(p)
  /\ status = "main_failure" =>
       /\ \A p \in Plugins : heard[p] \in {<<>>, <<"unload">>}
       /\ pc = "teardown" /\ slot >= 4 => \A p \in Plugins : heard[p] = <<>>

\* A trigger leaves what a plugin has registered registered.
LEMMA RegisteredStays ==
  ASSUME TypeOK, NEW listeners, NEW event \in Events, NEW objects,
         Tell(listeners, event, objects), NEW p \in Plugins, Registered(p)
  PROVE  Registered(p)'
<1>1. heard[p] \in Seq(Events)
  BY DEF TypeOK
<1>2. heard'[p] = heard[p] \/ heard'[p] = Append(heard[p], event)
  BY DEF Tell
<1>3. ASSUME heard'[p] = Append(heard[p], event)
      PROVE  \A i \in DOMAIN heard[p] : i \in DOMAIN heard'[p] /\ heard'[p][i] = heard[p][i]
  BY <1>1, <1>3
<1> QED
  BY <1>2, <1>3 DEF Registered

LEMMA EventInit == Init => EventInv
BY DEF Init, EventInv, EndPcs, InitPcs, CommandPcs

LEMMA EventNext == TypeOK /\ EventInv /\ [Next]_vars => EventInv'
<1> SUFFICES ASSUME TypeOK, EventInv, [Next]_vars PROVE EventInv'
  OBVIOUS
<1> USE DEF InitPcs, CommandPcs, EndPcs, Continue, pluginVars
<1>1. CASE InitCmd \/ InitBase
  BY <1>1 DEF InitCmd, InitBase, EventInv, Return, End, FailInit
<1>2. CASE ConnectManager \/ StartUpPlugins \/ ConnectPlugins
  BY <1>2 DEF ConnectManager, StartUpPlugins, ConnectPlugins, EventInv, Return, End, FailInit
<1>3. CASE SendInit
  <2>1. connected = {}
    BY <1>3 DEF SendInit, EventInv
  <2>2. \A p \in Plugins : heard'[p] = heard[p]
    BY <1>3, <2>1 DEF SendInit, Trigger, Tell
  <2> QED
    BY <1>3, <2>1, <2>2 DEF SendInit, Trigger, EventInv, End
<1>4. CASE InitClang \/ InitCling
  BY <1>4 DEF InitClang, InitCling, EventInv, Return, End
<1>5. CASE RegisterClingInterpreter
  BY <1>5 DEF RegisterClingInterpreter, EventInv
<1>6. CASE RegisterAnnotationMethods
  <2>1. ASSUME NEW p \in connected
        PROVE  Registered(p)'
    <3>1. p \in Plugins /\ heard[p] \in Seq(Events)
      BY DEF TypeOK
    <3>2. heard'[p] = Append(heard[p], "RegisterAnnotationMethods")
      BY <1>6, <3>1 DEF RegisterAnnotationMethods, Trigger, Tell
    <3>3. /\ Len(heard[p]) + 1 \in DOMAIN heard'[p]
          /\ heard'[p][Len(heard[p]) + 1] = "RegisterAnnotationMethods"
      BY <3>1, <3>2
    <3> QED
      BY <3>3 DEF Registered
  <2>2. UNCHANGED connected
    BY <1>6 DEF RegisterAnnotationMethods, Trigger
  <2> QED
    BY <1>6, <2>1, <2>2 DEF RegisterAnnotationMethods, EventInv
<1>7. CASE LogVersion \/ LogHelp \/ NoCommand
  BY <1>7 DEF LogVersion, LogHelp, NoCommand, EventInv, Registered
<1>8. CASE SendVersion \/ SendHelp
  <2>1. Tell(connected, "version", {}) /\ UNCHANGED connected /\ connected \subseteq Plugins
    BY <1>8 DEF SendVersion, SendHelp, Trigger, TypeOK
  <2>2. "version" \in Events
    BY DEF Events
  <2>3. \A p \in connected : Registered(p)
    BY <1>8 DEF SendVersion, SendHelp, EventInv
  <2>4. \A p \in connected' : Registered(p)'
    BY <2>1, <2>2, <2>3, RegisteredStays
  <2> QED
    BY <1>8, <2>4 DEF SendVersion, SendHelp, EventInv, Return
<1>9. CASE RunTool
  BY <1>9 DEF RunTool, EventInv, Return, End, Registered
<1>10. CASE ShutdownPlugins
  <2>1. slot = 4 /\ pc = "teardown"
    <3>1. slot \in 1..11
      BY <1>10, MembersKnown DEF ShutdownPlugins, TypeOK
    <3> QED
      BY <1>10, <3>1, MemberNames DEF ShutdownPlugins
  <2>2. /\ pc' = "teardown_plugins" /\ UNCHANGED <<slot, status, connected>>
        /\ connected \subseteq Plugins
        /\ UNCHANGED heard \/ Tell(loaded, "unload", {})
    BY <1>10 DEF ShutdownPlugins, TypeOK
  <2>3. "unload" \in Events
    BY DEF Events
  <2>4. status = "main_success" => \A p \in connected : Registered(p)'
    BY <2>2, <2>3, RegisteredStays DEF EventInv, Registered
  <2>5. status = "main_failure" => \A p \in Plugins : heard'[p] \in {<<>>, <<"unload">>}
    <3>1. status = "main_failure" => \A p \in Plugins : heard[p] = <<>>
      BY <2>1 DEF EventInv
    <3>2. Append(<<>>, "unload") = <<"unload">>
      OBVIOUS
    <3> QED
      BY <2>2, <3>1, <3>2 DEF Tell
  <2> QED
    BY <2>1, <2>2, <2>4, <2>5 DEF EventInv
<1>11. CASE DestroyMember
  <2>1. /\ pc \in EndPcs /\ pc' \in {"teardown", "exited"}
        /\ UNCHANGED <<status, heard, connected>>
    BY <1>11 DEF DestroyMember
  <2>2. slot \in 1..11 /\ slot' = slot - 1
    BY <1>11, MembersKnown DEF DestroyMember, TypeOK
  <2>3. pc = "teardown_plugins" => ~(slot' >= 4)
    BY <2>2 DEF EventInv
  <2>4. pc = "teardown" /\ slot' >= 4 => slot >= 4
    BY <2>2
  <2>5. pc \in {"teardown", "teardown_plugins"}
    BY <1>11 DEF DestroyMember
  <2> QED
    BY <2>1, <2>3, <2>4, <2>5 DEF EventInv, Registered
<1>12. CASE UNCHANGED vars
  BY <1>12 DEF vars, EventInv, Registered
<1> QED
  BY <1>1, <1>2, <1>3, <1>4, <1>5, <1>6, <1>7, <1>8, <1>9, <1>10, <1>11, <1>12
     DEF Next, Step, Finished

\* A run that main ends with EXIT_FAILURE has told no plugin anything, and one
\* that it ends with EXIT_SUCCESS has let every connected plugin register.
THEOREM CleanFailure == Spec => []FailsBeforeAnyEvent
<1>1. EventInv => FailsBeforeAnyEvent
  BY DEF EventInv, FailsBeforeAnyEvent, Registered
<1> QED
  BY <1>1, TypeOKInit, TypeOKNext, EventInit, EventNext, PTL DEF Spec

-----------------------------------------------------------------------------
(* Shutdown.  What the plugin manager loads it connects; ~ScopedPlugin-    *)
(* Environment is the one place that unloads, and every return of main     *)
(* comes past it, before member 4.                                         *)

MainReturned == status \in {"main_success", "main_failure"}
BeforeManager == {"init_cmd", "init_base", "plugin_connect_manager"}
BeforeShutdown == pc \notin EndPcs \/ (pc = "teardown" /\ slot >= 4)
AfterShutdown == pc = "teardown_plugins" \/ (pc \in EndPcs /\ slot < 4)

ShutdownInv ==
  /\ pc \in {"teardown", "teardown_plugins"} => MainReturned
  /\ pc \in BeforeManager => loaded = {} /\ connected = {}
  /\ pc \in (InitPcs \cup CommandPcs) \ BeforeManager => managerConnected
  /\ BeforeShutdown => connected \subseteq loaded /\ (managerConnected \/ loaded = {})
  /\ AfterShutdown => loaded = {} /\ \A p \in connected : Unloaded(p)
  /\ pc = "exited" /\ MainReturned => slot < 4
  /\ pc \notin EndPcs \/ ~MainReturned \/ BeforeShutdown => \A p \in Plugins : ~Unloaded(p)

LEMMA TellUnload ==
  ASSUME TypeOK, Tell(loaded, "unload", {}), NEW p \in loaded
  PROVE  Unloaded(p)'
<1>1. p \in Plugins /\ heard[p] \in Seq(Events)
  BY DEF TypeOK
<1>2. heard'[p] = Append(heard[p], "unload")
  BY <1>1 DEF Tell
<1>3. /\ Len(heard'[p]) = Len(heard[p]) + 1
      /\ heard'[p][Len(heard[p]) + 1] = "unload"
  BY <1>1, <1>2
<1>4. heard'[p] # <<>>
  BY <1>1, <1>3
<1> QED
  BY <1>3, <1>4 DEF Unloaded

LEMMA TellElse ==
  ASSUME TypeOK, NEW listeners, NEW event, event # "unload", NEW objects,
         Tell(listeners, event, objects), NEW p \in Plugins, ~Unloaded(p)
  PROVE  ~Unloaded(p)'
<1>1. heard[p] \in Seq(Events)
  BY DEF TypeOK
<1>2. CASE heard'[p] = heard[p]
  BY <1>2 DEF Unloaded
<1>3. CASE heard'[p] = Append(heard[p], event)
  <2>1. heard'[p][Len(heard'[p])] = event
    BY <1>1, <1>3
  <2> QED
    BY <2>1 DEF Unloaded
<1> QED
  BY <1>2, <1>3 DEF Tell

\* A trigger of main's changes nothing that ShutdownInv says of plugins.
LEMMA TriggerKeeps ==
  ASSUME TypeOK, NEW event, event # "unload", NEW objects, Trigger(event, objects)
  PROVE  /\ \A p \in Plugins : ~Unloaded(p) => ~Unloaded(p)'
         /\ UNCHANGED <<managerConnected, loaded, connected>>
BY TellElse DEF Trigger

LEMMA ShutdownInit == Init => ShutdownInv
<1> SUFFICES ASSUME Init PROVE ShutdownInv
  OBVIOUS
<1>1. slot = 11
  BY MembersKnown DEF Init
<1> QED
  BY <1>1 DEF Init, ShutdownInv, BeforeManager, BeforeShutdown, AfterShutdown, MainReturned,
     EndPcs, InitPcs, CommandPcs, Unloaded

LEMMA ShutdownNext ==
  TypeOK /\ DestructionInv /\ EventInv /\ ShutdownInv /\ [Next]_vars => ShutdownInv'
<1> SUFFICES ASSUME TypeOK, DestructionInv, EventInv, ShutdownInv, [Next]_vars
             PROVE  ShutdownInv'
  OBVIOUS
<1> USE DEF InitPcs, CommandPcs, EndPcs, Continue, pluginVars, BeforeManager, MainReturned
<1>0. pc \notin EndPcs => slot = 11 /\ status = "running"
  BY DEF DestructionInv, EventInv
\* The steps of main that reach no plugin but through a trigger.
<1>1. CASE /\ pc \in InitPcs \cup CommandPcs
           /\ UNCHANGED <<slot, managerConnected, loaded, connected>>
           /\ \A p \in Plugins : ~Unloaded(p) => ~Unloaded(p)'
           /\ \/ pc' \in (InitPcs \cup CommandPcs) \ BeforeManager /\ managerConnected
              \/ pc' \in BeforeManager /\ pc \in BeforeManager
              \/ pc' = "teardown" /\ status' \in {"main_success", "main_failure"}
              \/ pc' = "exited" /\ status' \notin {"main_success", "main_failure"}
  BY <1>0, <1>1 DEF ShutdownInv, BeforeShutdown, AfterShutdown
<1>2. CASE InitCmd \/ InitBase
  BY <1>1, <1>2 DEF InitCmd, InitBase, Return, End, FailInit, Unloaded
<1>3. CASE ConnectManager
  <2>1. CASE FailInit
    BY <1>1, <1>3, <2>1 DEF ConnectManager, Return, End, FailInit, Unloaded
  <2>2. CASE managerConnected' = TRUE
    BY <1>0, <1>3, <2>2 DEF ConnectManager, Return, End, FailInit, Unloaded,
       ShutdownInv, BeforeShutdown, AfterShutdown
  <2> QED
    BY <1>3, <2>1, <2>2 DEF ConnectManager
<1>4. CASE SendInit
  BY <1>1, <1>4, TriggerKeeps DEF SendInit, End, ShutdownInv
<1>5. CASE StartUpPlugins
  <2>1. connected = {}
    BY <1>5 DEF StartUpPlugins, EventInv
  <2> QED
    BY <1>0, <1>5, <2>1 DEF StartUpPlugins, ShutdownInv, BeforeShutdown, AfterShutdown, Unloaded
<1>6. CASE ConnectPlugins
  BY <1>0, <1>6 DEF ConnectPlugins, ShutdownInv, BeforeShutdown, AfterShutdown, Unloaded
<1>7. CASE InitClang \/ InitCling
  BY <1>1, <1>7 DEF InitClang, InitCling, Return, End, Unloaded, ShutdownInv
<1>8. CASE RegisterClingInterpreter \/ RegisterAnnotationMethods
  BY <1>1, <1>8, TriggerKeeps DEF RegisterClingInterpreter, RegisterAnnotationMethods, ShutdownInv
<1>9. CASE LogVersion \/ LogHelp \/ NoCommand
  BY <1>1, <1>9 DEF LogVersion, LogHelp, NoCommand, Unloaded, ShutdownInv
<1>10. CASE SendVersion \/ SendHelp
  BY <1>1, <1>10, TriggerKeeps DEF SendVersion, SendHelp, Return, ShutdownInv
<1>11. CASE RunTool
  BY <1>1, <1>11 DEF RunTool, Return, End, Unloaded, ShutdownInv
<1>12. CASE ShutdownPlugins
  <2>1. slot = 4 /\ pc = "teardown"
    <3>1. slot \in 1..11
      BY <1>12, MembersKnown DEF ShutdownPlugins, TypeOK
    <3> QED
      BY <1>12, <3>1, MemberNames DEF ShutdownPlugins
  <2>2. connected \subseteq loaded /\ (managerConnected \/ loaded = {}) /\ MainReturned
    BY <2>1 DEF ShutdownInv, BeforeShutdown
  <2>3. /\ pc' = "teardown_plugins" /\ UNCHANGED <<slot, status, connected>>
        /\ loaded' = {} /\ \A p \in connected : Unloaded(p)'
    BY <1>12, <2>2, TellUnload DEF ShutdownPlugins
  <2> QED
    BY <2>1, <2>2, <2>3 DEF ShutdownInv, BeforeShutdown, AfterShutdown
<1>13. CASE DestroyMember
  <2>1. /\ pc \in {"teardown", "teardown_plugins"} /\ pc' \in {"teardown", "exited"}
        /\ UNCHANGED <<status, heard, loaded, connected, managerConnected>>
    BY <1>13 DEF DestroyMember
  <2>2. slot \in 1..11 /\ slot' = slot - 1 /\ (pc' = "exited" => slot = 1)
    BY <1>13, MembersKnown DEF DestroyMember, LastMember, TypeOK
  <2>3. pc = "teardown" => slot # 4
    BY <1>13, MemberNames DEF DestroyMember
  <2>4. pc = "teardown_plugins" => slot = 4
    BY DEF EventInv
  <2>5. MainReturned
    BY <2>1 DEF ShutdownInv
  <2>6. CASE slot > 4
    <3>1. BeforeShutdown /\ BeforeShutdown' /\ ~AfterShutdown' /\ pc' = "teardown"
      BY <2>1, <2>2, <2>4, <2>6 DEF BeforeShutdown, AfterShutdown
    <3> QED
      BY <2>1, <2>5, <3>1 DEF ShutdownInv, Unloaded
  <2>7. CASE slot <= 4
    <3>1. AfterShutdown /\ AfterShutdown' /\ ~BeforeShutdown' /\ slot' < 4
      BY <2>1, <2>2, <2>3, <2>4, <2>7 DEF BeforeShutdown, AfterShutdown
    <3> QED
      BY <2>1, <2>5, <3>1 DEF ShutdownInv, Unloaded
  <2> QED
    BY <2>2, <2>6, <2>7
<1>14. CASE UNCHANGED vars
  BY <1>14 DEF vars, ShutdownInv, BeforeShutdown, AfterShutdown, Unloaded
<1> QED
  BY <1>2, <1>3, <1>4, <1>5, <1>6, <1>7, <1>8, <1>9, <1>10, <1>11, <1>12, <1>13, <1>14
     DEF Next, Step, Finished

\* Every return of main, on the failure paths too, unloads what was loaded and
\* tells it so; exit() and fatal checks unload nothing.
THEOREM PluginsUnloaded == Spec => []PluginsUnloadedIffMainReturns
<1>1. TypeOK /\ ShutdownInv => PluginsUnloadedIffMainReturns
  <2> SUFFICES ASSUME TypeOK, ShutdownInv, pc = "exited"
               PROVE  IF MainReturned
                      THEN loaded = {} /\ \A p \in connected : Unloaded(p)
                      ELSE \A p \in Plugins : ~Unloaded(p)
    BY DEF PluginsUnloadedIffMainReturns, MainReturned
  <2>1. CASE MainReturned
    BY <2>1 DEF ShutdownInv, AfterShutdown, EndPcs
  <2>2. CASE ~MainReturned
    BY <2>2 DEF ShutdownInv
  <2> QED
    BY <2>1, <2>2
<1> QED
  BY <1>1, TypeOKInit, TypeOKNext, DestructionInit, DestructionNext, EventInit, EventNext,
     ShutdownInit, ShutdownNext, PTL DEF Spec

-----------------------------------------------------------------------------
(* Pointers.  Plugins are given pointers to three objects; main's own      *)
(* inits build what the events and libtooling's chain point to before they *)
(* hand it out, and members 5..9 of the chain go in an order that leaves   *)
(* no other pointer dangling than those to fileSaveHandler, member 10, and *)
(* those behind the options that libtooling's factory keeps.               *)

GivenAway == {"clingInterpreter", "annotationMethods", "sourceTransformPipeline"}
ChainUsers == {"annotationParser", "anotationMatchHandler", "annotationMatchOptions"}

PointerInv ==
  /\ \A p \in Plugins : given[p] \subseteq GivenAway
  /\ pc \notin EndPcs => BuiltByConstructors \subseteq alive
  /\ pc \in CommandPcs \cup {"init_cling", "register_interpreter"} =>
       BuiltByClangInit \subseteq alive
  /\ pc = "register_interpreter" => "clingInterpreter" \in alive
  /\ pc \notin EndPcs => \A p \in Plugins : given[p] \subseteq alive

ChainInv ==
  /\ "fileSaveHandler" \in alive \/ (pc \in EndPcs /\ slot < 10)
  /\ alive \cap ChainUsers # {} => \A i \in 5..9 : i <= slot => Members[i] \in alive
  /\ factoryLeaked => pc \in EndPcs
  /\ "annotationMatchOptions" \in alive => slot >= 9 \/ factoryLeaked

LEMMA PointerInit == Init => PointerInv
BY DEF Init, PointerInv, EndPcs, CommandPcs

LEMMA PointerNext == TypeOK /\ PointerInv /\ [Next]_vars => PointerInv'
<1> SUFFICES ASSUME TypeOK, PointerInv, [Next]_vars PROVE PointerInv'
  OBVIOUS
<1> USE DEF InitPcs, CommandPcs, EndPcs, Continue, pluginVars
\* Steps that hand nothing out.
<1>1. CASE /\ UNCHANGED given
           /\ alive \subseteq alive'
           /\ pc' \in EndPcs \/ pc \notin EndPcs
           /\ \/ pc' \notin CommandPcs \cup {"init_cling", "register_interpreter"}
              \/ pc \in CommandPcs \cup {"init_cling", "register_interpreter"}
           /\ pc' = "register_interpreter" => "clingInterpreter" \in alive'
  BY <1>1 DEF PointerInv
\* A trigger that carries no pointers.
<1>2. ASSUME NEW event, Trigger(event, {})
      PROVE  UNCHANGED given
  <2>1. \A p \in Plugins : given[p] \cup {} = given[p]
    OBVIOUS
  <2>2. given = [p \in Plugins |-> given[p]]
    BY DEF TypeOK
  <2> QED
    BY <1>2, <2>1, <2>2 DEF Trigger, Tell
\* A trigger that hands out what exists.
<1>3. ASSUME NEW event, NEW objects, objects \subseteq GivenAway, objects \subseteq alive,
             pc \notin EndPcs, Trigger(event, objects)
      PROVE  \A p \in Plugins : given'[p] \subseteq GivenAway /\ given'[p] \subseteq alive
  BY <1>3 DEF Trigger, Tell, PointerInv
<1>4. CASE InitCmd \/ InitBase \/ ConnectManager
  BY <1>1, <1>4 DEF InitCmd, InitBase, ConnectManager, Return, End, FailInit
<1>5. CASE SendInit \/ SendVersion \/ SendHelp
  BY <1>1, <1>2, <1>5 DEF SendInit, SendVersion, SendHelp, Return, End
<1>6. CASE StartUpPlugins \/ ConnectPlugins
  BY <1>1, <1>6 DEF StartUpPlugins, ConnectPlugins
<1>7. CASE InitClang
  <2>1. CASE alive' = alive \cup BuiltByClangInit
    BY <1>7, <2>1 DEF InitClang, PointerInv, Return, End
  <2>2. CASE Return("main_failure") \/ End("aborted")
    BY <1>1, <1>7, <2>2 DEF InitClang, Return, End
  <2> QED
    BY <1>7, <2>1, <2>2 DEF InitClang
<1>8. CASE InitCling
  BY <1>1, <1>8 DEF InitCling, Return, End
<1>9. CASE RegisterClingInterpreter
  <2>1. "clingInterpreter" \in alive
    BY <1>9 DEF RegisterClingInterpreter, PointerInv
  <2>2. \A p \in Plugins : given'[p] \subseteq GivenAway /\ given'[p] \subseteq alive
    BY <1>3, <1>9, <2>1 DEF RegisterClingInterpreter, GivenAway
  <2> QED
    BY <1>9, <2>2 DEF RegisterClingInterpreter, PointerInv
<1>10. CASE RegisterAnnotationMethods
  <2>1. {"annotationMethods", "sourceTransformPipeline"} \subseteq alive
    BY <1>10 DEF RegisterAnnotationMethods, PointerInv, BuiltByClangInit
  <2>2. \A p \in Plugins : given'[p] \subseteq GivenAway /\ given'[p] \subseteq alive
    BY <1>3, <1>10, <2>1 DEF RegisterAnnotationMethods, GivenAway
  <2> QED
    BY <1>10, <2>2 DEF RegisterAnnotationMethods, PointerInv
<1>11. CASE LogVersion \/ LogHelp \/ NoCommand \/ RunTool
  BY <1>1, <1>11 DEF LogVersion, LogHelp, NoCommand, RunTool, Return, End
<1>12. CASE ShutdownPlugins
  <2>1. UNCHANGED given
    <3>1. \A p \in Plugins : given[p] \cup {} = given[p]
      OBVIOUS
    <3>2. given = [p \in Plugins |-> given[p]]
      BY DEF TypeOK
    <3> QED
      BY <1>12, <3>1, <3>2 DEF ShutdownPlugins, Tell
  <2> QED
    BY <1>1, <1>12, <2>1 DEF ShutdownPlugins
<1>13. CASE DestroyMember
  BY <1>13 DEF DestroyMember, PointerInv
<1>14. CASE UNCHANGED vars
  BY <1>14 DEF vars, PointerInv
<1> QED
  BY <1>4, <1>5, <1>6, <1>7, <1>8, <1>9, <1>10, <1>11, <1>12, <1>13, <1>14
     DEF Next, Step, Finished

\* The callback chain in full: five objects.
LEMMA ChainKnown ==
  Reachable = {"annotationMatchOptions", "anotationMatchHandler", "annotationParser",
               "annotationMethods", "fileSaveHandler"}
<1>1. /\ PointsTo("annotationMatchOptions") = {"anotationMatchHandler"}
      /\ PointsTo("anotationMatchHandler") =
           {"annotationParser", "annotationMethods", "fileSaveHandler"}
      /\ PointsTo("annotationParser") = {"annotationMethods"}
      /\ PointsTo("annotationMethods") = {}
      /\ PointsTo("fileSaveHandler") = {}
  BY DEF PointsTo
<1>2. UNION {PointsTo(o) : o \in {"anotationMatchHandler"}} =
        {"annotationParser", "annotationMethods", "fileSaveHandler"}
  BY <1>1
<1>3. UNION {PointsTo(o) : o \in {"annotationParser", "annotationMethods", "fileSaveHandler"}}
        = {"annotationMethods"}
  BY <1>1
<1> QED
  BY <1>1, <1>2, <1>3 DEF Reachable

LEMMA ChainExists == PointerInv /\ pc = "tool" => Reachable \subseteq alive
<1> SUFFICES ASSUME PointerInv, pc = "tool" PROVE Reachable \subseteq alive
  OBVIOUS
<1>1. BuiltByClangInit \subseteq alive /\ BuiltByConstructors \subseteq alive
  BY DEF PointerInv, CommandPcs, EndPcs
<1> QED
  BY <1>1, ChainKnown DEF BuiltByClangInit, BuiltByConstructors

\* While libtooling or a plugin may use a pointer of main's, its object exists.
THEOREM CallbacksSafe == Spec => []CallbacksReachLiveObjects
<1>1. PointerInv => CallbacksReachLiveObjects
  BY ChainExists DEF PointerInv, CallbacksReachLiveObjects
<1> QED
  BY <1>1, TypeOKInit, TypeOKNext, PointerInit, PointerNext, PTL DEF Spec

\* By the time plugins are unloaded the three objects that they may hold pointers
\* to, members 5, 6 and 11, are gone.
LEMMA NothingLeft ==
  TypeOK /\ DestructionInv /\ EventInv /\ ShutdownInv /\ PointerInv => UnloadFindsNothing
<1> SUFFICES ASSUME TypeOK, DestructionInv, EventInv, ShutdownInv, PointerInv,
                    NEW p \in Plugins, Unloaded(p)
             PROVE  given[p] \cap alive = {}
  BY DEF UnloadFindsNothing
<1>1. slot \in 0..11 /\ pc \in EndPcs
  BY MembersKnown DEF TypeOK, ShutdownInv
<1>2. slot <= 4
  BY <1>1 DEF ShutdownInv, EventInv, BeforeShutdown, EndPcs
<1>3. \A o \in alive : o = "annotationMatchOptions" \/ \E i \in 1..4 : o = Members[i]
  BY <1>1, <1>2 DEF DestructionInv
<1>4. \A i \in 1..4 : Members[i] \notin GivenAway
  <2>1. \A i \in 1..4 : i \in {1, 2, 3, 4}
    OBVIOUS
  <2> QED
    BY <2>1, MemberNames DEF GivenAway
<1>5. \A o \in alive : o \notin GivenAway
  BY <1>3, <1>4 DEF GivenAway
<1> QED
  BY <1>5 DEF PointerInv

\* A plugin that is being unloaded holds pointers to nothing that still exists.
THEOREM UnloadedLast == Spec => []UnloadFindsNothing
BY NothingLeft, TypeOKInit, TypeOKNext, DestructionInit, DestructionNext, EventInit, EventNext,
   ShutdownInit, ShutdownNext, PointerInit, PointerNext, PTL DEF Spec

LEMMA ChainInit == Init => ChainInv
BY DEF Init, ChainInv, BuiltByConstructors, ChainUsers

LEMMA ChainNext == TypeOK /\ DestructionInv /\ ChainInv /\ [Next]_vars => ChainInv'
<1> SUFFICES ASSUME TypeOK, DestructionInv, ChainInv, [Next]_vars PROVE ChainInv'
  OBVIOUS
<1> USE DEF InitPcs, CommandPcs, EndPcs, Continue
<1>0. slot \in 0..11 /\ (pc \notin EndPcs => slot = 11)
  BY MembersKnown DEF TypeOK, DestructionInv
<1>1. CASE /\ UNCHANGED <<slot, factoryLeaked, alive>>
           /\ pc \in EndPcs => pc' \in EndPcs
  BY <1>1 DEF ChainInv
<1>2. CASE InitCmd \/ InitBase \/ ConnectManager \/ SendInit \/ StartUpPlugins \/ ConnectPlugins
  BY <1>1, <1>2 DEF InitCmd, InitBase, ConnectManager, SendInit, StartUpPlugins, ConnectPlugins
<1>3. CASE InitClang
  <2>1. CASE alive' = alive \cup BuiltByClangInit
    <3>1. \A i \in 5..9 : i \in {5, 6, 7, 8, 9}
      OBVIOUS
    <3>2. \A i \in 5..9 : Members[i] \in BuiltByClangInit
      BY <3>1 DEF Members, BuiltByClangInit
    <3> QED
      BY <1>0, <1>3, <2>1, <3>2 DEF InitClang, ChainInv, BuiltByClangInit
  <2> QED
    BY <1>1, <1>3, <2>1 DEF InitClang
<1>4. CASE InitCling
  BY <1>0, <1>4 DEF InitCling, ChainInv, ChainUsers
<1>5. CASE RegisterClingInterpreter \/ RegisterAnnotationMethods
  BY <1>1, <1>5 DEF RegisterClingInterpreter, RegisterAnnotationMethods
<1>6. CASE LogVersion \/ SendVersion \/ LogHelp \/ SendHelp \/ NoCommand
  BY <1>1, <1>6 DEF LogVersion, SendVersion, LogHelp, SendHelp, NoCommand
<1>7. CASE RunTool
  BY <1>0, <1>7 DEF RunTool, ChainInv, Return, End
<1>8. CASE ShutdownPlugins
  BY <1>1, <1>8 DEF ShutdownPlugins
<1>9. CASE DestroyMember
  <2>1. /\ slot \in 1..11 /\ slot' = slot - 1 /\ pc' \in EndPcs /\ pc \in EndPcs
        /\ UNCHANGED factoryLeaked
    BY <1>0, <1>9, MembersKnown DEF DestroyMember, TypeOK
  <2>2. /\ alive' \subseteq alive
        /\ \A o \in alive : o # Members[slot] => o \in alive'
    BY <1>9 DEF DestroyMember
  <2>3. Members[9] = "annotationMatchOptions" /\ Members[10] = "fileSaveHandler"
    BY DEF Members
  <2>4. "fileSaveHandler" \in alive' \/ slot' < 10
    <3>1. CASE slot <= 10
      BY <2>1, <3>1
    <3>2. CASE slot > 10
      BY <2>1, <2>2, <2>3, <3>2, MemberNames DEF ChainInv
    <3> QED
      BY <2>1, <3>1, <3>2
  <2>5. ASSUME alive' \cap ChainUsers # {}, NEW i \in 5..9, i <= slot'
        PROVE  Members[i] \in alive'
    <3>1. alive \cap ChainUsers # {} /\ i <= slot /\ i # slot
      BY <2>1, <2>2, <2>5
    <3>2. Members[i] \in alive /\ Members[i] # Members[slot]
      BY <2>1, <3>1, MemberNames DEF ChainInv
    <3> QED
      BY <2>2, <3>2
  <2>6. ASSUME "annotationMatchOptions" \in alive', ~factoryLeaked
        PROVE  slot' >= 9
    <3>1. slot >= 9
      BY <2>1, <2>2, <2>6 DEF ChainInv
    <3>2. alive' = alive \ {Members[slot]}
      BY <1>9, <2>6 DEF DestroyMember
    <3>3. slot # 9
      BY <2>3, <2>6, <3>2
    <3> QED
      BY <2>1, <3>1, <3>3
  <2> QED
    BY <2>1, <2>4, <2>5, <2>6 DEF ChainInv
<1>10. CASE UNCHANGED vars
  BY <1>1, <1>10 DEF vars
<1> QED
  BY <1>2, <1>3, <1>4, <1>5, <1>6, <1>7, <1>8, <1>9, <1>10 DEF Next, Step, Finished

LEMMA ChainDangles == TypeOK /\ DestructionInv /\ ChainInv => DanglingOnlyWhereKnown
<1> SUFFICES ASSUME TypeOK, DestructionInv, ChainInv, NEW object \in alive
             PROVE  \/ PointsTo(object) \subseteq alive
                    \/ /\ pc \in EndPcs
                       /\ \/ object = "annotationMatchOptions" /\ factoryLeaked
                          \/ object = "anotationMatchHandler"
                             /\ PointsTo(object) \ alive = {"fileSaveHandler"}
  BY DEF DanglingOnlyWhereKnown
<1>1. slot \in 0..11
  BY MembersKnown DEF TypeOK
<1>2. /\ Members[5] = "annotationMethods" /\ Members[7] = "annotationParser"
      /\ Members[8] = "anotationMatchHandler" /\ Members[9] = "annotationMatchOptions"
  BY DEF Members
<1>3. CASE object = "annotationParser"
  <2>1. slot >= 7
    BY <1>1, <1>2, <1>3, MemberNames DEF DestructionInv
  <2>2. Members[5] \in alive
    BY <1>1, <1>3, <2>1 DEF ChainInv, ChainUsers
  <2> QED
    BY <1>2, <1>3, <2>2 DEF PointsTo
<1>4. CASE object = "anotationMatchHandler"
  <2>1. slot >= 8
    BY <1>1, <1>2, <1>4, MemberNames DEF DestructionInv
  <2>2. Members[5] \in alive /\ Members[7] \in alive
    BY <1>1, <1>4, <2>1 DEF ChainInv, ChainUsers
  <2>3. PointsTo(object) = {"annotationParser", "annotationMethods", "fileSaveHandler"}
    BY <1>4 DEF PointsTo
  <2>4. CASE "fileSaveHandler" \in alive
    BY <1>2, <2>2, <2>3, <2>4
  <2>5. CASE "fileSaveHandler" \notin alive
    BY <1>2, <1>4, <2>2, <2>3, <2>5 DEF ChainInv
  <2> QED
    BY <2>4, <2>5
<1>5. CASE object = "annotationMatchOptions"
  <2>1. CASE factoryLeaked
    BY <1>5, <2>1 DEF ChainInv
  <2>2. CASE ~factoryLeaked
    <3>1. Members[8] \in alive
      BY <1>1, <1>5, <2>2 DEF ChainInv, ChainUsers
    <3> QED
      BY <1>2, <1>5, <3>1 DEF PointsTo
  <2> QED
    BY <2>1, <2>2
<1>6. CASE object \notin ChainUsers
  BY <1>6 DEF ChainUsers, PointsTo
<1> QED
  BY <1>3, <1>4, <1>5, <1>6 DEF ChainUsers

\* No pointer in libtooling's callback chain dangles but the two known ones.
THEOREM PointersDangleLate == Spec => []DanglingOnlyWhereKnown
BY ChainDangles, TypeOKInit, TypeOKNext, DestructionInit, DestructionNext, ChainInit, ChainNext,
   PTL DEF Spec

=============================================================================
