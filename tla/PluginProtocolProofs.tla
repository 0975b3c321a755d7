------------------------ MODULE PluginProtocolProofs ------------------------
(***************************************************************************)
(* ToolLifecycle implements PluginProtocol, for every set of plugins: each *)
(* of its steps moves all loaded plugins together to the next stage of the *)
(* protocol or leaves every plugin where it is.                            *)
(***************************************************************************)
EXTENDS ToolLifecycleProofs

-----------------------------------------------------------------------------
(* The history of a plugin that is connected: two marks, then its events.  *)

Marks == Events \cup {"loaded", "connected"}
Joined(events) == <<"loaded">> \o <<"connected">> \o events

LEMMA JoinedKnown ==
  ASSUME NEW s \in Seq(Events)
  PROVE  /\ Joined(s) \in Seq(Marks)
         /\ Len(Joined(s)) = Len(s) + 2
         /\ \A i \in 1..(Len(s) + 2) :
              Joined(s)[i] = IF i = 1 THEN "loaded" ELSE IF i = 2 THEN "connected" ELSE s[i - 2]
<1> DEFINE marks == <<"loaded">> \o <<"connected">>
<1>1. marks \in Seq(Marks) /\ Len(marks) = 2 /\ marks[1] = "loaded" /\ marks[2] = "connected"
  BY DEF Marks
<1>2. s \in Seq(Marks) /\ Len(s) \in Nat
  BY SeqMonotonic, LenProperties DEF Marks
<1>3. Joined(s) = marks \o s
  BY DEF Joined
<1> HIDE DEF marks
<1>4. /\ marks \o s \in Seq(Marks)
      /\ Len(marks \o s) = Len(marks) + Len(s)
      /\ \A i \in 1..(Len(marks) + Len(s)) :
           (marks \o s)[i] = IF i <= Len(marks) THEN marks[i] ELSE s[i - Len(marks)]
  BY <1>1, <1>2, ConcatProperties
<1> QED
  BY <1>1, <1>2, <1>3, <1>4

LEMMA JoinedAppend ==
  ASSUME NEW s \in Seq(Events), NEW event \in Events
  PROVE  Joined(Append(s, event)) = Append(Joined(s), event)
<1>1. /\ Append(s, event) \in Seq(Events) /\ Len(s) \in Nat
      /\ Len(Append(s, event)) = Len(s) + 1
      /\ \A i \in 1..Len(s) : Append(s, event)[i] = s[i]
      /\ Append(s, event)[Len(s) + 1] = event
  BY AppendProperties, LenProperties
<1>2. /\ Joined(Append(s, event)) \in Seq(Marks)
      /\ Len(Joined(Append(s, event))) = Len(s) + 3
      /\ \A i \in 1..(Len(s) + 3) :
           Joined(Append(s, event))[i] =
             IF i = 1 THEN "loaded" ELSE IF i = 2 THEN "connected" ELSE Append(s, event)[i - 2]
  <2> DEFINE t == Append(s, event)
  <2>1. t \in Seq(Events) /\ Len(t) + 2 = Len(s) + 3
    BY <1>1
  <2> HIDE DEF t
  <2>2. /\ Joined(t) \in Seq(Marks)
        /\ Len(Joined(t)) = Len(t) + 2
        /\ \A i \in 1..(Len(t) + 2) :
             Joined(t)[i] = IF i = 1 THEN "loaded" ELSE IF i = 2 THEN "connected" ELSE t[i - 2]
    BY <2>1, JoinedKnown
  <2> QED
    BY <2>1, <2>2 DEF t
<1>3. /\ Joined(s) \in Seq(Marks)
      /\ Len(Joined(s)) = Len(s) + 2
      /\ \A i \in 1..(Len(s) + 2) :
           Joined(s)[i] = IF i = 1 THEN "loaded" ELSE IF i = 2 THEN "connected" ELSE s[i - 2]
  BY JoinedKnown
<1>4. /\ Append(Joined(s), event) \in Seq(Marks)
      /\ Len(Append(Joined(s), event)) = Len(s) + 3
      /\ \A i \in 1..(Len(s) + 2) : Append(Joined(s), event)[i] = Joined(s)[i]
      /\ Append(Joined(s), event)[Len(s) + 3] = event
  <2>1. event \in Marks
    BY DEF Marks
  <2> QED
    BY <1>1, <1>3, <2>1, AppendProperties
<1>5. ASSUME NEW i \in 1..(Len(s) + 3)
      PROVE  Joined(Append(s, event))[i] = Append(Joined(s), event)[i]
  <2>1. CASE i \in {1, 2}
    BY <1>1, <1>2, <1>3, <1>4, <2>1
  <2>2. CASE i \in 3..(Len(s) + 2)
    <3>1. i - 2 \in 1..Len(s)
      BY <1>1, <2>2
    <3>2. Append(s, event)[i - 2] = s[i - 2]
      BY <1>1, <3>1
    <3> QED
      BY <1>1, <1>2, <1>3, <1>4, <2>2, <3>2
  <2>3. CASE i = Len(s) + 3
    <3>1. i # 1 /\ i # 2 /\ i - 2 = Len(s) + 1
      BY <1>1, <2>3
    <3> QED
      BY <1>1, <1>2, <1>4, <2>3, <3>1
  <2>4. \A n \in Nat : i \in 1..(n + 3) => i \in {1, 2} \/ i \in 3..(n + 2) \/ i = n + 3
    OBVIOUS
  <2> QED
    BY <1>1, <2>1, <2>2, <2>3, <2>4
<1> QED
  BY <1>2, <1>4, <1>5, SeqEqual

LEMMA JoinedLast ==
  ASSUME NEW s \in Seq(Events)
  PROVE  /\ Joined(s) # <<>>
         /\ Joined(s)[Len(Joined(s))] = IF s = <<>> THEN "connected" ELSE s[Len(s)]
<1>1. Len(s) \in Nat /\ (s = <<>> <=> Len(s) = 0)
  BY LenProperties, EmptySeq
<1>2. Len(s) + 2 \in 1..(Len(s) + 2) /\ Len(s) + 2 # 1 /\ Len(s) + 2 - 2 = Len(s)
  BY <1>1
<1>3. Joined(s)[Len(s) + 2] = IF Len(s) + 2 = 2 THEN "connected" ELSE s[Len(s)]
  BY <1>2, JoinedKnown
<1>4. Joined(s) # <<>>
  <2>1. Len(Joined(s)) = Len(s) + 2
    BY JoinedKnown
  <2>2. Len(<<>>) = 0
    OBVIOUS
  <2> QED
    BY <1>1, <2>1, <2>2
<1> QED
  BY <1>1, <1>3, <1>4, JoinedKnown

-----------------------------------------------------------------------------
(* Where the plugins are.  What is loaded is connected at once, and all of *)
(* it has heard the same last event.                                       *)

LastHeard(p) == heard[p][Len(heard[p])]

StageInv ==
  /\ \A p \in Plugins : p \notin connected => heard[p] = <<>>
  /\ pc \in BeforeManager \cup {"plugin_init_event", "plugin_startup"} =>
       loaded = {} /\ connected = {}
  /\ pc = "plugin_connect" => connected = {}
  /\ BeforeShutdown /\ pc # "plugin_connect" => loaded = connected
  /\ pc = "register_methods" =>
       \A p \in connected : heard[p] = <<>> \/ LastHeard(p) = "RegisterClingInterpreter"
  /\ pc \in {"commands", "send_version", "send_help"} =>
       \A p \in connected : heard[p] # <<>> /\ LastHeard(p) = "RegisterAnnotationMethods"
  /\ BeforeShutdown => \A p \in connected : heard[p] # <<>> =>
       LastHeard(p) \in {"RegisterClingInterpreter", "RegisterAnnotationMethods", "version"}
  /\ \A p \in connected : p \in loaded \/ heard[p] # <<>>

LEMMA StageInit == Init => StageInv
BY DEF Init, StageInv, BeforeManager

\* After a trigger each connected plugin has heard the event last.
LEMMA TriggerHeard ==
  ASSUME TypeOK, NEW event \in Events, NEW listeners, NEW objects,
         Tell(listeners, event, objects)
  PROVE  /\ \A p \in Plugins : p \in listeners =>
              /\ heard'[p] = Append(heard[p], event)
              /\ heard'[p] # <<>>
              /\ heard'[p][Len(heard'[p])] = event
         /\ \A p \in Plugins : p \notin listeners => heard'[p] = heard[p]
<1>1. \A p \in Plugins : heard[p] \in Seq(Events)
  BY DEF TypeOK
<1>2. \A p \in Plugins : /\ heard'[p] =
                             IF p \in listeners THEN Append(heard[p], event) ELSE heard[p]
  BY DEF Tell
<1>3. \A s \in Seq(Events) : /\ Append(s, event) # <<>>
                             /\ Append(s, event)[Len(Append(s, event))] = event
  <2> TAKE s \in Seq(Events)
  <2>1. /\ Len(Append(s, event)) = Len(s) + 1 /\ Len(s) \in Nat
        /\ Append(s, event)[Len(s) + 1] = event
    BY AppendProperties, LenProperties
  <2> QED
    BY <2>1
<1> QED
  BY <1>1, <1>2, <1>3

LEMMA StageNext ==
  TypeOK /\ EventInv /\ ShutdownInv /\ DestructionInv /\ StageInv /\ [Next]_vars => StageInv'
<1> SUFFICES ASSUME TypeOK, EventInv, ShutdownInv, DestructionInv, StageInv, [Next]_vars
             PROVE  StageInv'
  OBVIOUS
<1> USE DEF InitPcs, CommandPcs, EndPcs, Continue, pluginVars, BeforeManager, LastHeard
<1>0. connected \subseteq Plugins /\ loaded \subseteq Plugins /\ slot \in 0..11
  BY MembersKnown DEF TypeOK
\* A step that reaches no plugin.
<1>1. CASE /\ UNCHANGED <<loaded, connected, heard>>
           /\ BeforeShutdown' => BeforeShutdown
           /\ pc # "plugin_connect" \/ ~BeforeShutdown'
           /\ pc' \notin {"plugin_connect", "register_methods", "commands", "send_version",
                         "send_help"}
           /\ pc' \in BeforeManager \cup {"plugin_init_event", "plugin_startup"} =>
                pc \in BeforeManager \cup {"plugin_init_event", "plugin_startup"}
  BY <1>1 DEF StageInv
<1>2. CASE InitCmd \/ InitBase \/ ConnectManager
  <2>1. /\ UNCHANGED <<loaded, connected, heard, slot>> /\ pc \in BeforeManager
        /\ pc' \in BeforeManager \cup {"plugin_init_event", "teardown", "exited"}
    BY <1>2 DEF InitCmd, InitBase, ConnectManager, Return, End, FailInit
  <2> QED
    BY <1>1, <2>1 DEF BeforeShutdown
<1>3. CASE SendInit
  <2>1. connected = {} /\ loaded = {}
    BY <1>3 DEF SendInit, StageInv
  <2>2. \A p \in Plugins : heard'[p] = heard[p]
    BY <1>3, <2>1 DEF SendInit, Trigger, Tell
  <2>3. UNCHANGED <<loaded, connected>> /\ pc' \in {"plugin_startup", "exited"}
    BY <1>3 DEF SendInit, Trigger, End
  <2> QED
    BY <2>1, <2>2, <2>3 DEF StageInv
<1>4. CASE StartUpPlugins
  <2>1. connected = {} /\ UNCHANGED <<connected, heard>> /\ pc' = "plugin_connect"
    BY <1>4 DEF StartUpPlugins, StageInv
  <2> QED
    BY <2>1 DEF StageInv
<1>5. CASE ConnectPlugins
  <2>1. connected = {} /\ connected' = loaded /\ UNCHANGED <<loaded, heard>> /\ pc' = "init_clang"
    BY <1>5 DEF ConnectPlugins, StageInv
  <2>2. \A p \in Plugins : heard[p] = <<>>
    BY <2>1 DEF StageInv
  <2> QED
    BY <1>0, <2>1, <2>2 DEF StageInv
<1>6. CASE InitClang
  <2>1. /\ pc = "init_clang" /\ UNCHANGED <<loaded, connected, heard, slot>>
        /\ pc' \in {"init_cling", "register_methods", "teardown", "exited"}
    BY <1>6 DEF InitClang, Return, End
  <2>2. \A p \in Plugins : heard[p] = <<>>
    BY <2>1 DEF EventInv
  <2>3. loaded = connected
    BY <2>1 DEF StageInv, BeforeShutdown
  <2> QED
    BY <1>0, <2>1, <2>2, <2>3 DEF StageInv
<1>7. CASE InitCling
  <2>1. /\ pc = "init_cling" /\ UNCHANGED <<loaded, connected, heard, slot>>
        /\ pc' \in {"register_interpreter", "teardown", "exited"}
    BY <1>7 DEF InitCling, Return, End
  <2> QED
    BY <1>1, <2>1 DEF BeforeShutdown
<1>8. CASE RegisterClingInterpreter
  <2>1. /\ pc = "register_interpreter" /\ pc' = "register_methods"
        /\ Tell(connected, "RegisterClingInterpreter", {"clingInterpreter"})
        /\ UNCHANGED <<loaded, connected>>
    BY <1>8 DEF RegisterClingInterpreter, Trigger
  <2>2. "RegisterClingInterpreter" \in Events
    BY DEF Events
  <2>3. loaded = connected
    BY <2>1 DEF StageInv, BeforeShutdown
  <2> QED
    BY <1>0, <2>1, <2>2, <2>3, TriggerHeard DEF StageInv
<1>9. CASE RegisterAnnotationMethods
  <2>1. /\ pc = "register_methods" /\ pc' = "commands"
        /\ Tell(connected, "RegisterAnnotationMethods",
                {"annotationMethods", "sourceTransformPipeline"})
        /\ UNCHANGED <<loaded, connected>>
    BY <1>9 DEF RegisterAnnotationMethods, Trigger
  <2>2. "RegisterAnnotationMethods" \in Events
    BY DEF Events
  <2>3. loaded = connected
    BY <2>1 DEF StageInv, BeforeShutdown
  <2> QED
    BY <1>0, <2>1, <2>2, <2>3, TriggerHeard DEF StageInv
<1>10. CASE LogVersion \/ LogHelp \/ NoCommand
  <2>1. /\ pc = "commands" /\ pc' \in {"send_version", "send_help", "tool"}
        /\ UNCHANGED <<loaded, connected, heard, slot>>
    BY <1>10 DEF LogVersion, LogHelp, NoCommand
  <2> QED
    BY <2>1 DEF StageInv, BeforeShutdown
<1>11. CASE SendVersion \/ SendHelp
  <2>1. /\ pc \in {"send_version", "send_help"} /\ pc' \in {"tool", "teardown"}
        /\ Tell(connected, "version", {})
        /\ UNCHANGED <<loaded, connected>>
    BY <1>11 DEF SendVersion, SendHelp, Trigger, Return
  <2>2. "version" \in Events
    BY DEF Events
  <2>3. loaded = connected
    BY <2>1 DEF StageInv, BeforeShutdown
  <2> QED
    BY <1>0, <2>1, <2>2, <2>3, TriggerHeard DEF StageInv
<1>12. CASE RunTool
  <2>1. /\ pc = "tool" /\ UNCHANGED <<loaded, connected, heard, slot>>
        /\ pc' \in {"teardown", "exited"}
    BY <1>12 DEF RunTool, Return, End
  <2> QED
    BY <1>1, <2>1 DEF BeforeShutdown
<1>13. CASE ShutdownPlugins
  <2>1. slot = 4 /\ pc = "teardown" /\ pc' = "teardown_plugins" /\ UNCHANGED <<slot, connected>>
    <3>1. slot \in 1..11
      BY <1>13, MembersKnown DEF ShutdownPlugins, TypeOK
    <3> QED
      BY <1>13, <3>1, MemberNames DEF ShutdownPlugins
  <2>2. loaded = connected /\ (managerConnected \/ loaded = {})
    BY <2>1 DEF StageInv, ShutdownInv, BeforeShutdown
  <2>3. "unload" \in Events
    BY DEF Events
  <2>4. \/ Tell(loaded, "unload", {})
        \/ UNCHANGED heard /\ loaded = {}
    BY <1>13, <2>2 DEF ShutdownPlugins
  <2>5. \A p \in Plugins : p \notin connected => heard'[p] = <<>>
    BY <2>2, <2>3, <2>4, TriggerHeard DEF StageInv
  <2>6. \A p \in connected : heard'[p] # <<>>
    BY <1>0, <2>2, <2>3, <2>4, TriggerHeard
  <2>7. ~BeforeShutdown'
    BY <2>1 DEF BeforeShutdown
  <2> QED
    BY <2>1, <2>5, <2>6, <2>7 DEF StageInv
<1>14. CASE DestroyMember
  <2>1. /\ pc \in {"teardown", "teardown_plugins"} /\ pc' \in {"teardown", "exited"}
        /\ UNCHANGED <<heard, loaded, connected>>
    BY <1>14 DEF DestroyMember
  <2>2. slot \in 1..11 /\ slot' = slot - 1
    BY <1>14, MembersKnown DEF DestroyMember, TypeOK
  <2>3. pc = "teardown_plugins" => slot = 4
    BY DEF EventInv
  <2> QED
    BY <1>1, <2>1, <2>2, <2>3 DEF BeforeShutdown
<1>15. CASE UNCHANGED vars
  <2>1. UNCHANGED <<pc, slot, heard, loaded, connected>>
    BY <1>15 DEF vars
  <2> QED
    BY <2>1 DEF StageInv, BeforeShutdown
<1> QED
  BY <1>2, <1>3, <1>4, <1>5, <1>6, <1>7, <1>8, <1>9, <1>10, <1>11, <1>12, <1>13, <1>14, <1>15
     DEF Next, Step, Finished

-----------------------------------------------------------------------------
(* The refinement mapping, plugin by plugin.                               *)

Place(p) ==
  IF p \in connected THEN Joined(heard[p])
  ELSE IF p \in loaded THEN <<"loaded">> ELSE <<>>

LEMMA HistoryKnown == TypeOK /\ StageInv => history = [p \in Plugins |-> Place(p)]
<1> SUFFICES ASSUME TypeOK, StageInv, NEW p \in Plugins
             PROVE  (IF p \in loaded \/ heard[p] # <<>> THEN <<"loaded">> ELSE <<>>)
                    \o (IF p \in connected THEN <<"connected">> ELSE <<>>)
                    \o heard[p] = Place(p)
  BY DEF history
<1>1. CASE p \in connected
  <2>1. p \in loaded \/ heard[p] # <<>>
    BY <1>1 DEF StageInv
  <2> QED
    BY <1>1, <2>1 DEF Place, Joined
<1>2. CASE p \notin connected
  <2>1. heard[p] = <<>>
    BY <1>2 DEF StageInv
  <2>2. <<"loaded">> \o <<>> \o <<>> = <<"loaded">> /\ <<>> \o <<>> \o <<>> = <<>>
    OBVIOUS
  <2> QED
    BY <1>2, <2>1, <2>2 DEF Place
<1> QED
  BY <1>1, <1>2

LEMMA HistoryKnownNext == (TypeOK /\ StageInv => history = [p \in Plugins |-> Place(p)])'
BY HistoryKnown, PTL

\* An event that all connected plugins hear takes them on together.
LEMMA TellAdvances ==
  ASSUME TypeOK, StageInv, TypeOK', StageInv', loaded = connected, UNCHANGED connected,
         loaded' \subseteq loaded,
         NEW event \in Events, NEW objects, Tell(connected, event, objects),
         NEW from,
         \A p \in connected :
           (IF heard[p] = <<>> THEN "connected" ELSE LastHeard(p)) \in from
  PROVE  Protocol!Advance(from, event)
<1>1. history = [p \in Plugins |-> Place(p)]
  BY HistoryKnown
<1>2. history' = [p \in Plugins |-> Place(p)']
  BY HistoryKnownNext
<1>3. \A p \in Plugins : heard[p] \in Seq(Events)
  BY DEF TypeOK
<1>4. ASSUME NEW p \in Plugins, p \in connected
      PROVE  /\ history[p] # <<>>
             /\ history[p][Len(history[p])] \in from
             /\ Place(p)' = Append(history[p], event)
  <2>1. history[p] = Joined(heard[p])
    BY <1>1, <1>4 DEF Place
  <2>2. heard'[p] = Append(heard[p], event)
    BY <1>4 DEF Tell
  <2>3. Place(p)' = Joined(heard'[p])
    BY <1>4 DEF Place
  <2>4. Joined(Append(heard[p], event)) = Append(Joined(heard[p]), event)
    BY <1>3, JoinedAppend
  <2>5. /\ Joined(heard[p]) # <<>>
        /\ Joined(heard[p])[Len(Joined(heard[p]))] =
             IF heard[p] = <<>> THEN "connected" ELSE LastHeard(p)
    BY <1>3, JoinedLast DEF LastHeard
  <2>6. (IF heard[p] = <<>> THEN "connected" ELSE LastHeard(p)) \in from
    BY <1>4
  <2> QED
    BY <2>1, <2>2, <2>3, <2>4, <2>5, <2>6
<1>5. ASSUME NEW p \in Plugins, p \notin connected
      PROVE  history[p] = <<>> /\ Place(p)' = <<>>
  BY <1>1, <1>5 DEF Place
<1>6. \A p \in Plugins : history[p] # <<>> => Protocol!Last(p) \in from
  BY <1>4, <1>5 DEF Protocol!Last
<1>7. \A p \in Plugins :
        Place(p)' = IF history[p] = <<>> THEN <<>> ELSE Append(history[p], event)
  BY <1>4, <1>5
<1>8. history' = [p \in Plugins |->
                    IF history[p] = <<>> THEN <<>> ELSE Append(history[p], event)]
  BY <1>2, <1>7
<1> QED
  BY <1>6, <1>8 DEF Protocol!Advance

\* Where the plugins are left alone, so is their history.
LEMMA HistoryStays ==
  UNCHANGED <<loaded, connected, heard>> => UNCHANGED history
BY DEF history

-----------------------------------------------------------------------------
(* Every step of the process is a step of the protocol.                    *)

LEMMA ProtocolInit == Init => Protocol!Init
<1> SUFFICES ASSUME Init, NEW p \in Plugins PROVE history[p] = <<>>
  BY DEF Protocol!Init, history
<1>1. p \notin loaded /\ p \notin connected /\ heard[p] = <<>>
  BY DEF Init
<1>2. <<>> \o <<>> \o <<>> = <<>>
  OBVIOUS
<1> QED
  BY <1>1, <1>2 DEF history

LEMMA LoadStep ==
  TypeOK /\ TypeOK' /\ StageInv /\ StageInv' /\ StartUpPlugins => Protocol!Load
<1> SUFFICES ASSUME TypeOK, TypeOK', StageInv, StageInv', StartUpPlugins PROVE Protocol!Load
  OBVIOUS
<1>1. /\ history = [p \in Plugins |-> Place(p)]
      /\ history' = [p \in Plugins |-> Place(p)']
  BY HistoryKnown, HistoryKnownNext
<1>2. loaded = {} /\ connected = {} /\ connected' = {} /\ loaded' \in SUBSET Plugins
  BY DEF StartUpPlugins, StageInv
<1>3. \A p \in Plugins : history[p] = <<>>
  BY <1>1, <1>2 DEF Place
<1>4. \A p \in Plugins : Place(p)' = IF p \in loaded' THEN <<"loaded">> ELSE <<>>
  BY <1>2 DEF Place
<1>5. history' = [p \in Plugins |-> IF p \in loaded' THEN <<"loaded">> ELSE <<>>]
  BY <1>1, <1>4
<1> QED
  BY <1>2, <1>3, <1>5 DEF Protocol!Load

LEMMA ConnectStep ==
  TypeOK /\ TypeOK' /\ StageInv /\ StageInv' /\ ConnectPlugins
    => Protocol!Advance({"loaded"}, "connected")
<1> SUFFICES ASSUME TypeOK, TypeOK', StageInv, StageInv', ConnectPlugins
             PROVE  Protocol!Advance({"loaded"}, "connected")
  OBVIOUS
<1>1. /\ history = [p \in Plugins |-> Place(p)]
      /\ history' = [p \in Plugins |-> Place(p)']
  BY HistoryKnown, HistoryKnownNext
<1>2. connected = {} /\ connected' = loaded /\ UNCHANGED <<loaded, heard>>
  BY DEF ConnectPlugins, StageInv
<1>3. \A p \in Plugins : heard[p] = <<>>
  BY <1>2 DEF StageInv
<1>4. Joined(<<>>) = Append(<<"loaded">>, "connected")
  <2>1. <<"loaded">> \o <<"connected">> \o <<>> = Append(<<"loaded">>, "connected")
    OBVIOUS
  <2> QED
    BY <2>1 DEF Joined
<1>5. \A p \in Plugins : history[p] = IF p \in loaded THEN <<"loaded">> ELSE <<>>
  BY <1>1, <1>2 DEF Place
<1>6. \A p \in Plugins :
        Place(p)' = IF p \in loaded THEN Append(<<"loaded">>, "connected") ELSE <<>>
  BY <1>2, <1>3, <1>4 DEF Place
<1>7. <<"loaded">> # <<>> /\ Len(<<"loaded">>) = 1 /\ <<"loaded">>[1] = "loaded"
  OBVIOUS
<1>8. \A p \in Plugins : history[p] # <<>> => Protocol!Last(p) = "loaded"
  BY <1>5, <1>7 DEF Protocol!Last
<1>9. \A p \in Plugins :
        Place(p)' = IF history[p] = <<>> THEN <<>> ELSE Append(history[p], "connected")
  BY <1>5, <1>6, <1>7
<1>10. history' = [p \in Plugins |->
                     IF history[p] = <<>> THEN <<>> ELSE Append(history[p], "connected")]
  BY <1>1, <1>9
<1> QED
  BY <1>8, <1>10 DEF Protocol!Advance

LEMMA ProtocolStep ==
  /\ TypeOK /\ TypeOK' /\ EventInv /\ ShutdownInv /\ StageInv /\ StageInv'
  /\ [Next]_vars
  => [Protocol!Next]_history
<1> SUFFICES ASSUME TypeOK, TypeOK', EventInv, ShutdownInv, StageInv, StageInv', [Next]_vars
             PROVE  Protocol!Next \/ UNCHANGED history
  OBVIOUS
<1> USE DEF pluginVars
<1>0. pc \notin EndPcs /\ pc \notin BeforeManager \cup {"plugin_init_event", "plugin_startup"}
      /\ pc # "plugin_connect" => loaded = connected
  BY DEF StageInv, BeforeShutdown
<1>1. CASE InitCmd \/ InitBase \/ ConnectManager \/ InitClang \/ InitCling
           \/ LogVersion \/ LogHelp \/ NoCommand \/ RunTool \/ DestroyMember \/ UNCHANGED vars
  <2>1. UNCHANGED <<loaded, connected, heard>>
    BY <1>1 DEF InitCmd, InitBase, ConnectManager, InitClang, InitCling, LogVersion, LogHelp,
                NoCommand, RunTool, DestroyMember, vars
  <2> QED
    BY <2>1, HistoryStays
<1>2. CASE SendInit
  <2>1. connected = {} /\ UNCHANGED <<loaded, connected>>
    BY <1>2 DEF SendInit, Trigger, StageInv
  <2>2. heard' = [p \in Plugins |-> heard[p]] /\ heard = [p \in Plugins |-> heard[p]]
    BY <1>2, <2>1 DEF SendInit, Trigger, Tell, TypeOK
  <2> QED
    BY <2>1, <2>2, HistoryStays
<1>3. CASE StartUpPlugins
  BY <1>3, LoadStep DEF Protocol!Next
<1>4. CASE ConnectPlugins
  BY <1>4, ConnectStep DEF Protocol!Next
<1>5. CASE RegisterClingInterpreter
  <2>1. /\ pc = "register_interpreter" /\ UNCHANGED <<loaded, connected>>
        /\ Tell(connected, "RegisterClingInterpreter", {"clingInterpreter"})
    BY <1>5 DEF RegisterClingInterpreter, Trigger
  <2>2. loaded = connected
    BY <1>0, <2>1 DEF EndPcs, BeforeManager
  <2>3. \A p \in connected : heard[p] = <<>>
    BY <2>1 DEF EventInv, InitPcs, TypeOK
  <2> QED
    BY <2>1, <2>2, <2>3, TellAdvances DEF Events, Protocol!Next
<1>6. CASE RegisterAnnotationMethods
  <2>1. /\ pc = "register_methods" /\ UNCHANGED <<loaded, connected>>
        /\ Tell(connected, "RegisterAnnotationMethods",
                {"annotationMethods", "sourceTransformPipeline"})
    BY <1>6 DEF RegisterAnnotationMethods, Trigger
  <2>2. loaded = connected
    BY <1>0, <2>1 DEF EndPcs, BeforeManager
  <2>3. \A p \in connected : (IF heard[p] = <<>> THEN "connected" ELSE LastHeard(p))
          \in {"connected", "RegisterClingInterpreter"}
    BY <2>1 DEF StageInv
  <2> QED
    BY <2>1, <2>2, <2>3, TellAdvances DEF Events, Protocol!Next
<1>7. CASE SendVersion \/ SendHelp
  <2>1. /\ pc \in {"send_version", "send_help"} /\ UNCHANGED <<loaded, connected>>
        /\ Tell(connected, "version", {})
    BY <1>7 DEF SendVersion, SendHelp, Trigger
  <2>2. loaded = connected
    BY <1>0, <2>1 DEF EndPcs, BeforeManager
  <2>3. \A p \in connected : (IF heard[p] = <<>> THEN "connected" ELSE LastHeard(p))
          \in {"RegisterAnnotationMethods"}
    BY <2>1 DEF StageInv
  <2> QED
    BY <2>1, <2>2, <2>3, TellAdvances DEF Events, Protocol!Next
<1>8. CASE ShutdownPlugins
  <2>1. pc = "teardown" /\ slot = 4
    <3>1. slot \in 1..11
      BY <1>8, MembersKnown DEF ShutdownPlugins, TypeOK
    <3> QED
      BY <1>8, <3>1, MemberNames DEF ShutdownPlugins
  <2>2. BeforeShutdown
    BY <2>1 DEF BeforeShutdown
  <2>3. loaded = connected /\ (managerConnected \/ loaded = {})
    BY <2>1, <2>2 DEF StageInv, ShutdownInv
  <2>4. CASE managerConnected
    <3>1. Tell(connected, "unload", {}) /\ loaded' \subseteq loaded /\ UNCHANGED connected
      BY <1>8, <2>3, <2>4 DEF ShutdownPlugins
    <3>2. \A p \in connected : (IF heard[p] = <<>> THEN "connected" ELSE LastHeard(p))
            \in Protocol!Steps \ {"unload"}
      BY <2>2 DEF StageInv, Protocol!Steps
    <3> QED
      BY <2>3, <3>1, <3>2, TellAdvances DEF Events, Protocol!Next
  <2>5. CASE ~managerConnected
    BY <1>8, <2>5, HistoryStays DEF ShutdownPlugins
  <2> QED
    BY <2>4, <2>5
<1> QED
  BY <1>1, <1>2, <1>3, <1>4, <1>5, <1>6, <1>7, <1>8 DEF Next, Step, Finished

\* The order of initEnv, the dispatcher and the destructors together keep the
\* plugins' contract, however many plugins there are.
THEOREM ProtocolKept == Spec => FollowsProtocol
BY TypeOKInit, TypeOKNext, DestructionInit, DestructionNext, EventInit, EventNext,
   ShutdownInit, ShutdownNext, StageInit, StageNext, ProtocolInit, ProtocolStep, PTL
   DEF Spec, FollowsProtocol, Protocol!Spec

-----------------------------------------------------------------------------
(* What has come to pass when libtooling runs, for the process around it.  *)

HasInterpreter(p) == \E i \in DOMAIN heard[p] : heard[p][i] = "RegisterClingInterpreter"

InterpreterInv == pc \in CommandPcs /\ run.cling => \A p \in connected : HasInterpreter(p)

LEMMA InterpreterInit == Init => InterpreterInv
BY DEF Init, InterpreterInv, CommandPcs

\* A trigger takes nothing back.
LEMMA InterpreterStays ==
  ASSUME TypeOK, NEW listeners, NEW event \in Events, NEW objects,
         Tell(listeners, event, objects), NEW p \in Plugins,
         HasInterpreter(p) \/ (p \in listeners /\ event = "RegisterClingInterpreter")
  PROVE  HasInterpreter(p)'
<1>1. heard[p] \in Seq(Events)
  BY DEF TypeOK
<1>2. heard'[p] = IF p \in listeners THEN Append(heard[p], event) ELSE heard[p]
  BY DEF Tell
<1>3. CASE p \in listeners
  <2>1. /\ Len(heard[p]) \in Nat
        /\ DOMAIN heard[p] = 1..Len(heard[p])
        /\ DOMAIN heard'[p] = 1..(Len(heard[p]) + 1)
        /\ \A i \in 1..Len(heard[p]) : heard'[p][i] = heard[p][i]
        /\ heard'[p][Len(heard[p]) + 1] = event
    BY <1>1, <1>2, <1>3, AppendProperties, LenProperties
  <2>2. CASE HasInterpreter(p)
    <3>1. PICK i \in 1..Len(heard[p]) : heard[p][i] = "RegisterClingInterpreter"
      BY <2>1, <2>2 DEF HasInterpreter
    <3>2. i \in DOMAIN heard'[p] /\ heard'[p][i] = "RegisterClingInterpreter"
      BY <2>1, <3>1
    <3> QED
      BY <3>2 DEF HasInterpreter
  <2>3. CASE event = "RegisterClingInterpreter"
    <3>1. Len(heard[p]) + 1 \in DOMAIN heard'[p]
      BY <2>1
    <3> QED
      BY <2>1, <2>3, <3>1 DEF HasInterpreter
  <2> QED
    BY <2>2, <2>3
<1>4. CASE p \notin listeners
  BY <1>2, <1>4 DEF HasInterpreter
<1> QED
  BY <1>3, <1>4

LEMMA InterpreterNext == TypeOK /\ InterpreterInv /\ [Next]_vars => InterpreterInv'
<1> SUFFICES ASSUME TypeOK, InterpreterInv, [Next]_vars PROVE InterpreterInv'
  OBVIOUS
<1> USE DEF CommandPcs, Continue, pluginVars
<1>0. connected \subseteq Plugins
  BY DEF TypeOK
<1>1. CASE InitCmd \/ InitBase \/ ConnectManager \/ SendInit \/ StartUpPlugins
           \/ ConnectPlugins \/ InitCling \/ ShutdownPlugins \/ DestroyMember
  <2>1. pc' \notin CommandPcs
    BY <1>1 DEF InitCmd, InitBase, ConnectManager, SendInit, StartUpPlugins, ConnectPlugins,
                InitCling, ShutdownPlugins, DestroyMember, Return, End, FailInit
  <2> QED
    BY <2>1 DEF InterpreterInv
<1>2. CASE InitClang
  <2>1. pc' \in CommandPcs => ~run.cling /\ UNCHANGED run
    BY <1>2 DEF InitClang, Return, End
  <2> QED
    BY <2>1 DEF InterpreterInv
<1>3. CASE RegisterClingInterpreter
  <2>1. Tell(connected, "RegisterClingInterpreter", {"clingInterpreter"}) /\ UNCHANGED connected
    BY <1>3 DEF RegisterClingInterpreter, Trigger
  <2>2. \A p \in connected : HasInterpreter(p)'
    BY <1>0, <2>1, InterpreterStays DEF Events
  <2> QED
    BY <2>1, <2>2 DEF InterpreterInv
<1>4. CASE RegisterAnnotationMethods \/ SendVersion \/ SendHelp
  <2>1. /\ \/ Tell(connected, "RegisterAnnotationMethods",
                   {"annotationMethods", "sourceTransformPipeline"})
           \/ Tell(connected, "version", {})
        /\ UNCHANGED <<run, connected>> /\ pc \in CommandPcs
    BY <1>4 DEF RegisterAnnotationMethods, SendVersion, SendHelp, Trigger
  <2>2. run.cling => \A p \in connected : HasInterpreter(p)
    BY <2>1 DEF InterpreterInv
  <2>3. run.cling => \A p \in connected : HasInterpreter(p)'
    BY <1>0, <2>1, <2>2, InterpreterStays DEF Events
  <2> QED
    BY <2>1, <2>3 DEF InterpreterInv
<1>5. CASE LogVersion \/ LogHelp \/ NoCommand \/ RunTool \/ UNCHANGED vars
  <2>1. UNCHANGED <<run, connected, heard>> /\ (pc' \in CommandPcs => pc \in CommandPcs)
    BY <1>5 DEF LogVersion, LogHelp, NoCommand, RunTool, Return, End, vars
  <2> QED
    BY <2>1 DEF InterpreterInv, HasInterpreter
<1> QED
  BY <1>1, <1>2, <1>3, <1>4, <1>5 DEF Next, Step, Finished

LEMMA AtTheTool ==
  EventInv /\ StageInv /\ PointerInv /\ InterpreterInv /\ pc = "tool" =>
    /\ loaded = connected
    /\ \A p \in connected : Registered(p)
    /\ run.cling => \A p \in connected : HasInterpreter(p)
    /\ Reachable \subseteq alive
BY ChainExists DEF EventInv, StageInv, InterpreterInv, BeforeShutdown, EndPcs, CommandPcs,
                   BeforeManager

=============================================================================
