------------------------ MODULE FlextoolSystemProofs ------------------------
(***************************************************************************)
(* Proofs about FlextoolSystem for every set of plugins, command lines and *)
(* files: the composed process takes no step that its parts would not      *)
(* take, so their invariants hold in it; with those that relate the parts  *)
(* they lead from the command line to the files, and to the contract with  *)
(* whoever starts the process.                                             *)
(***************************************************************************)
EXTENDS FlextoolSystem, FlattenFacts, SequenceTheorems, TLAPS

-----------------------------------------------------------------------------
(* Each step of the process is one of ToolLifecycle, or leaves it alone.   *)

LEMMA LifecycleStep == [Next]_vars => [Tool!Next]_toolVars
<1> SUFFICES ASSUME [Next]_vars PROVE Tool!Next \/ UNCHANGED toolVars
  OBVIOUS
<1>1. CASE Proceed
  BY <1>1 DEF Proceed, Tool!Next
<1>2. CASE BuildClangArgs \/ BuildClingArgs \/ Generate
  BY <1>2 DEF BuildClangArgs, BuildClingArgs, Generate
<1>3. CASE InitClang
  BY <1>3 DEF InitClang, Tool!Next, Tool!Step
<1>4. CASE InitCling
  BY <1>4 DEF InitCling, Tool!Next, Tool!Step
<1>5. CASE ParserExits \/ FinishTool
  BY <1>5 DEF ParserExits, FinishTool, Tool!Next, Tool!Step
<1>6. CASE UNCHANGED vars
  BY <1>6 DEF vars
<1> QED
  BY <1>1, <1>2, <1>3, <1>4, <1>5, <1>6 DEF Next, Step, Finished

\* The process is a lifecycle of ToolLifecycle, but for fairness.
THEOREM LifecycleRefined == Spec => Tool!Init /\ [][Tool!Next]_toolVars
<1>1. Init => Tool!Init
  BY DEF Init
<1> QED
  BY <1>1, LifecycleStep, PTL DEF Spec

-----------------------------------------------------------------------------
(* The building of the arguments is spread over two environments; every    *)
(* step of it is one of ArgForwarding, and nothing else touches the lists. *)

LEMMA ForwardingStep == [Next]_vars => [Args!Next]_argVars
<1> SUFFICES ASSUME [Next]_vars PROVE Args!Next \/ UNCHANGED argVars
  OBVIOUS
<1>1. CASE BuildClangArgs \/ BuildClingArgs
  BY <1>1 DEF BuildClangArgs, BuildClingArgs, Args!Next
<1>2. CASE Proceed \/ InitClang \/ InitCling
  BY <1>2 DEF Proceed, InitClang, InitCling
<1>3. CASE ParserExits \/ Generate \/ FinishTool
  BY <1>3 DEF ParserExits, Generate, FinishTool
<1>4. CASE UNCHANGED vars
  BY <1>4 DEF vars
<1> QED
  BY <1>1, <1>2, <1>3, <1>4 DEF Next, Step, Finished

-----------------------------------------------------------------------------
(* What is proved of the lifecycle alone holds in the process: the proofs  *)
(* are instantiated, and a step of Tool is one of their module, definition *)
(* by definition.                                                          *)

Lifecycle == INSTANCE PluginProtocolProofs WITH Plugins <- Plugins

LEMMA SameInit == Tool!Init => Lifecycle!Init
BY DEF Tool!Init, Lifecycle!Init, Tool!Members, Lifecycle!Members, Tool!Run, Lifecycle!Run,
       Tool!BuiltByConstructors, Lifecycle!BuiltByConstructors

LEMMA SameStep == Tool!Next => Lifecycle!Next
<1> SUFFICES ASSUME Tool!Next PROVE Lifecycle!Next
  OBVIOUS
<1> USE DEF Tool!Continue, Lifecycle!Continue, Tool!End, Lifecycle!End,
            Tool!Return, Lifecycle!Return, Tool!pluginVars, Lifecycle!pluginVars
<1>1. Tool!InitCmd => Lifecycle!InitCmd
  BY DEF Tool!InitCmd, Lifecycle!InitCmd, Tool!FailInit, Lifecycle!FailInit
<1>2. Tool!InitBase => Lifecycle!InitBase
  BY DEF Tool!InitBase, Lifecycle!InitBase, Tool!OutDir, Lifecycle!OutDir
<1>3. Tool!ConnectManager => Lifecycle!ConnectManager
  BY DEF Tool!ConnectManager, Lifecycle!ConnectManager, Tool!FailInit, Lifecycle!FailInit
<1>4. \A event, objects : Tool!Trigger(event, objects) => Lifecycle!Trigger(event, objects)
  BY DEF Tool!Trigger, Lifecycle!Trigger, Tool!Tell, Lifecycle!Tell
<1>5. Tool!SendInit => Lifecycle!SendInit
  BY <1>4 DEF Tool!SendInit, Lifecycle!SendInit, Tool!OutDirIsCurrent,
              Lifecycle!OutDirIsCurrent, Tool!OutDir, Lifecycle!OutDir
<1>6. Tool!StartUpPlugins => Lifecycle!StartUpPlugins
  BY DEF Tool!StartUpPlugins, Lifecycle!StartUpPlugins
<1>7. Tool!ConnectPlugins => Lifecycle!ConnectPlugins
  BY DEF Tool!ConnectPlugins, Lifecycle!ConnectPlugins
<1>8. Tool!InitClang => Lifecycle!InitClang
  BY DEF Tool!InitClang, Lifecycle!InitClang, Tool!BuiltByClangInit,
         Lifecycle!BuiltByClangInit, Tool!OutDir, Lifecycle!OutDir
<1>9. Tool!InitCling => Lifecycle!InitCling
  BY DEF Tool!InitCling, Lifecycle!InitCling
<1>10. Tool!RegisterClingInterpreter => Lifecycle!RegisterClingInterpreter
  BY <1>4 DEF Tool!RegisterClingInterpreter, Lifecycle!RegisterClingInterpreter
<1>11. Tool!RegisterAnnotationMethods => Lifecycle!RegisterAnnotationMethods
  BY <1>4 DEF Tool!RegisterAnnotationMethods, Lifecycle!RegisterAnnotationMethods
<1>12. Tool!LogVersion => Lifecycle!LogVersion
  BY DEF Tool!LogVersion, Lifecycle!LogVersion
<1>13. Tool!SendVersion => Lifecycle!SendVersion
  BY <1>4 DEF Tool!SendVersion, Lifecycle!SendVersion
<1>14. Tool!LogHelp => Lifecycle!LogHelp
  BY DEF Tool!LogHelp, Lifecycle!LogHelp
<1>15. Tool!SendHelp => Lifecycle!SendHelp
  BY <1>4 DEF Tool!SendHelp, Lifecycle!SendHelp
<1>16. Tool!NoCommand => Lifecycle!NoCommand
  BY DEF Tool!NoCommand, Lifecycle!NoCommand
<1>17. Tool!RunTool => Lifecycle!RunTool
  BY DEF Tool!RunTool, Lifecycle!RunTool
<1>18. Tool!ShutdownPlugins => Lifecycle!ShutdownPlugins
  BY DEF Tool!ShutdownPlugins, Lifecycle!ShutdownPlugins, Tool!Members, Lifecycle!Members,
         Tool!Tell, Lifecycle!Tell
<1>19. Tool!DestroyMember => Lifecycle!DestroyMember
  BY DEF Tool!DestroyMember, Lifecycle!DestroyMember, Tool!Members, Lifecycle!Members,
         Tool!LastMember, Lifecycle!LastMember
<1>20. Tool!Finished => Lifecycle!Finished
  BY DEF Tool!Finished, Lifecycle!Finished, Tool!vars, Lifecycle!vars
<1> QED
  BY <1>1, <1>2, <1>3, <1>5, <1>6, <1>7, <1>8, <1>9, <1>10, <1>11, <1>12, <1>13, <1>14, <1>15,
     <1>16, <1>17, <1>18, <1>19, <1>20 DEF Tool!Next, Tool!Step, Lifecycle!Next, Lifecycle!Step

LifecycleInv ==
  /\ Lifecycle!TypeOK
  /\ Lifecycle!DestructionInv
  /\ Lifecycle!EventInv
  /\ Lifecycle!ShutdownInv
  /\ Lifecycle!PointerInv
  /\ Lifecycle!StageInv
  /\ Lifecycle!InterpreterInv
  /\ Lifecycle!OutDirInv

LEMMA LifecycleInvInit == Init => LifecycleInv
BY SameInit, Lifecycle!TypeOKInit, Lifecycle!DestructionInit, Lifecycle!EventInit,
   Lifecycle!ShutdownInit, Lifecycle!PointerInit, Lifecycle!StageInit,
   Lifecycle!InterpreterInit, Lifecycle!OutDirInit DEF LifecycleInv, Init

LEMMA LifecycleInvNext == LifecycleInv /\ [Next]_vars => LifecycleInv'
<1>1. [Next]_vars => [Lifecycle!Next]_(Lifecycle!vars)
  BY LifecycleStep, SameStep DEF toolVars, Lifecycle!vars
<1> QED
  BY <1>1, Lifecycle!TypeOKNext, Lifecycle!DestructionNext, Lifecycle!EventNext,
     Lifecycle!ShutdownNext, Lifecycle!PointerNext, Lifecycle!StageNext,
     Lifecycle!InterpreterNext, Lifecycle!OutDirNext DEF LifecycleInv

\* No file is touched without every loaded plugin in place, however many plugins,
\* options and files there are.
THEOREM FilesNeedPlugins == Spec => []NoFileWithoutPlugins
<1>1. LifecycleInv => NoFileWithoutPlugins
  <2> SUFFICES ASSUME LifecycleInv, pc = "tool"
               PROVE  /\ \A p \in loaded : Heard(p, "RegisterAnnotationMethods")
                      /\ run.cling => \A p \in loaded : Heard(p, "RegisterClingInterpreter")
                      /\ loaded = connected
                      /\ Tool!Reachable \subseteq alive
    BY DEF NoFileWithoutPlugins
  <2>1. /\ loaded = connected
        /\ \A p \in connected : Lifecycle!Registered(p)
        /\ run.cling => \A p \in connected : Lifecycle!HasInterpreter(p)
        /\ Lifecycle!Reachable \subseteq alive
    BY Lifecycle!AtTheTool DEF LifecycleInv
  <2>2. Tool!Reachable = Lifecycle!Reachable
    BY DEF Tool!Reachable, Lifecycle!Reachable, Tool!PointsTo, Lifecycle!PointsTo
  <2> QED
    BY <2>1, <2>2 DEF Heard, Lifecycle!Registered, Lifecycle!HasInterpreter
<1> QED
  BY <1>1, LifecycleInvInit, LifecycleInvNext, PTL DEF Spec

-----------------------------------------------------------------------------
(* In the same way what is proved of the building of the arguments.        *)

Forwarding == INSTANCE ArgForwardingProofs WITH run <- argRun, pc <- argPc

LEMMA SameConstants ==
  /\ Forwarding!Dash \in Char
  /\ \A line \in CommandLines :
       /\ line \in Seq(Forwarding!Option)
       /\ \A i \in DOMAIN line :
            line[i].key # Forwarding!NoKey =>
              \A j \in DOMAIN line[i].values : line[i].values[j].head = Forwarding!NoKey
<1> USE DEF Args!Dash, Forwarding!Dash, Args!NoKey, Forwarding!NoKey
<1>1. Args!Option = Forwarding!Option
  BY DEF Args!Option, Forwarding!Option, Args!Text, Forwarding!Text, Args!Heads,
         Forwarding!Heads, Args!BuiltIn, Forwarding!BuiltIn, Args!ExtraArg,
         Forwarding!ExtraArg, Args!DashedExtraArg, Forwarding!DashedExtraArg
<1> QED
  BY <1>1, DashIsChar, CommandLinesTyped

LEMMA SameArgsInit == Args!Init => Forwarding!Init
BY DEF Args!Init, Forwarding!Init, Args!Run, Forwarding!Run, Args!First, Forwarding!First

LEMMA SameArgsNext == Args!Next => Forwarding!Next
<1> SUFFICES ASSUME Args!Next PROVE Forwarding!Next
  OBVIOUS
<1> USE DEF Args!Abort, Forwarding!Abort, Args!First, Forwarding!First, Args!NoKey,
            Forwarding!NoKey, Args!Dash, Forwarding!Dash, Args!ExtraArg, Forwarding!ExtraArg,
            Args!DashedExtraArg, Forwarding!DashedExtraArg, Args!Final, Forwarding!Final
<1>1. /\ Args!DefaultClangArgs(argRun.buildPathExists)
           = Forwarding!DefaultClangArgs(argRun.buildPathExists)
      /\ Args!HelpFlag = Forwarding!HelpFlag
      /\ Args!DefaultClingArgs = Forwarding!DefaultClingArgs
  BY DEF Args!DefaultClangArgs, Forwarding!DefaultClangArgs, Args!AppName, Forwarding!AppName,
         Args!BuildPath, Forwarding!BuildPath, Args!DefaultFlags, Forwarding!DefaultFlags,
         Args!HelpFlag, Forwarding!HelpFlag, Args!DefaultClingArgs, Forwarding!DefaultClingArgs
<1>2. /\ Args!Key = Forwarding!Key /\ Args!Current = Forwarding!Current
      /\ (Args!InOptions <=> Forwarding!InOptions)
      /\ (Args!ValuesUsedUp <=> Forwarding!ValuesUsedUp)
      /\ (Args!InValues <=> Forwarding!InValues)
  BY DEF Args!Key, Forwarding!Key, Args!Values, Forwarding!Values, Args!Current,
         Forwarding!Current, Args!Combined, Forwarding!Combined, Args!InOptions,
         Forwarding!InOptions, Args!ValuesUsedUp, Forwarding!ValuesUsedUp, Args!InValues,
         Forwarding!InValues
<1>3. \A text : /\ Args!IsEmpty(text) <=> Forwarding!IsEmpty(text)
                /\ Args!isAllowedClangArgument(text) <=> Forwarding!isAllowedClangArgument(text)
                /\ Args!StartsWithDash(text) <=> Forwarding!StartsWithDash(text)
                /\ Args!PrefixTooLong(text) <=> Forwarding!PrefixTooLong(text)
  BY DEF Args!PrefixTooLong, Forwarding!PrefixTooLong, Args!IsEmpty, Forwarding!IsEmpty, Args!isAllowedClangArgument,
         Forwarding!isAllowedClangArgument, Args!StartsWithDash, Forwarding!StartsWithDash,
         Args!BuiltIn, Forwarding!BuiltIn
<1>4. Args!AddDefaultClangArgs => Forwarding!AddDefaultClangArgs
  BY <1>1 DEF Args!AddDefaultClangArgs, Forwarding!AddDefaultClangArgs
<1>5. Args!ExePathUnknown => Forwarding!ExePathUnknown
  BY DEF Args!ExePathUnknown, Forwarding!ExePathUnknown
<1>6. Args!NextOption => Forwarding!NextOption
  BY <1>2 DEF Args!NextOption, Forwarding!NextOption
<1>7. Args!EmptyArgument => Forwarding!EmptyArgument
  BY <1>2, <1>3 DEF Args!EmptyArgument, Forwarding!EmptyArgument
<1>8. Args!RefuseValue => Forwarding!RefuseValue
  BY <1>2, <1>3 DEF Args!RefuseValue, Forwarding!RefuseValue
<1>16. Args!OverrunByDash => Forwarding!OverrunByDash
  BY <1>2, <1>3 DEF Args!OverrunByDash, Forwarding!OverrunByDash
<1>9. ASSUME NEW key, NEW text, Args!PipelineToCling(key, text)
      PROVE  Forwarding!PipelineToCling(key, text)
  BY <1>9 DEF Args!PipelineToCling, Forwarding!PipelineToCling, Args!NothingLeft,
              Forwarding!NothingLeft, Args!HasExtraArgPrefix, Forwarding!HasExtraArgPrefix,
              Args!Pipelined, Forwarding!Pipelined, Args!ForCling, Forwarding!ForCling,
              Args!WithoutPrefix, Forwarding!WithoutPrefix
<1>10. Args!ForwardValue => Forwarding!ForwardValue
  BY <1>2, <1>3, <1>9 DEF Args!ForwardValue, Forwarding!ForwardValue, Args!ForClang,
                          Forwarding!ForClang
<1>11. Args!FinishClangArgs => Forwarding!FinishClangArgs
  BY <1>1 DEF Args!FinishClangArgs, Forwarding!FinishClangArgs
<1>12. Args!AddDefaultClingArgs => Forwarding!AddDefaultClingArgs
  BY <1>1 DEF Args!AddDefaultClingArgs, Forwarding!AddDefaultClingArgs
<1>13. Args!FilterClingArg => Forwarding!FilterClingArg
  BY DEF Args!FilterClingArg, Forwarding!FilterClingArg, Args!HasClingPrefix,
         Forwarding!HasClingPrefix
<1>14. Args!FinishClingArgs => Forwarding!FinishClingArgs
  BY DEF Args!FinishClingArgs, Forwarding!FinishClingArgs
<1>15. Args!Finished => Forwarding!Finished
  BY DEF Args!Finished, Forwarding!Finished, Args!vars, Forwarding!vars
<1> QED
  BY <1>4, <1>5, <1>6, <1>7, <1>8, <1>10, <1>11, <1>12, <1>13, <1>14, <1>15, <1>16
  DEF Args!Next, Args!Step, Forwarding!Next, Forwarding!Step

ForwardingInv == Forwarding!TypeOK /\ Forwarding!ClangInv /\ Forwarding!FilterInv

LEMMA ForwardingInvInit == Init => ForwardingInv
<1> SUFFICES ASSUME Init PROVE ForwardingInv
  OBVIOUS
<1>1. Forwarding!Init
  BY SameArgsInit DEF Init
<1>2. Forwarding!TypeOK
  BY <1>1, SameConstants, Forwarding!TypeOKInit
<1>3. Forwarding!ClangInv
  BY <1>1, SameConstants, Forwarding!ClangInit
<1>4. Forwarding!FilterInv
  BY <1>1, SameConstants, Forwarding!FilterInit
<1> QED
  BY <1>2, <1>3, <1>4 DEF ForwardingInv

LEMMA ForwardingInvNext == ForwardingInv /\ [Next]_vars => ForwardingInv'
<1> SUFFICES ASSUME ForwardingInv, [Next]_vars PROVE ForwardingInv'
  OBVIOUS
<1>1. [Forwarding!Next]_(Forwarding!vars)
  BY ForwardingStep, SameArgsNext DEF argVars, Forwarding!vars
<1>2. Forwarding!TypeOK'
  BY <1>1, SameConstants, Forwarding!TypeOKNext DEF ForwardingInv
<1>3. Forwarding!ClangInv'
  BY <1>1, SameConstants, Forwarding!ClangNext DEF ForwardingInv
<1>4. Forwarding!FilterInv'
  BY <1>1, SameConstants, Forwarding!FilterNext DEF ForwardingInv
<1> QED
  BY <1>2, <1>3, <1>4 DEF ForwardingInv

-----------------------------------------------------------------------------
(* The sources libtooling finds in the finished arguments are the texts    *)
(* that were typed without a key and accepted, and -p is there twice if it *)
(* was typed.                                                              *)

Accepted(text) == text \in Positional /\ Args!Acceptable(text)

LEMMA PositionalIs ==
  ASSUME NEW text
  PROVE  text \in Positional <=>
           \E i \in DOMAIN argRun.commandLine :
             /\ argRun.commandLine[i].key = Args!NoKey
             /\ \E j \in DOMAIN argRun.commandLine[i].values :
                  argRun.commandLine[i].values[j] = text
BY DEF Positional

\* The definitions of the two instances that the next lemmas compare.
LEMMA SameTexts ==
  /\ Forwarding!NoKey = Args!NoKey /\ Forwarding!NoKey # Forwarding!DashedExtraArg
  /\ \A text : Forwarding!Acceptable(text) <=> Args!Acceptable(text)
  /\ \A key, value : Forwarding!Combined(key, value) =
                       IF key = Args!NoKey THEN value ELSE [head |-> key, tail |-> value.tail]
  /\ \A key, text : Forwarding!ForClang(key, text) =
                      [from |-> "user", dash |-> key # Args!NoKey, text |-> text]
<1> USE DEF Args!NoKey, Forwarding!NoKey, Args!Dash, Forwarding!Dash, Args!ExtraArg,
            Forwarding!ExtraArg, Args!DashedExtraArg, Forwarding!DashedExtraArg
<1>1. \A text : Forwarding!Acceptable(text) <=> Args!Acceptable(text)
  BY DEF Args!Acceptable, Forwarding!Acceptable, Args!IsEmpty, Forwarding!IsEmpty,
         Args!isAllowedClangArgument, Forwarding!isAllowedClangArgument, Args!StartsWithDash,
         Forwarding!StartsWithDash, Args!BuiltIn, Forwarding!BuiltIn
<1> QED
  BY <1>1 DEF Forwarding!Combined, Forwarding!ForClang

LEMMA SameExpected == Forwarding!ExpectedClangArgs = Args!ExpectedClangArgs
<1> USE DEF Args!NoKey, Forwarding!NoKey, Args!Dash, Forwarding!Dash, Args!ExtraArg,
            Forwarding!ExtraArg, Args!DashedExtraArg, Forwarding!DashedExtraArg
<1>1. ASSUME NEW key, NEW value
      PROVE  Forwarding!FromValue(key, value) = Args!FromValue(key, value)
  BY SameTexts DEF Forwarding!FromValue, Args!FromValue, Forwarding!Combined, Args!Combined,
                   Forwarding!ForClang, Args!ForClang
<1>2. ASSUME NEW parts PROVE Forwarding!FlattenSeq(parts) = Args!FlattenSeq(parts)
  BY DEF Forwarding!FlattenSeq, Args!FlattenSeq
<1>3. ASSUME NEW option PROVE Forwarding!FromOption(option) = Args!FromOption(option)
  BY <1>1, <1>2 DEF Forwarding!FromOption, Args!FromOption
<1>5. Forwarding!FromUser = Args!FromUser
  BY <1>2, <1>3 DEF Forwarding!FromUser, Args!FromUser
<1>4. /\ Forwarding!DefaultClangArgs(argRun.buildPathExists)
           = Args!DefaultClangArgs(argRun.buildPathExists)
      /\ Forwarding!HelpFlag = Args!HelpFlag
  BY DEF Args!DefaultClangArgs, Forwarding!DefaultClangArgs, Args!AppName, Forwarding!AppName,
         Args!BuildPath, Forwarding!BuildPath, Args!DefaultFlags, Forwarding!DefaultFlags,
         Args!HelpFlag, Forwarding!HelpFlag
<1> QED
  BY <1>4, <1>5 DEF Forwarding!ExpectedClangArgs, Args!ExpectedClangArgs

LEMMA SourceTest ==
  ASSUME NEW key, NEW text
  PROVE  /\ IsSource(Forwarding!ForClang(key, text)) <=> key = Args!NoKey
         /\ Forwarding!ForClang(key, text).text = text
<1>1. IsSource([from |-> "user", dash |-> key # Args!NoKey, text |-> text]) <=> key = Args!NoKey
  BY Zenon DEF IsSource
<1> QED
  BY <1>1, SameTexts

\* PlacesInTheEnd, of ArgForwarding, in the terms of the process.
LEMMA Places ==
  ASSUME ForwardingInv, argPc = "ready", argRun.buildPathExists
  PROVE  /\ Len(args_storage) \in Nat /\ DOMAIN args_storage = 1..Len(args_storage)
         /\ Len(args_storage) >= 3
         /\ args_storage[1] = Forwarding!AppName /\ args_storage[2] = Forwarding!BuildPath
         /\ args_storage[3] = Forwarding!DefaultFlags
         /\ \A i \in DOMAIN args_storage : i > 3 =>
              \/ Forwarding!FromTyped(args_storage[i])
              \/ args_storage[i] = Forwarding!HelpFlag
         /\ \A arg : Forwarding!FromTyped(arg) =>
              \E i \in DOMAIN args_storage : i > 3 /\ args_storage[i] = arg
<1>1. args_storage = Forwarding!ExpectedClangArgs
  BY DEF ForwardingInv, Forwarding!ClangInv
<1>2. Forwarding!ClangArgsComplete
  BY <1>1, SameConstants, Forwarding!BeginsPrefix
  DEF ForwardingInv, Forwarding!ClangInv, Forwarding!ClangArgsComplete, Forwarding!TypeOK
<1> QED
  BY <1>2, SameConstants, Forwarding!PlacesInTheEnd DEF ForwardingInv

LEMMA SourceArgs ==
  ASSUME ForwardingInv, argPc = "ready", argRun.buildPathExists, NEW text
  PROVE  (\E k \in DOMAIN args_storage : IsSource(args_storage[k]) /\ args_storage[k].text = text)
         <=> Accepted(text)
<1>1. ASSUME NEW k \in DOMAIN args_storage, IsSource(args_storage[k])
      PROVE  Accepted(args_storage[k].text)
  <2>1. args_storage[k].from = "user"
    BY <1>1 DEF IsSource
  <2>2. k \in {1, 2, 3} \/ k > 3
    BY Places
  <2>3. k > 3 /\ args_storage[k] # Forwarding!HelpFlag
    BY <2>1, <2>2, Places DEF Forwarding!AppName, Forwarding!BuildPath, Forwarding!DefaultFlags,
                              Forwarding!HelpFlag
  <2>4. Forwarding!FromTyped(args_storage[k])
    BY <2>3, Places
  <2> DEFINE option(i) == argRun.commandLine[i]
             typed(i, j) == Forwarding!Combined(option(i).key, option(i).values[j])
  <2>5. PICK i \in DOMAIN argRun.commandLine : \E j \in DOMAIN option(i).values :
          /\ Forwarding!Acceptable(typed(i, j))
          /\ args_storage[k] = Forwarding!ForClang(option(i).key, typed(i, j))
    BY <2>4 DEF Forwarding!FromTyped
  <2>6. PICK j \in DOMAIN option(i).values :
          /\ Forwarding!Acceptable(typed(i, j))
          /\ args_storage[k] = Forwarding!ForClang(option(i).key, typed(i, j))
    BY <2>5
  <2>7. option(i).key = Args!NoKey /\ args_storage[k].text = typed(i, j)
    BY <1>1, <2>6, SourceTest
  <2>8. typed(i, j) = option(i).values[j]
    BY <2>7, SameTexts
  <2>9. typed(i, j) \in Positional
    BY <2>7, <2>8, PositionalIs
  <2> QED
    BY <2>6, <2>7, <2>9, SameTexts DEF Accepted
<1>2. ASSUME Accepted(text)
      PROVE  \E k \in DOMAIN args_storage :
               IsSource(args_storage[k]) /\ args_storage[k].text = text
  <2>1. PICK i \in DOMAIN argRun.commandLine :
          /\ argRun.commandLine[i].key = Args!NoKey
          /\ \E j \in DOMAIN argRun.commandLine[i].values :
               argRun.commandLine[i].values[j] = text
    BY <1>2, PositionalIs DEF Accepted
  <2> DEFINE arg == Forwarding!ForClang(Args!NoKey, text)
  <2>2. Forwarding!FromTyped(arg)
    BY <1>2, <2>1, SameTexts DEF Accepted, Forwarding!FromTyped
  <2>3. PICK k \in DOMAIN args_storage : args_storage[k] = arg
    BY <2>2, Places
  <2> QED
    BY <2>3, SourceTest
<1> QED
  BY <1>1, <1>2

\* Of the order and the repetitions of the sources nothing is needed.
LEMMA SourcesAre ==
  ASSUME ForwardingInv, argPc = "ready", argRun.buildPathExists
  PROVE  /\ Len(Sources) \in Nat /\ DOMAIN Sources = 1..Len(Sources)
         /\ \A file : (\E i \in DOMAIN Sources : Sources[i] = file) <=>
                      \E text : Accepted(text) /\ file = FileNamed(text)
         /\ Sources = <<>> <=> ~\E text : Accepted(text)
<1> DEFINE n == Len(args_storage)
           of(arg) == IF IsSource(arg) THEN <<FileNamed(arg.text)>> ELSE <<>>
           parts == [k \in DOMAIN args_storage |-> of(args_storage[k])]
           named == {FileNamed(args_storage[k].text) : k \in DOMAIN args_storage}
<1>1. n \in Nat /\ DOMAIN args_storage = 1..n
  BY Places
<1>2. \A k \in 1..n : of(args_storage[k]) \in Seq(named)
  <2> SUFFICES ASSUME NEW k \in 1..n PROVE of(args_storage[k]) \in Seq(named)
    OBVIOUS
  <2>1. FileNamed(args_storage[k].text) \in named
    BY <1>1
  <2> HIDE DEF named
  <2>2. <<FileNamed(args_storage[k].text)>> \in Seq(named) /\ <<>> \in Seq(named)
    BY <2>1
  <2> QED
    BY <2>2
<1> HIDE DEF named
<1>3. parts \in [1..n -> Seq(named)]
  BY <1>1, <1>2
<1>4. parts \in Seq(Seq(named)) /\ DOMAIN parts = 1..n
  BY <1>1, <1>3, FunctionIsSeq
<1>5. Sources = FlattenSeq(parts)
  BY DEF Sources
<1>6. Sources \in Seq(named)
  BY <1>4, <1>5, FlattenSeqTyped
<1>7. Len(Sources) \in Nat /\ DOMAIN Sources = 1..Len(Sources)
  BY <1>6, LenProperties
<1>8. ASSUME NEW file
      PROVE  (\E i \in DOMAIN Sources : Sources[i] = file) <=>
               \E text : Accepted(text) /\ file = FileNamed(text)
  <2>1. (\E i \in DOMAIN Sources : Sources[i] = file) <=> Contains(Sources, file)
    BY <1>7 DEF Contains
  <2>2. Contains(Sources, file) <=> \E k \in DOMAIN parts : Contains(parts[k], file)
    BY <1>4, <1>5, FlattenContains
  <2>3. \A k \in 1..n : Contains(parts[k], file) <=>
          IsSource(args_storage[k]) /\ file = FileNamed(args_storage[k].text)
    <3>1. \A x : Contains(<<x>>, file) <=> file = x
      BY DEF Contains
    <3>2. ~Contains(<<>>, file)
      BY DEF Contains
    <3>3. \A k \in 1..n : parts[k] = of(args_storage[k])
      BY <1>1
    <3> QED
      BY <3>1, <3>2, <3>3
  <2>4. Contains(Sources, file) <=>
          \E k \in 1..n : IsSource(args_storage[k]) /\ file = FileNamed(args_storage[k].text)
    BY <1>4, <2>2, <2>3
  <2> QED
    BY <1>1, <2>1, <2>4, SourceArgs
<1>9. Sources = <<>> <=> DOMAIN Sources = {}
  <2>1. Sources = <<>> => DOMAIN Sources = {}
    OBVIOUS
  <2>2. DOMAIN Sources = {} => Len(Sources) = 0
    BY <1>7
  <2> QED
    BY <1>6, <2>1, <2>2, EmptySeq
<1> QED
  BY <1>7, <1>8, <1>9

LEMMA DashTest ==
  ASSUME NEW key, NEW text
  PROVE  Forwarding!ForClang(key, text).dash <=> key # Args!NoKey
<1>1. [from |-> "user", dash |-> key # Args!NoKey, text |-> text].dash <=> key # Args!NoKey
  BY Zenon
<1> QED
  BY <1>1, SameTexts

LEMMA BuildPathTwice ==
  ASSUME ForwardingInv, argPc = "ready", argRun.buildPathExists
  PROVE  (\E i, j \in Forwarded({"p"}) : i # j) <=> TypedBuildPath
<1>0. \A k : k \in Forwarded({"p"}) <=>
        k \in DOMAIN args_storage /\ args_storage[k].dash /\ args_storage[k].text.head = "p"
  BY DEF Forwarded
<1>1. 2 \in Forwarded({"p"}) /\ 1 \notin Forwarded({"p"}) /\ 3 \notin Forwarded({"p"})
  <2>1. /\ ~Forwarding!AppName.dash
        /\ Forwarding!BuildPath.dash /\ Forwarding!BuildPath.text.head = "p"
        /\ Forwarding!DefaultFlags.text.head # "p"
    BY DEF Forwarding!AppName, Forwarding!BuildPath, Forwarding!DefaultFlags, Forwarding!ExtraArg
  <2> QED
    BY <1>0, <2>1, Places
<1>2. ASSUME TypedBuildPath PROVE \E i, j \in Forwarded({"p"}) : i # j
  <2>1. PICK i \in DOMAIN argRun.commandLine :
          argRun.commandLine[i].key = "p" /\ argRun.commandLine[i].values # <<>>
    BY <1>2 DEF TypedBuildPath
  <2> DEFINE values == argRun.commandLine[i].values
             text == Forwarding!Combined("p", values[1])
  <2>2. values \in Seq(Forwarding!Text)
    BY SameConstants, Forwarding!LineTyped DEF ForwardingInv
  <2>3. 1 \in DOMAIN values
    BY <2>1, <2>2
  <2>4. text.head = "p" /\ "p" # Args!NoKey
    BY SameTexts DEF Args!NoKey
  <2>5. Forwarding!Acceptable(text)
    BY <2>4, SameTexts DEF Args!Acceptable, Args!IsEmpty, Args!isAllowedClangArgument,
                           Args!StartsWithDash, Args!BuiltIn, Args!DashedExtraArg
  <2> HIDE DEF text
  <2>6. Forwarding!FromTyped(Forwarding!ForClang("p", text))
    BY <2>1, <2>3, <2>5 DEF text, Forwarding!FromTyped, Forwarding!DashedExtraArg
  <2>7. PICK k \in DOMAIN args_storage :
          k > 3 /\ args_storage[k] = Forwarding!ForClang("p", text)
    BY <2>6, Places
  <2>8. k \in Forwarded({"p"})
    BY <1>0, <2>4, <2>7, SourceTest, DashTest
  <2> QED
    BY <1>1, <2>7, <2>8
<1>3. ASSUME NEW k \in Forwarded({"p"}), k # 2 PROVE TypedBuildPath
  <2>1. k \in DOMAIN args_storage /\ (k \in {1, 2, 3} \/ k > 3)
    BY <1>0, Places
  <2>2. k > 3 /\ args_storage[k] # Forwarding!HelpFlag
    BY <1>0, <1>1, <1>3, <2>1 DEF Forwarding!HelpFlag
  <2>3. Forwarding!FromTyped(args_storage[k])
    BY <2>1, <2>2, Places
  <2> DEFINE option(i) == argRun.commandLine[i]
             typed(i, j) == Forwarding!Combined(option(i).key, option(i).values[j])
  <2>4. PICK i \in DOMAIN argRun.commandLine : \E j \in DOMAIN option(i).values :
          args_storage[k] = Forwarding!ForClang(option(i).key, typed(i, j))
    BY <2>3 DEF Forwarding!FromTyped
  <2>5. PICK j \in DOMAIN option(i).values :
          args_storage[k] = Forwarding!ForClang(option(i).key, typed(i, j))
    BY <2>4
  <2>6. option(i).key # Args!NoKey /\ typed(i, j).head = "p"
    BY <1>0, <1>3, <2>5, SourceTest, DashTest
  <2>7. option(i).key = "p" /\ option(i).values # <<>>
    BY <2>5, <2>6, SameTexts
  <2> QED
    BY <2>7 DEF TypedBuildPath
<1> QED
  BY <1>2, <1>3

-----------------------------------------------------------------------------
(* How far the three parts are, and how the process ended, seen together.  *)
(* Past the two inits the arguments are ready; the work on files begins    *)
(* and ends at the tool, with arguments that libtooling accepts, and the   *)
(* directory all agree on is the starting one.                             *)

\* What libtooling rejects, said of the command line.
Unusable == TypedBuildPath \/ ~\E text : Accepted(text)

AtStart == saveDir = StartingOutDir /\ cwd = StartingOutDir

PastCling == Lifecycle!CommandPcs \cup {"register_interpreter"}

StageLink ==
  /\ argRun.cling = run.cling /\ argRun.buildPathExists
  /\ argPc \in {"cling_defaults", "cling_filter"} => run.cling
  /\ pc \in PastCling => argPc = "ready"
  /\ pc \in PastCling \cup {"init_cling"} => AtStart
  /\ pc = "send_version" => run.version
  /\ pc \in {"send_help", "tool"} => ~run.version

FilesLink ==
  genPc # "list" =>
    /\ pc \in {"tool"} \cup Lifecycle!EndPcs
    /\ argPc = "ready" /\ AtStart
    /\ ~run.version /\ ~Unusable

StatusLink ==
  /\ status = "main_success" => run.version \/ genPc = "done"
  /\ status = "main_failure" => genPc = "list"
  /\ status = "tool_failure" => genPc = "failed" \/ Unusable

LinkInv == StageLink /\ FilesLink /\ StatusLink

\* An interpreter is created from finished arguments only.
InterpreterLink ==
  /\ pc = "init_cling" => run.cling
  /\ "clingInterpreter" \in alive => run.cling /\ argPc = "ready"

\* The work on files.  What exists besides the generated files is what was there
\* in the beginning; saved are the files of the usable sources done with, and only
\* the file being written is torn.
StartFiles == {Located(text, StartingOutDir) : text \in argRun.existing}

Usable(file) == file \in StartFiles /\ file.name \notin NoExtension

Made(file) == [dir |-> StartingOutDir, name |-> file.name, generated |-> file.generated + 1]

MadeBefore(n) == {Made(Sources[i]) : i \in {i \in 1..(n - 1) : Usable(Sources[i])}}

NothingDone ==
  /\ source = 1 /\ DOMAIN disk = StartFiles
  /\ torn = {} /\ saved = {}

SourcesDone ==
  /\ source \in 1..(Len(Sources) + 1)
  /\ \A i \in DOMAIN Sources : Sources[i] \in DOMAIN disk <=> Sources[i] \in StartFiles
  /\ genPc \in {"next", "save", "write", "done"} => saved = MadeBefore(source)
  /\ genPc \in {"next", "save", "done"} => torn = {}
  /\ genPc = "write" => torn = {Made(Sources[source])} /\ Usable(Sources[source])
  /\ genPc \in {"save", "write"} => source <= Len(Sources) /\ Sources[source] \in StartFiles
  /\ genPc = "done" => source = Len(Sources) + 1
  /\ genPc = "missing_source" => \E i \in DOMAIN Sources : Sources[i] \notin StartFiles

WorkInv ==
  /\ genPc = "list" => NothingDone
  /\ genPc # "list" => SourcesDone

\* The inputs of the process stay; and so does what is computed from them alone.
LEMMA RunsKept == [Next]_vars => UNCHANGED <<run, argRun>>
<1> SUFFICES ASSUME [Next]_vars PROVE UNCHANGED <<run, argRun>>
  OBVIOUS
<1>1. ASSUME Lifecycle!Next PROVE run' = run
  <2>1. CASE Lifecycle!InitCmd \/ Lifecycle!InitBase \/ Lifecycle!ConnectManager
    BY <2>1 DEF Lifecycle!InitCmd, Lifecycle!InitBase, Lifecycle!ConnectManager
  <2>2. CASE Lifecycle!SendInit \/ Lifecycle!StartUpPlugins \/ Lifecycle!ConnectPlugins
    BY <2>2 DEF Lifecycle!SendInit, Lifecycle!StartUpPlugins, Lifecycle!ConnectPlugins
  <2>3. CASE Lifecycle!InitClang \/ Lifecycle!InitCling
    BY <2>3 DEF Lifecycle!InitClang, Lifecycle!InitCling
  <2>4. CASE Lifecycle!RegisterClingInterpreter \/ Lifecycle!RegisterAnnotationMethods
    BY <2>4 DEF Lifecycle!RegisterClingInterpreter, Lifecycle!RegisterAnnotationMethods
  <2>5. CASE Lifecycle!LogVersion \/ Lifecycle!SendVersion \/ Lifecycle!LogHelp
        \/ Lifecycle!SendHelp \/ Lifecycle!NoCommand \/ Lifecycle!RunTool
    BY <2>5 DEF Lifecycle!LogVersion, Lifecycle!SendVersion, Lifecycle!LogHelp, Lifecycle!SendHelp,
           Lifecycle!NoCommand, Lifecycle!RunTool
  <2>6. CASE Lifecycle!ShutdownPlugins \/ Lifecycle!DestroyMember \/ Lifecycle!Finished
    BY <2>6 DEF Lifecycle!ShutdownPlugins, Lifecycle!DestroyMember, Lifecycle!Finished,
           Lifecycle!vars
  <2> QED
    BY <1>1, <2>1, <2>2, <2>3, <2>4, <2>5, <2>6 DEF Lifecycle!Next, Lifecycle!Step
<1>2. ASSUME Forwarding!Next PROVE argRun' = argRun
  <2>1. CASE Forwarding!AddDefaultClangArgs \/ Forwarding!ExePathUnknown \/ Forwarding!NextOption
        \/ Forwarding!EmptyArgument \/ Forwarding!OverrunByDash \/ Forwarding!RefuseValue
    BY <2>1 DEF Forwarding!AddDefaultClangArgs, Forwarding!ExePathUnknown, Forwarding!NextOption,
           Forwarding!EmptyArgument, Forwarding!OverrunByDash, Forwarding!RefuseValue,
           Forwarding!Abort
  <2>2. CASE Forwarding!ForwardValue \/ Forwarding!FinishClangArgs \/ Forwarding!AddDefaultClingArgs
        \/ Forwarding!FilterClingArg \/ Forwarding!FinishClingArgs \/ Forwarding!Finished
    BY <2>2 DEF Forwarding!ForwardValue, Forwarding!FinishClangArgs, Forwarding!AddDefaultClingArgs,
           Forwarding!FilterClingArg, Forwarding!FinishClingArgs, Forwarding!Finished,
           Forwarding!vars
  <2> QED
    BY <1>2, <2>1, <2>2 DEF Forwarding!Next, Forwarding!Step
<1>3. run' = run
  BY <1>1, LifecycleStep, SameStep DEF toolVars
<1>4. argRun' = argRun
  BY <1>2, ForwardingStep, SameArgsNext DEF argVars
<1> QED
  BY <1>3, <1>4

LEMMA KeptWithRuns ==
  ASSUME UNCHANGED <<run, argRun>>
  PROVE  /\ StartingOutDir' = StartingOutDir
         /\ Unusable' <=> Unusable
         /\ StartFiles' = StartFiles
<1>1. StartingOutDir' = StartingOutDir
  BY DEF StartingOutDir, Tool!OutDir
<1>2. Positional' = Positional
  BY DEF Positional
<1>3. \A text : Accepted(text)' <=> Accepted(text)
  BY <1>2 DEF Accepted, Args!Acceptable, Args!isAllowedClangArgument
<1>4. TypedBuildPath' <=> TypedBuildPath
  BY DEF TypedBuildPath
<1>5. StartFiles' = StartFiles
  BY <1>1 DEF StartFiles
<1> QED
  BY <1>1, <1>3, <1>4, <1>5 DEF Unusable

\* How the inits end says how the building of the arguments ended.
LEMMA OutcomeKnown ==
  /\ argPc \in {"cling_defaults", "cling_filter", "ready"} => Outcome = "running"
  /\ argPc = "failed" => Outcome = "main_failure"
  /\ argPc = "aborted" => Outcome = "aborted"
BY Zenon DEF Outcome

LEMMA FinishKnown ==
  ASSUME FinishTool
  PROVE  /\ status' = "main_success" => genPc = "done"
         /\ status' = "tool_failure" => genPc = "failed"
         /\ status' # "main_failure"
<1>1. CASE genPc = "done"
  BY <1>1 DEF FinishTool
<1>2. CASE genPc = "failed"
  BY <1>2 DEF FinishTool
<1>3. CASE genPc # "done" /\ genPc # "failed"
  <2>1. status' = "aborted"
    BY Zenon, <1>3 DEF FinishTool
  <2> QED
    BY <2>1
<1> QED
  BY <1>1, <1>2, <1>3

LEMMA LinkInit == Init => LinkInv
<1> SUFFICES ASSUME Init PROVE LinkInv
  OBVIOUS
<1>1. pc = "init_cmd" /\ status = "running" /\ genPc = "list"
  BY DEF Init, Tool!Init
<1>2. argPc = "clang_defaults" /\ argRun.cling = run.cling /\ argRun.buildPathExists
  BY DEF Init, Args!Init
<1> QED
  BY <1>1, <1>2 DEF LinkInv, StageLink, FilesLink, StatusLink, PastCling, Lifecycle!CommandPcs

\* The steps of the lifecycle that the other parts have nothing to do with.
LEMMA ProceedLink ==
  ASSUME LinkInv, LifecycleInv, Proceed, UNCHANGED <<run, argRun>>
  PROVE  LinkInv'
<1> USE DEF LinkInv, StageLink, FilesLink, StatusLink, PastCling, AtStart,
            Lifecycle!CommandPcs, Lifecycle!EndPcs
<1> USE DEF Tool!Continue, Tool!Return, Tool!End, Tool!FailInit
<1>1. UNCHANGED <<argPc, genPc>> /\ Tool!Step /\ pc \notin {"init_clang", "init_cling", "tool"}
  BY DEF Proceed, argVars, genVars
<1>2. StartingOutDir' = StartingOutDir /\ (Unusable' <=> Unusable)
  BY KeptWithRuns
<1>3. pc \notin Lifecycle!EndPcs => status = "running"
  BY DEF LifecycleInv, Lifecycle!EventInv
<1>4. CASE Tool!InitCmd \/ Tool!InitBase \/ Tool!ConnectManager
  BY <1>1, <1>2, <1>3, <1>4 DEF Tool!InitCmd, Tool!InitBase, Tool!ConnectManager
<1>5. CASE Tool!SendInit \/ Tool!StartUpPlugins \/ Tool!ConnectPlugins
  BY <1>1, <1>2, <1>3, <1>5 DEF Tool!SendInit, Tool!StartUpPlugins, Tool!ConnectPlugins
<1>6. CASE Tool!RegisterClingInterpreter \/ Tool!RegisterAnnotationMethods
  BY <1>1, <1>2, <1>3, <1>6 DEF Tool!RegisterClingInterpreter, Tool!RegisterAnnotationMethods
<1>7. CASE Tool!LogVersion \/ Tool!SendVersion
  BY <1>1, <1>2, <1>3, <1>7 DEF Tool!LogVersion, Tool!SendVersion
<1>8. CASE Tool!LogHelp \/ Tool!SendHelp \/ Tool!NoCommand
  BY <1>1, <1>2, <1>3, <1>8 DEF Tool!LogHelp, Tool!SendHelp, Tool!NoCommand
<1>9. CASE Tool!ShutdownPlugins \/ Tool!DestroyMember
  BY <1>1, <1>2, <1>9 DEF Tool!ShutdownPlugins, Tool!DestroyMember
<1> QED
  BY <1>1, <1>4, <1>5, <1>6, <1>7, <1>8, <1>9
  DEF Tool!Step, Tool!InitClang, Tool!InitCling, Tool!RunTool

\* What the two inits leave behind.
LEMMA InitsLink ==
  ASSUME LinkInv, LifecycleInv, ForwardingInv, InitClang \/ InitCling, UNCHANGED <<run, argRun>>
  PROVE  LinkInv'
<1> USE DEF LinkInv, StageLink, FilesLink, StatusLink, PastCling, AtStart,
            Lifecycle!CommandPcs, Lifecycle!EndPcs
<1> USE DEF Tool!Continue, Tool!Return, Tool!End
<1>1. /\ UNCHANGED <<argPc, genPc>> /\ status' = Outcome /\ pc \in {"init_clang", "init_cling"}
      /\ argPc \notin {"clang_defaults", "forward"}
  BY DEF InitClang, InitCling, argVars, genVars, Args!Final
<1>2. StartingOutDir' = StartingOutDir /\ (Unusable' <=> Unusable)
  BY KeptWithRuns
<1>3. status = "running" /\ genPc = "list"
  BY <1>1 DEF LifecycleInv, Lifecycle!EventInv
<1>4. argPc \in {"cling_defaults", "cling_filter", "ready", "failed", "aborted"}
  BY <1>1 DEF ForwardingInv, Forwarding!TypeOK, Forwarding!Final
<1>5. status' = "running" => argPc \in {"cling_defaults", "cling_filter", "ready"}
  BY <1>1, <1>4, OutcomeKnown
<1>6. CASE InitClang
  <2>1. cwd = StartingOutDir /\ cwd = Tool!OutDir(run.outdir, cwd)
    <3>1. pc = "init_clang"
      BY <1>6 DEF InitClang
    <3>2. \A kind, dir : Tool!OutDir(kind, dir) = Lifecycle!OutDir(kind, dir)
      BY DEF Tool!OutDir, Lifecycle!OutDir
    <3> QED
      BY <3>1, <3>2 DEF LifecycleInv, Lifecycle!OutDirInv, Lifecycle!InitPcs, StartingOutDir
  <2> QED
    BY <1>1, <1>2, <1>3, <1>5, <1>6, <2>1 DEF InitClang, Tool!InitClang
<1>7. CASE InitCling
  BY <1>1, <1>2, <1>3, <1>5, <1>7 DEF InitCling, Tool!InitCling, Args!Final
<1> QED
  BY <1>6, <1>7

\* libtooling looks at the finished arguments: it rejects what Unusable describes.
LEMMA RejectedIs ==
  ASSUME ForwardingInv, argPc = "ready", argRun.buildPathExists
  PROVE  Rejected <=> Unusable
BY BuildPathTwice, SourcesAre DEF Rejected, Unusable

LEMMA ToolLink ==
  ASSUME LinkInv, LifecycleInv, ForwardingInv, ParserExits \/ Generate \/ FinishTool,
         UNCHANGED <<run, argRun>>
  PROVE  LinkInv'
<1> USE DEF LinkInv, StageLink, FilesLink, StatusLink, PastCling, AtStart,
            Lifecycle!CommandPcs, Lifecycle!EndPcs
<1>1. pc = "tool" /\ argPc' = argPc
  BY DEF ParserExits, Generate, FinishTool, argVars
<1>2. StartingOutDir' = StartingOutDir /\ (Unusable' <=> Unusable)
  BY KeptWithRuns
<1>3. argPc = "ready" /\ AtStart /\ ~run.version /\ (Rejected <=> Unusable)
  BY <1>1, RejectedIs
<1>4. status = "running"
  BY <1>1 DEF LifecycleInv, Lifecycle!EventInv
<1>5. CASE ParserExits
  <2>1. /\ UNCHANGED <<genPc, cwd, saveDir>> /\ pc' \in {"exited", "teardown"}
        /\ status' \in {"tool_success", "tool_failure"}
        /\ status' = "tool_failure" => Rejected
    BY <1>5 DEF ParserExits, genVars, Tool!RunTool, Tool!End, Tool!Return
  <2> QED
    BY <1>1, <1>2, <1>3, <2>1
<1>6. CASE Generate
  <2>1. UNCHANGED <<pc, cwd, saveDir, status>> /\ ~Rejected
    BY <1>6 DEF Generate, toolVars
  <2> QED
    BY <1>1, <1>2, <1>3, <1>4, <2>1
<1>7. CASE FinishTool
  <2>1. UNCHANGED <<genPc, cwd, saveDir>> /\ pc' \in {"exited", "teardown"} /\ genPc # "list"
    BY <1>7 DEF FinishTool, Files!Final, genVars, Tool!RunTool, Tool!End, Tool!Return
  <2> QED
    BY <1>1, <1>2, <1>3, <1>7, <2>1, FinishKnown
<1> QED
  BY <1>5, <1>6, <1>7

LEMMA ArgsLink ==
  ASSUME LinkInv, LifecycleInv, ForwardingInv, BuildClangArgs \/ BuildClingArgs,
         UNCHANGED <<run, argRun>>
  PROVE  LinkInv'
<1> USE DEF LinkInv, StageLink, FilesLink, StatusLink, PastCling, AtStart,
            Lifecycle!CommandPcs, Lifecycle!EndPcs
<1>1. /\ pc \in {"init_clang", "init_cling"} /\ UNCHANGED <<pc, cwd, saveDir, status, genPc>>
      /\ Args!Step
  BY DEF BuildClangArgs, BuildClingArgs, toolVars, genVars
<1>2. StartingOutDir' = StartingOutDir /\ (Unusable' <=> Unusable)
  BY KeptWithRuns
<1>3. argPc' \in {"cling_defaults", "cling_filter"} => run.cling
  <2> USE DEF Args!Abort
  <2>1. CASE Args!AddDefaultClangArgs \/ Args!ExePathUnknown
    BY <1>1, <2>1 DEF Args!AddDefaultClangArgs, Args!ExePathUnknown
  <2>2. CASE Args!NextOption \/ Args!EmptyArgument \/ Args!OverrunByDash \/ Args!RefuseValue
        \/ Args!ForwardValue
    BY <1>1, <2>2 DEF Args!NextOption, Args!EmptyArgument, Args!OverrunByDash, Args!RefuseValue,
                      Args!ForwardValue, Args!PipelineToCling
  <2>3. CASE Args!FinishClangArgs
    BY <1>1, <2>3 DEF Args!FinishClangArgs
  <2>4. CASE Args!AddDefaultClingArgs \/ Args!FilterClingArg \/ Args!FinishClingArgs
    BY <1>1, <2>4 DEF Args!AddDefaultClingArgs, Args!FilterClingArg, Args!FinishClingArgs
  <2> QED
    BY <1>1, <2>1, <2>2, <2>3, <2>4 DEF Args!Step
<1> QED
  BY <1>1, <1>2, <1>3

LEMMA LinkNext ==
  LinkInv /\ LifecycleInv /\ ForwardingInv /\ [Next]_vars => LinkInv'
<1> SUFFICES ASSUME LinkInv, LifecycleInv, ForwardingInv, [Next]_vars PROVE LinkInv'
  OBVIOUS
<1>1. UNCHANGED <<run, argRun>>
  BY RunsKept
<1>2. CASE UNCHANGED vars
  <2>1. StartingOutDir' = StartingOutDir /\ (Unusable' <=> Unusable)
    BY <1>1, KeptWithRuns
  <2>2. UNCHANGED <<pc, cwd, saveDir, status, argPc, genPc>>
    BY <1>2 DEF vars, toolVars, argVars, genVars
  <2> QED
    BY <1>1, <2>1, <2>2 DEF LinkInv, StageLink, FilesLink, StatusLink, PastCling, AtStart
<1> QED
  BY <1>1, <1>2, ProceedLink, InitsLink, ToolLink, ArgsLink DEF Next, Step, Finished

LEMMA InterpreterInit == Init => InterpreterLink
<1>1. Init => pc = "init_cmd" /\ "clingInterpreter" \notin alive
  BY DEF Init, Tool!Init, Tool!BuiltByConstructors
<1> QED
  BY <1>1 DEF InterpreterLink

\* Only the init of the Cling environment creates one, and only that of the clang
\* environment leads there.
LEMMA OneMaker ==
  ASSUME Tool!Step
  PROVE  /\ pc' = "init_cling" => Tool!InitClang /\ run.cling
         /\ "clingInterpreter" \in alive' =>
              \/ "clingInterpreter" \in alive
              \/ Tool!InitCling /\ status' = status
<1> USE DEF Tool!Continue, Tool!Return, Tool!End, Tool!FailInit
<1>1. CASE Tool!InitCmd \/ Tool!InitBase \/ Tool!ConnectManager
  BY <1>1 DEF Tool!InitCmd, Tool!InitBase, Tool!ConnectManager
<1>2. CASE Tool!SendInit \/ Tool!StartUpPlugins \/ Tool!ConnectPlugins
  BY <1>2 DEF Tool!SendInit, Tool!StartUpPlugins, Tool!ConnectPlugins
<1>3. CASE Tool!InitClang
  BY <1>3 DEF Tool!InitClang, Tool!BuiltByClangInit
<1>4. CASE Tool!InitCling
  BY <1>4 DEF Tool!InitCling
<1>5. CASE Tool!RegisterClingInterpreter \/ Tool!RegisterAnnotationMethods
  BY <1>5 DEF Tool!RegisterClingInterpreter, Tool!RegisterAnnotationMethods
<1>6. CASE Tool!LogVersion \/ Tool!SendVersion \/ Tool!LogHelp \/ Tool!SendHelp
  BY <1>6 DEF Tool!LogVersion, Tool!SendVersion, Tool!LogHelp, Tool!SendHelp
<1>7. CASE Tool!NoCommand \/ Tool!RunTool
  BY <1>7 DEF Tool!NoCommand, Tool!RunTool
<1>8. CASE Tool!ShutdownPlugins \/ Tool!DestroyMember
  BY <1>8 DEF Tool!ShutdownPlugins, Tool!DestroyMember
<1> QED
  BY <1>1, <1>2, <1>3, <1>4, <1>5, <1>6, <1>7, <1>8 DEF Tool!Step

LEMMA InterpreterNext ==
  LifecycleInv /\ LinkInv /\ InterpreterLink /\ [Next]_vars => InterpreterLink'
<1> SUFFICES ASSUME LifecycleInv, LinkInv, InterpreterLink, [Next]_vars PROVE InterpreterLink'
  OBVIOUS
<1>1. run' = run
  BY RunsKept
<1>2. CASE UNCHANGED <<pc, alive>>
  <2>1. argPc = "ready" => argPc' = argPc
    BY DEF Next, Step, Finished, Proceed, BuildClangArgs, InitClang, BuildClingArgs, InitCling,
           ParserExits, Generate, FinishTool, vars, argVars
  <2> QED
    BY <1>1, <1>2, <2>1 DEF InterpreterLink
<1>3. CASE Tool!Step /\ UNCHANGED argVars
  <2>1. argPc' = argPc
    BY <1>3 DEF argVars
  <2>2. CASE "clingInterpreter" \in alive' /\ "clingInterpreter" \notin alive
    <3>1. Tool!InitCling /\ status' = status
      BY <1>3, <2>2, OneMaker
    <3>2. pc = "init_cling" /\ pc' = "register_interpreter" /\ status' = "running"
      BY <2>2, <3>1 DEF Tool!InitCling, Tool!Continue, LifecycleInv, Lifecycle!EventInv,
                        Lifecycle!EndPcs
    <3>3. InitCling
      BY <3>2 DEF Next, Step, Finished, Proceed, BuildClangArgs, InitClang, BuildClingArgs,
                  ParserExits, Generate, FinishTool, vars, toolVars
    <3>4. argPc = "ready"
      <4>1. argPc \in {"ready", "failed", "aborted"} /\ Outcome = "running"
        BY <3>2, <3>3 DEF InitCling, Args!Final
      <4> QED
        BY <4>1, OutcomeKnown
    <3> QED
      BY <1>1, <2>1, <3>2, <3>4 DEF InterpreterLink
  <2>3. CASE "clingInterpreter" \in alive' => "clingInterpreter" \in alive
    BY <1>1, <1>3, <2>1, <2>3, OneMaker DEF InterpreterLink
  <2> QED
    BY <2>2, <2>3
<1>4. CASE UNCHANGED toolVars
  BY <1>2, <1>4 DEF toolVars
<1> QED
  BY <1>2, <1>3, <1>4 DEF Next, Step, Finished, Proceed, BuildClangArgs, InitClang,
     BuildClingArgs, InitCling, ParserExits, Generate, FinishTool, Tool!Step, vars, toolVars

LEMMA WorkInit == Init => WorkInv
<1> SUFFICES ASSUME Init PROVE WorkInv
  OBVIOUS
<1>1. genPc = "list" /\ source = 1 /\ torn = {} /\ saved = {}
  BY DEF Init
<1>2. disk = [file \in StartFiles |-> Files!HandWritten(file)]
  BY DEF Init, StartFiles
<1> QED
  BY <1>1, <1>2 DEF WorkInv, NothingDone

\* The definitions of GeneratedFiles, for the process.
LEMMA FilesAre ==
  ASSUME AtStart
  PROVE  /\ Files!Current = Sources[source]
         /\ Files!out_path = Made(Sources[source])
         /\ \A file : Files!Savable(file) <=> file.name \notin NoExtension
         /\ Files!InSources <=> genPc = "next" /\ source <= Len(Sources)
BY DEF AtStart, Files!Current, Files!out_path, Files!Generated, Made, Files!Savable,
       Files!InSources

\* One more source is done with, and has left a file if it was usable.
LEMMA OneMore ==
  ASSUME NEW n \in Nat \ {0}
  PROVE  MadeBefore(n + 1) = IF Usable(Sources[n])
                             THEN MadeBefore(n) \cup {Made(Sources[n])} ELSE MadeBefore(n)
<1>1. \A i : i \in 1..(n + 1 - 1) <=> i \in 1..(n - 1) \/ i = n
  OBVIOUS
<1> QED
  BY <1>1 DEF MadeBefore

\* Whatever does not work on files leaves the sources as they were found.
LEMMA SourcesStay ==
  ASSUME LinkInv, LinkInv', [Next]_vars, genPc # "list", genPc' # "list"
  PROVE  UNCHANGED <<Sources, StartingOutDir, StartFiles>>
<1>1. StartingOutDir' = StartingOutDir /\ StartFiles' = StartFiles
  BY RunsKept, KeptWithRuns
<1>2. cwd' = cwd
  BY <1>1 DEF LinkInv, FilesLink, AtStart
<1>3. args_storage' = args_storage
  <2>1. pc \notin {"init_clang", "init_cling"}
    BY DEF LinkInv, FilesLink, Lifecycle!EndPcs
  <2> QED
    BY <2>1 DEF Next, Step, Finished, Proceed, BuildClangArgs, InitClang, BuildClingArgs,
                InitCling, ParserExits, Generate, FinishTool, vars, argVars
<1>4. \A file : FileNamed(file)' = FileNamed(file)
  BY <1>2 DEF FileNamed
<1>5. Sources' = Sources
  BY <1>3, <1>4 DEF Sources
<1> QED
  BY <1>1, <1>5

\* A text that was typed names one of the files if it is one of those that do,
\* although several texts may name the same.
LEMMA SourceExists ==
  ASSUME LifecycleInv, ForwardingInv, AtStart, NEW text \in Positional
  PROVE  FileNamed(text) \in StartFiles <=> text \in argRun.existing
<1>1. FileNamed(text) = Located(text, StartingOutDir) /\ StartingOutDir \in Tool!Dirs
  BY DEF AtStart, FileNamed, LifecycleInv, Lifecycle!TypeOK, Lifecycle!Dirs, Tool!Dirs
<1>2. argRun.commandLine \in CommandLines /\ argRun.existing \in PathSets
  BY DEF ForwardingInv, Forwarding!TypeOK, Forwarding!Run
<1>3. PICK i \in DOMAIN argRun.commandLine : \E j \in DOMAIN argRun.commandLine[i].values :
        argRun.commandLine[i].values[j] = text
  BY PositionalIs
<1>4. ASSUME NEW other \in argRun.existing, Located(text, StartingOutDir) = Located(other, StartingOutDir)
      PROVE  text \in argRun.existing
  BY <1>1, <1>2, <1>3, <1>4, SameFile
<1> QED
  BY <1>1, <1>4 DEF StartFiles

\* No source is a file that is made from one.
LEMMA MadeIsNoSource ==
  ASSUME ForwardingInv, argPc = "ready", argRun.buildPathExists,
         NEW i \in DOMAIN Sources, NEW j \in DOMAIN Sources
  PROVE  Sources[i] # Made(Sources[j])
<1>1. \A k \in DOMAIN Sources : Sources[k].generated = 0
  BY SourcesAre DEF FileNamed, Located
<1>2. Made(Sources[j]).generated = 1
  BY <1>1 DEF Made
<1> QED
  BY <1>1, <1>2

LEMMA GenerateWork ==
  ASSUME LinkInv, ForwardingInv, WorkInv, Generate, UNCHANGED <<run, argRun>>
  PROVE  WorkInv'
<1>1. /\ AtStart /\ argPc = "ready" /\ argRun.buildPathExists
      /\ UNCHANGED <<cwd, args_storage>>
  BY DEF LinkInv, StageLink, PastCling, Lifecycle!CommandPcs, Generate, toolVars, argVars
<1>2. Len(Sources) \in Nat /\ DOMAIN Sources = 1..Len(Sources)
  BY <1>1, SourcesAre
<1>3. UNCHANGED <<Sources, StartingOutDir, StartFiles>>
  <2>1. \A file : FileNamed(file)' = FileNamed(file)
    BY <1>1 DEF FileNamed
  <2> QED
    BY <1>1, <2>1, KeptWithRuns DEF Sources
<1>4. /\ \A file : (Usable(file)' <=> Usable(file)) /\ Made(file)' = Made(file)
      /\ \A n : MadeBefore(n)' = MadeBefore(n)
  BY <1>3 DEF Usable, Made, MadeBefore
<1>5. source \in Nat \ {0}
  BY <1>2 DEF WorkInv, NothingDone, SourcesDone
<1>6. MadeBefore(source + 1) = IF Usable(Sources[source])
                               THEN MadeBefore(source) \cup {Made(Sources[source])}
                               ELSE MadeBefore(source)
  BY <1>5, OneMore
<1>7. /\ Files!Current = Sources[source] /\ Files!out_path = Made(Sources[source])
      /\ Files!Savable(Sources[source]) <=> Sources[source].name \notin NoExtension
      /\ Files!InSources <=> genPc = "next" /\ source <= Len(Sources)
  BY <1>1, FilesAre
<1> SUFFICES genPc' # "list" /\ SourcesDone'
  BY DEF WorkInv
<1>8. CASE Files!ListSources
  <2>1. /\ genPc = "list" /\ UNCHANGED <<source, disk, torn, saved>>
        /\ \/ genPc' = "next"
           \/ genPc' = "missing_source" /\ \E i \in DOMAIN Sources : Sources[i] \notin DOMAIN disk
    BY <1>8 DEF Files!ListSources
  <2>2. NothingDone
    BY <2>1 DEF WorkInv
  <2>3. MadeBefore(1) = {}
    BY DEF MadeBefore
  <2> QED
    BY <1>2, <1>3, <1>4, <2>1, <2>2, <2>3 DEF NothingDone, SourcesDone
<1>9. CASE Files!SkipSource \/ Files!RefuseToSave
  <2>1. /\ genPc \in {"next", "save"} /\ genPc' = "next" /\ source' = source + 1
        /\ UNCHANGED <<disk, torn, saved>>
        /\ source <= Len(Sources) \/ genPc = "save"
        /\ Sources[source] \notin DOMAIN disk \/ Sources[source].name \in NoExtension
    BY <1>7, <1>9 DEF Files!SkipSource, Files!RefuseToSave
  <2>2. SourcesDone /\ source <= Len(Sources)
    BY <2>1 DEF WorkInv, SourcesDone
  <2>3. source \in DOMAIN Sources /\ ~Usable(Sources[source])
    BY <1>2, <1>5, <2>1, <2>2 DEF SourcesDone, Usable
  <2> QED
    BY <1>2, <1>3, <1>4, <1>5, <1>6, <2>1, <2>2, <2>3 DEF SourcesDone
<1>10. CASE Files!RewriteSource \/ Files!FinishRun
  <2>1. /\ genPc = "next" /\ UNCHANGED <<source, disk, torn, saved>>
        /\ \/ /\ genPc' = "save" /\ source <= Len(Sources)
              /\ Sources[source] \in DOMAIN disk
           \/ genPc' = "done" /\ source > Len(Sources)
    BY <1>7, <1>10 DEF Files!RewriteSource, Files!FinishRun
  <2>2. SourcesDone
    BY <2>1 DEF WorkInv
  <2>3. genPc' = "save" => Sources[source] \in StartFiles
    BY <1>2, <1>5, <2>1, <2>2 DEF SourcesDone
  <2> QED
    BY <1>2, <1>3, <1>4, <1>5, <2>1, <2>2, <2>3 DEF SourcesDone
<1>11. CASE Files!OpenFails \/ Files!WriteFails
  <2>1. /\ genPc \in {"save", "write"} /\ genPc' \in {"not_absolute", "failed"}
        /\ UNCHANGED <<source, disk>>
    BY <1>11 DEF Files!OpenFails, Files!WriteFails
  <2>2. SourcesDone
    BY <2>1 DEF WorkInv
  <2> QED
    BY <1>2, <1>3, <1>4, <2>1, <2>2 DEF SourcesDone
<1>12. CASE Files!OpenFile
  <2>1. /\ genPc = "save" /\ genPc' = "write" /\ UNCHANGED <<source, saved>>
        /\ DOMAIN disk' = DOMAIN disk \cup {Made(Sources[source])}
        /\ torn' = torn \cup {Made(Sources[source])}
        /\ Sources[source].name \notin NoExtension
    BY <1>7, <1>12 DEF Files!OpenFile
  <2>2. SourcesDone /\ torn = {} /\ Usable(Sources[source]) /\ source \in DOMAIN Sources
    BY <1>2, <1>5, <2>1 DEF WorkInv, SourcesDone, Usable
  <2>3. \A i \in DOMAIN Sources : Sources[i] \in DOMAIN disk' <=> Sources[i] \in DOMAIN disk
    BY <1>1, <2>1, <2>2, MadeIsNoSource
  <2> QED
    BY <1>2, <1>3, <1>4, <2>1, <2>2, <2>3 DEF SourcesDone
<1>13. CASE Files!WriteFile
  <2>1. /\ genPc = "write" /\ genPc' = "next" /\ source' = source + 1 /\ UNCHANGED disk
        /\ torn' = torn \ {Made(Sources[source])}
        /\ saved' = saved \cup {Made(Sources[source])}
    BY <1>7, <1>13 DEF Files!WriteFile
  <2>2. /\ SourcesDone /\ torn' = {} /\ Usable(Sources[source]) /\ source <= Len(Sources)
    BY <2>1 DEF WorkInv, SourcesDone
  <2>3. saved' = MadeBefore(source + 1)
    BY <1>6, <2>1, <2>2 DEF SourcesDone
  <2> QED
    BY <1>2, <1>3, <1>4, <1>5, <2>1, <2>2, <2>3 DEF SourcesDone
<1> QED
  BY <1>8, <1>9, <1>10, <1>11, <1>12, <1>13 DEF Generate, Files!Step

LEMMA WorkNext ==
  LinkInv /\ LinkInv' /\ ForwardingInv /\ WorkInv /\ [Next]_vars => WorkInv'
<1> SUFFICES ASSUME LinkInv, LinkInv', ForwardingInv, WorkInv, [Next]_vars PROVE WorkInv'
  OBVIOUS
<1>1. UNCHANGED <<run, argRun>>
  BY RunsKept
<1>2. CASE Generate
  BY <1>1, <1>2, GenerateWork
<1>3. CASE UNCHANGED genVars
  <2>1. UNCHANGED <<genPc, source, disk, torn, saved>>
    BY <1>3 DEF genVars
  <2>2. CASE genPc = "list"
    BY <1>1, <2>1, <2>2, KeptWithRuns DEF WorkInv, NothingDone
  <2>3. CASE genPc # "list"
    <3>1. UNCHANGED <<Sources, StartingOutDir, StartFiles>>
      BY <2>1, <2>3, SourcesStay
    <3>2. /\ \A file : (Usable(file)' <=> Usable(file)) /\ Made(file)' = Made(file)
          /\ \A n : MadeBefore(n)' = MadeBefore(n)
      BY <3>1 DEF Usable, Made, MadeBefore
    <3> QED
      BY <2>1, <2>3, <3>1, <3>2 DEF WorkInv, SourcesDone
  <2> QED
    BY <2>2, <2>3
<1> QED
  BY <1>2, <1>3 DEF Next, Step, Finished, Proceed, BuildClangArgs, InitClang, BuildClingArgs,
                    InitCling, ParserExits, FinishTool, vars

-----------------------------------------------------------------------------
(* From the command line to the disk.                                      *)

SystemInv == LifecycleInv /\ ForwardingInv /\ LinkInv /\ InterpreterLink /\ WorkInv

LEMMA SystemInvNext == SystemInv /\ [Next]_vars => SystemInv'
BY LifecycleInvNext, ForwardingInvNext, LinkNext, InterpreterNext, WorkNext DEF SystemInv

LEMMA SystemInvHolds == Spec => []SystemInv
<1>1. Init => SystemInv
  BY LifecycleInvInit, ForwardingInvInit, LinkInit, InterpreterInit, WorkInit DEF SystemInv
<1> QED
  BY <1>1, SystemInvNext, PTL DEF Spec

\* libtooling and the interpreter are given complete lists, for command lines of
\* any length and however the steps of the two environments lie between.
THEOREM ArgumentsHandedOver == Spec => []HandedOverWhole
<1>1. SystemInv => HandedOverWhole
  <2> SUFFICES ASSUME SystemInv PROVE HandedOverWhole
    OBVIOUS
  <2>1. argPc = "ready" => args_storage = Args!ExpectedClangArgs
    BY SameExpected DEF SystemInv, ForwardingInv, Forwarding!ClangInv
  <2>2. pc = "tool" => argPc = "ready"
    BY DEF SystemInv, LinkInv, StageLink, PastCling, Lifecycle!CommandPcs
  <2>3. ASSUME "clingInterpreter" \in alive, NEW k \in DOMAIN cling_extra_args,
               Args!HasClingPrefix(cling_extra_args[k])
        PROVE  \E j \in DOMAIN clingInterpreterArgs :
                 clingInterpreterArgs[j] = [from |-> "user", text |-> cling_extra_args[k]]
    <3>1. argPc = "ready" /\ argRun.cling
      BY <2>3 DEF SystemInv, LinkInv, StageLink, InterpreterLink
    <3>2. k < fwd
      <4>1. fwd \in Nat /\ cling_extra_args \in Seq(Seq(Char))
        BY DEF SystemInv, ForwardingInv, Forwarding!TypeOK
      <4>2. fwd > Len(cling_extra_args)
        BY <3>1 DEF SystemInv, ForwardingInv, Forwarding!FilterInv
      <4> QED
        BY <2>3, <4>1, <4>2, LenProperties
    <3>3. Forwarding!Kept(k)
      BY <2>3, <3>1, <3>2 DEF SystemInv, ForwardingInv, Forwarding!FilterInv
    <3> QED
      BY <2>3, <3>3 DEF Forwarding!Kept, Args!HasClingPrefix, Args!Dash, Forwarding!Dash
  <2>4. "clingInterpreter" \in alive => argPc = "ready"
    BY DEF SystemInv, InterpreterLink
  <2> QED
    BY <2>1, <2>2, <2>3, <2>4 DEF HandedOverWhole
<1> QED
  BY <1>1, SystemInvHolds, PTL

\* A text that names a file passes the three tests of populateClangArguments, and
\* so does the name of an option that is built in.
LEMMA AcceptedTexts ==
  ASSUME ForwardingInv, NEW text
  PROVE  /\ NamesFile(text) => Args!Acceptable(text)
         /\ text.head \in Args!BuiltIn => Args!Acceptable(text)
         /\ Args!Acceptable(text) => NamesFile(text) \/ text.head \in Args!BuiltIn
<1>1. argRun.existing \in PathSets
  BY DEF ForwardingInv, Forwarding!TypeOK, Forwarding!Run
<1>2. NamesFile(text) => Args!Acceptable(text)
  BY <1>1, NoEmptyPath DEF NamesFile, Args!Acceptable, Args!isAllowedClangArgument
<1>3. text.head \in Args!BuiltIn => Args!Acceptable(text)
  BY DEF Args!Acceptable, Args!IsEmpty, Args!isAllowedClangArgument, Args!StartsWithDash,
         Args!BuiltIn, Args!NoKey, Args!ExtraArg, Args!DashedExtraArg
<1>4. Args!Acceptable(text) => NamesFile(text) \/ text.head \in Args!BuiltIn
  BY DEF NamesFile, Args!Acceptable, Args!isAllowedClangArgument
<1> QED
  BY <1>2, <1>3, <1>4

\* A source is missing only where an option of clang was typed without dashes,
\* whatever was typed and whatever exists.
THEOREM MissingSourcesExplained == Spec => []OnlyOptionNamesMissing
<1>1. SystemInv => OnlyOptionNamesMissing
  <2> SUFFICES ASSUME SystemInv, genPc = "missing_source"
               PROVE  \E text \in Positional :
                        text.head \in Args!BuiltIn /\ text \notin argRun.existing
    BY DEF OnlyOptionNamesMissing
  <2>1. argPc = "ready" /\ argRun.buildPathExists /\ AtStart
    BY DEF SystemInv, LinkInv, StageLink, FilesLink
  <2>2. PICK i \in DOMAIN Sources : Sources[i] \notin StartFiles
    BY DEF SystemInv, WorkInv, SourcesDone
  <2>3. PICK text : Accepted(text) /\ Sources[i] = FileNamed(text)
    BY <2>1, SourcesAre DEF SystemInv
  <2>4. text \notin argRun.existing
    BY <2>1, <2>2, <2>3, SourceExists DEF SystemInv, Accepted
  <2>5. text \in Positional /\ text.head \in Args!BuiltIn
    BY <2>3, <2>4, AcceptedTexts DEF SystemInv, Accepted, NamesFile
  <2> QED
    BY <2>4, <2>5
<1> QED
  BY <1>1, SystemInvHolds, PTL

\* libtooling ends the process with exit(1) for one of three reasons, and a -p on
\* the command line is always one.
THEOREM ToolFailuresExplained == Spec => []ToolFailureExplained
<1>1. SystemInv => ToolFailureExplained
  <2> SUFFICES ASSUME SystemInv PROVE ToolFailureExplained
    OBVIOUS
  <2>1. ASSUME status = "tool_failure", ~TypedBuildPath, genPc # "failed",
               NEW text \in Positional, NamesFile(text) \/ text.head \in Args!BuiltIn
        PROVE  FALSE
    <3>1. Unusable
      BY <2>1 DEF SystemInv, LinkInv, StatusLink
    <3>2. Accepted(text)
      BY <2>1, AcceptedTexts DEF SystemInv, Accepted
    <3> QED
      BY <2>1, <3>1, <3>2 DEF Unusable
  <2>2. ASSUME TypedBuildPath PROVE saved = {} /\ torn = {}
    <3>1. genPc = "list"
      BY <2>2 DEF SystemInv, LinkInv, FilesLink, Unusable
    <3> QED
      BY <3>1 DEF SystemInv, WorkInv, NothingDone
  <2> QED
    BY <2>1, <2>2 DEF ToolFailureExplained
<1> QED
  BY <1>1, SystemInvHolds, PTL

\* The files of a run that completes are one for each name that was expected.
LEMMA CompleteRun ==
  ASSUME SystemInv, genPc = "done"
  PROVE  saved = ExpectedFiles
<1> DEFINE made(text) == [dir |-> StartingOutDir, name |-> NameOf(text), generated |-> 1]
<1>1. argPc = "ready" /\ argRun.buildPathExists /\ AtStart
  BY DEF SystemInv, LinkInv, StageLink, FilesLink
<1>2. Len(Sources) \in Nat /\ DOMAIN Sources = 1..Len(Sources)
  BY <1>1, SourcesAre DEF SystemInv
<1>3. saved = {Made(Sources[i]) : i \in {i \in DOMAIN Sources : Usable(Sources[i])}}
  <2>1. saved = MadeBefore(source) /\ source = Len(Sources) + 1
    BY DEF SystemInv, WorkInv, SourcesDone
  <2>2. source - 1 = Len(Sources)
    BY <1>2, <2>1
  <2> QED
    BY <1>2, <2>1, <2>2 DEF MadeBefore
<1>4. ASSUME NEW text, Accepted(text)
      PROVE  /\ Usable(FileNamed(text)) <=>
                  text \in argRun.existing /\ NameOf(text) \notin NoExtension
             /\ Made(FileNamed(text)) = made(text)
  <2>1. FileNamed(text).name = NameOf(text) /\ FileNamed(text).generated = 0
    BY DEF FileNamed, Located
  <2> QED
    BY <1>1, <1>4, <2>1, SourceExists DEF SystemInv, Accepted, Usable, Made
<1>5. \A text : text \in Expected <=>
        Accepted(text) /\ text \in argRun.existing /\ NameOf(text) \notin NoExtension
  <2>1. \A text : NamesFile(text) <=> Args!Acceptable(text) /\ text \in argRun.existing
    BY AcceptedTexts DEF SystemInv, NamesFile, Args!Acceptable
  <2> QED
    BY <2>1 DEF Expected, Accepted
<1>6. ASSUME NEW i \in DOMAIN Sources, Usable(Sources[i])
      PROVE  \E text \in Expected : Made(Sources[i]) = made(text)
  <2>1. PICK text : Accepted(text) /\ Sources[i] = FileNamed(text)
    BY <1>1, SourcesAre DEF SystemInv
  <2> QED
    BY <1>4, <1>5, <1>6, <2>1
<1>7. ASSUME NEW text \in Expected
      PROVE  \E i \in DOMAIN Sources : Usable(Sources[i]) /\ Made(Sources[i]) = made(text)
  <2>1. PICK i \in DOMAIN Sources : Sources[i] = FileNamed(text)
    BY <1>1, <1>5, SourcesAre DEF SystemInv
  <2> QED
    BY <1>4, <1>5, <2>1
<1> HIDE DEF made
<1>8. \A file : file \in saved <=> \E text \in Expected : file = made(text)
  BY <1>3, <1>6, <1>7
<1>9. saved = {made(text) : text \in Expected}
  BY <1>8
<1> QED
  BY <1>9 DEF made, ExpectedFiles

LEMMA SystemInvEnds == SystemInv => EndToEnd
<1> SUFFICES ASSUME SystemInv PROVE EndToEnd
  OBVIOUS
<1>1. genPc = "list" => saved = {} /\ torn = {}
  BY DEF SystemInv, WorkInv, NothingDone
<1>2. genPc = "done" => torn = {}
  BY DEF SystemInv, WorkInv, SourcesDone
<1>3. run.version \/ status = "main_failure" => genPc = "list"
  BY DEF SystemInv, LinkInv, FilesLink, StatusLink
<1>4. status = "main_success" /\ ~run.version => genPc = "done"
  BY DEF SystemInv, LinkInv, StatusLink
<1> QED
  BY <1>1, <1>2, <1>3, <1>4, CompleteRun DEF EndToEnd

\* What the user typed and what exists decide which files a successful run leaves,
\* for every command line and every set of files.
THEOREM EndsWithExpectedFiles == Spec => []EndToEnd
BY SystemInvEnds, SystemInvHolds, PTL

-----------------------------------------------------------------------------
(* What whoever starts flextool may rely on.                               *)

\* The stand-ins of the contract's variables.
Asked == IF run.version THEN {} ELSE ExpectedFiles
GaveUp == genPc \in {"failed", "missing_source", "not_absolute"}
Seen == IF GaveUp THEN "stopped"
        ELSE IF status = "running" THEN "running"
        ELSE IF status = "main_success" THEN "success"
        ELSE IF status = "main_failure" THEN "failure" ELSE "stopped"

LEMMA ContractIs ==
  /\ Contract!Init <=> Seen = "running" /\ saved = {} /\ torn = {}
  /\ Asked' = Asked /\ Seen' = Seen /\ saved' = saved /\ torn' = torn =>
       UNCHANGED Contract!vars
  /\ Contract!Open <=> /\ Seen = "running" /\ torn = {}
                       /\ \E file \in Asked : torn' = {file}
                       /\ Asked' = Asked /\ Seen' = Seen /\ saved' = saved
  /\ Contract!Close <=> /\ Seen = "running" /\ torn # {}
                        /\ saved' = saved \cup torn /\ torn' = {}
                        /\ Asked' = Asked /\ Seen' = Seen
  /\ Contract!CloseBadly <=> /\ Seen = "running" /\ torn # {}
                             /\ saved' = saved \cup torn /\ Seen' = "stopped"
                             /\ Asked' = Asked /\ torn' = torn
  /\ Contract!Succeed <=> /\ Seen = "running" /\ saved = Asked /\ torn = {}
                          /\ Seen' = "success"
                          /\ Asked' = Asked /\ saved' = saved /\ torn' = torn
  /\ Contract!Fail <=> /\ Seen = "running" /\ saved = {} /\ torn = {}
                       /\ Seen' = "failure"
                       /\ Asked' = Asked /\ saved' = saved /\ torn' = torn
  /\ Contract!Stop <=> /\ Seen = "running" /\ Seen' = "stopped"
                       /\ Asked' = Asked /\ saved' = saved /\ torn' = torn
BY DEF Asked, Seen, GaveUp, Contract!Init, Contract!vars, Contract!Open, Contract!Close,
       Contract!CloseBadly, Contract!Succeed, Contract!Fail, Contract!Stop

\* What is expected of a process never changes.
LEMMA AskedStays == [Next]_vars => Asked' = Asked
<1> SUFFICES ASSUME [Next]_vars PROVE Asked' = Asked
  OBVIOUS
<1>1. UNCHANGED <<run, argRun>>
  BY RunsKept
<1>2. StartingOutDir' = StartingOutDir
  BY <1>1, KeptWithRuns
<1>3. Positional' = Positional
  BY <1>1 DEF Positional
<1>4. Expected' = Expected
  BY <1>1, <1>3 DEF Expected, NamesFile
<1> QED
  BY <1>1, <1>2, <1>4 DEF Asked, ExpectedFiles

\* The exit code is settled once.
LEMMA StatusSettled == SystemInv /\ [Next]_vars => status = "running" \/ status' = status
<1> SUFFICES ASSUME SystemInv, [Next]_vars, status # "running" PROVE status' = status
  OBVIOUS
<1>1. pc \in {"teardown", "teardown_plugins", "exited"}
  BY DEF SystemInv, LifecycleInv, Lifecycle!EventInv, Lifecycle!EndPcs
<1>2. CASE Proceed
  <2>1. Tool!ShutdownPlugins \/ Tool!DestroyMember
    BY <1>1, <1>2 DEF Proceed, Tool!Step, Tool!InitCmd, Tool!InitBase, Tool!ConnectManager,
         Tool!SendInit, Tool!StartUpPlugins, Tool!ConnectPlugins, Tool!InitClang, Tool!InitCling,
         Tool!RegisterClingInterpreter, Tool!RegisterAnnotationMethods, Tool!LogVersion,
         Tool!SendVersion, Tool!LogHelp, Tool!SendHelp, Tool!NoCommand, Tool!RunTool
  <2> QED
    BY <2>1 DEF Tool!ShutdownPlugins, Tool!DestroyMember
<1>3. CASE UNCHANGED vars
  BY <1>3 DEF vars, toolVars
<1> QED
  BY <1>1, <1>2, <1>3 DEF Next, Step, Finished, BuildClangArgs, InitClang, BuildClingArgs,
                          InitCling, ParserExits, Generate, FinishTool

\* A step that leaves the files alone is invisible or ends the process.
LEMMA EndStep ==
  ASSUME SystemInv, SystemInv', [Next]_vars, UNCHANGED genVars
  PROVE  [Contract!Next]_(Contract!vars)
<1>1. /\ (GaveUp' <=> GaveUp) /\ genPc' = genPc /\ saved' = saved /\ torn' = torn
      /\ run' = run
  BY RunsKept DEF genVars, GaveUp
<1>2. Asked' = Asked
  BY AskedStays
<1>3. CASE Seen' = Seen
  BY <1>1, <1>2, <1>3, ContractIs
<1>4. CASE Seen' # Seen
  <2>1. Seen = "running" /\ ~GaveUp /\ status' # "running"
    BY <1>1, <1>4, StatusSettled DEF Seen
  <2>2. EndToEnd'
    BY SystemInvEnds, PTL
  <2>3. CASE Seen' = "success"
    <3>1. status' = "main_success"
      BY <2>3 DEF Seen
    <3>2. torn = {} /\ saved = Asked
      BY <1>1, <1>2, <2>2, <3>1 DEF EndToEnd, Asked
    <3> QED
      BY <1>1, <1>2, <2>1, <2>3, <3>2, ContractIs DEF Contract!Next
  <2>4. CASE Seen' = "failure"
    <3>1. status' = "main_failure"
      BY <2>4 DEF Seen
    <3>2. torn = {} /\ saved = {}
      BY <1>1, <2>2, <3>1 DEF EndToEnd
    <3> QED
      BY <1>1, <1>2, <2>1, <2>4, <3>2, ContractIs DEF Contract!Next
  <2>5. CASE Seen' = "stopped"
    BY <1>1, <1>2, <2>1, <2>5, ContractIs DEF Contract!Next
  <2> QED
    BY <1>4, <2>1, <2>3, <2>4, <2>5 DEF Seen
<1> QED
  BY <1>3, <1>4

\* The files of usable sources are those that were asked for.
LEMMA UsableAsked ==
  ASSUME SystemInv, argPc = "ready", argRun.buildPathExists, AtStart, ~run.version,
         NEW i \in DOMAIN Sources, Usable(Sources[i])
  PROVE  Made(Sources[i]) \in Asked
<1>1. PICK text : Accepted(text) /\ Sources[i] = FileNamed(text)
  BY SourcesAre DEF SystemInv
<1>2. text \in argRun.existing /\ NameOf(text) \notin NoExtension
  BY <1>1, SourceExists DEF SystemInv, Accepted, Usable, FileNamed, Located
<1>3. text \in Expected
  BY <1>1, <1>2 DEF Expected, Accepted, NamesFile, Args!Acceptable
<1>4. Made(Sources[i]) = [dir |-> StartingOutDir, name |-> NameOf(text), generated |-> 1]
  BY <1>1 DEF Made, FileNamed, Located
<1> QED
  BY <1>3, <1>4 DEF Asked, ExpectedFiles

\* The work on files, as it looks from outside.
LEMMA GenerateStep ==
  ASSUME SystemInv, SystemInv', Generate
  PROVE  [Contract!Next]_(Contract!vars)
<1>1. /\ AtStart /\ argPc = "ready" /\ argRun.buildPathExists /\ ~run.version
  BY DEF SystemInv, LinkInv, StageLink, PastCling, Lifecycle!CommandPcs, Generate
<1>2. status = "running" /\ status' = "running"
  BY DEF SystemInv, LifecycleInv, Lifecycle!EventInv, Lifecycle!EndPcs, Generate, toolVars
<1>3. Asked' = Asked
  BY AskedStays DEF Next, Step
<1>4. Files!out_path = Made(Sources[source])
  BY <1>1, FilesAre
<1>5. ~GaveUp => Seen = "running"
  BY <1>2 DEF Seen
<1>6. GaveUp' => Seen' = "stopped"
  BY DEF Seen
<1>7. ~GaveUp' => Seen' = "running"
  BY <1>2 DEF Seen
<1>8. CASE Files!ListSources
  <2>1. /\ genPc = "list" /\ genPc' \in {"missing_source", "next"}
        /\ torn' = torn /\ saved' = saved
    BY <1>8 DEF Files!ListSources
  <2> QED
    BY <1>3, <1>5, <1>6, <1>7, <2>1, ContractIs DEF GaveUp, Contract!Next
<1>9. CASE Files!SkipSource \/ Files!RewriteSource \/ Files!RefuseToSave \/ Files!FinishRun
  <2>1. /\ genPc \in {"next", "save"} /\ genPc' \in {"next", "save", "done"}
        /\ torn' = torn /\ saved' = saved
    BY <1>9 DEF Files!SkipSource, Files!RewriteSource, Files!RefuseToSave, Files!FinishRun,
                Files!InSources
  <2> QED
    BY <1>3, <1>5, <1>7, <2>1, ContractIs DEF GaveUp
<1>10. CASE Files!OpenFails
  <2>1. /\ genPc = "save" /\ genPc' \in {"not_absolute", "failed"}
        /\ torn' = torn /\ saved' = saved
    BY <1>10 DEF Files!OpenFails
  <2> QED
    BY <1>3, <1>5, <1>6, <2>1, ContractIs DEF GaveUp, Contract!Next
<1>11. CASE Files!OpenFile
  <2>1. /\ genPc = "save" /\ genPc' = "write" /\ saved' = saved
        /\ torn' = torn \cup {Made(Sources[source])}
        /\ Sources[source].name \notin NoExtension
    BY <1>1, <1>4, <1>11, FilesAre DEF Files!OpenFile
  <2>2. SourcesDone
    BY <2>1 DEF SystemInv, WorkInv
  <2>3. torn = {} /\ source \in DOMAIN Sources /\ Usable(Sources[source])
    BY <1>1, <2>1, <2>2, SourcesAre DEF SystemInv, SourcesDone, Usable
  <2>4. Made(Sources[source]) \in Asked
    BY <1>1, <2>3, UsableAsked
  <2> QED
    BY <1>3, <1>5, <1>7, <2>1, <2>3, <2>4, ContractIs DEF GaveUp, Contract!Next
<1>12. ASSUME genPc = "write" PROVE torn = {Made(Sources[source])}
  BY <1>12 DEF SystemInv, WorkInv, SourcesDone
<1>13. CASE Files!WriteFile
  <2>1. /\ genPc = "write" /\ genPc' = "next" /\ saved' = saved \cup torn
        /\ torn' = {} /\ torn # {}
    BY <1>4, <1>12, <1>13 DEF Files!WriteFile
  <2> QED
    BY <1>3, <1>5, <1>7, <2>1, ContractIs DEF GaveUp, Contract!Next
<1>14. CASE Files!WriteFails
  <2>1. /\ genPc = "write" /\ genPc' = "failed" /\ saved' = saved \cup torn
        /\ torn' = torn /\ torn # {}
    BY <1>4, <1>12, <1>14 DEF Files!WriteFails
  <2> QED
    BY <1>3, <1>5, <1>6, <2>1, ContractIs DEF GaveUp, Contract!Next
<1> QED
  BY <1>8, <1>9, <1>10, <1>11, <1>13, <1>14 DEF Generate, Files!Step

\* The whole process, with its plugins, its arguments and its files, keeps the
\* contract that its exit code and the generated files make with the outside.
THEOREM ContractRefined == Spec => ContractKept
<1>1. Init => Contract!Init
  <2> SUFFICES ASSUME Init PROVE Contract!Init
    OBVIOUS
  <2>1. genPc = "list" /\ status = "running" /\ saved = {} /\ torn = {}
    BY DEF Init, Tool!Init
  <2> QED
    BY <2>1, ContractIs DEF Seen, GaveUp
<1>2. SystemInv /\ [Next]_vars => [Contract!Next]_(Contract!vars)
  <2> SUFFICES ASSUME SystemInv, [Next]_vars PROVE [Contract!Next]_(Contract!vars)
    OBVIOUS
  <2>1. SystemInv'
    BY SystemInvNext
  <2>2. CASE Generate
    BY <2>1, <2>2, GenerateStep
  <2>3. CASE UNCHANGED genVars
    BY <2>1, <2>3, EndStep
  <2> QED
    BY <2>2, <2>3 DEF Next, Step, Finished, Proceed, BuildClangArgs, InitClang, BuildClingArgs,
                      InitCling, ParserExits, FinishTool, vars
<1> QED
  BY <1>1, <1>2, SystemInvHolds, PTL DEF Spec, ContractKept, Contract!Spec

=============================================================================
