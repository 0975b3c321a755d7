--------------------------- MODULE ToolLifecycle ---------------------------
(***************************************************************************)
(* One run of the flextool process: main(), initEnv(), the events main     *)
(* sends to the plugins, the hand-over to clang libtooling, and the        *)
(* destruction of the five Scoped*Environment objects in reverse order.    *)
(*                                                                         *)
(* The event dispatcher, the plugin manager, base and libtooling are       *)
(* external: a trigger calls every connected plugin before it returns,     *)
(* Startup loads some of the plugins, Shutdown unloads them all, and       *)
(* libtooling may call exit() instead of returning.                        *)
(*                                                                         *)
(* Operators named Mutant_X are plausible bugs in X, not part of the       *)
(* model: with X replaced by Mutant_X a property of the runs must fail.    *)
(***************************************************************************)
EXTENDS Naturals, Sequences

CONSTANT Plugins  \* the plugins that Startup may find

\* ScopedPluginEnvironment with its dispatcher declared before plug_mgr.
Mutant_Members ==
  <<"cmd_env", "base_env", "main_events_dispatcher", "plug_mgr",
    "annotationMethods", "sourceTransformPipeline", "annotationParser",
    "anotationMatchHandler", "annotationMatchOptions", "fileSaveHandler",
    "clingInterpreter">>

\* main with the clang and Cling environments declared before the plugins'.
Mutant_EnvironmentOrder ==
  <<"cmd_env", "base_env", "annotationMethods", "sourceTransformPipeline",
    "annotationParser", "anotationMatchHandler", "annotationMatchOptions",
    "fileSaveHandler", "clingInterpreter", "plug_mgr", "main_events_dispatcher">>

\* ScopedClangEnvironment with the methods declared after what points to them.
Mutant_MethodsLast ==
  <<"cmd_env", "base_env", "plug_mgr", "main_events_dispatcher",
    "sourceTransformPipeline", "annotationParser", "anotationMatchHandler",
    "annotationMatchOptions", "annotationMethods", "fileSaveHandler",
    "clingInterpreter">>

\* What main's environments own, in the order of construction: the members of
\* ScopedPluginEnvironment and ScopedClangEnvironment in declaration order.
Members == <<"cmd_env", "base_env", "plug_mgr", "main_events_dispatcher",
             "annotationMethods", "sourceTransformPipeline", "annotationParser",
             "anotationMatchHandler", "annotationMatchOptions", "fileSaveHandler",
             "clingInterpreter">>
Objects == {Members[i] : i \in DOMAIN Members}

\* The other members are null until an init creates them.
BuiltByConstructors ==
  {"cmd_env", "base_env", "plug_mgr", "main_events_dispatcher", "fileSaveHandler"}

\* What each object of libtooling's callback chain holds a bare pointer to.
PointsTo(object) ==
  CASE object = "annotationParser" -> {"annotationMethods"}
    [] object = "anotationMatchHandler" ->
         {"annotationParser", "annotationMethods", "fileSaveHandler"}
    [] object = "annotationMatchOptions" -> {"anotationMatchHandler"}
    [] OTHER -> {}

Events == {"Init", "RegisterClingInterpreter", "RegisterAnnotationMethods",
           "version", "help", "unload"}

\* Directories: where the process starts, the executable's, one named by an
\* absolute path, `sub` below the start, and `sub` below that.
Dirs == {"start", "exe", "abs", "start/sub", "start/sub/sub"}

\* AppCmdOptions::outDir(): evaluated anew at each call, against the current
\* directory, with the executable's directory as default.
OutDir(outdir, cwd) ==
  CASE outdir = "default" -> "exe"
    [] outdir = "absolute" -> "abs"
    [] outdir = "." -> cwd
    [] OTHER -> IF cwd = "start" THEN "start/sub" ELSE "start/sub/sub"

Run == [version: BOOLEAN, help: BOOLEAN,      \* boostCmdParser.count(...)
        outdir: {"default", "absolute", ".", "sub"},
        cling: BOOLEAN,                       \* built with CLING_IS_ON
        dcheck: BOOLEAN]                      \* built with DCHECK and NOTREACHED enabled

VARIABLES
  run,               \* the inputs of the process: never change
  pc,
  cwd,               \* current directory of the process
  alive,             \* the objects that exist
  managerConnected,  \* plug_mgr listens to the dispatcher
  loaded,            \* plugins in memory
  connected,         \* plugins that listen to the dispatcher
  heard,             \* what each plugin was told, in order
  given,             \* the objects each plugin got pointers to
  saveDir,           \* directory bound into FileSaveHandler::saveFile
  printed,           \* the built-in answers already on the log
  factoryLeaked,     \* libtooling's factory keeps annotationMatchOptions
  slot,              \* next member to destroy
  status             \* how the process ends

vars == <<run, pc, cwd, alive, managerConnected, loaded, connected, heard, given,
          saveDir, printed, factoryLeaked, slot, status>>

pluginVars == <<managerConnected, loaded, connected, heard, given>>

Statuses == {"running", "main_success", "main_failure", "tool_success",
             "tool_failure", "aborted"}

\* exit() called where main returns.
Mutant_Return(how) == pc' = "exited" /\ status' = how

\* main's `return`: the destructors of the environments run.
Return(how) == pc' = "teardown" /\ status' = how

\* A fatal check or exit(): no destructor of main's objects runs.
End(how) == pc' = "exited" /\ status' = how

Continue(to) == pc' = to /\ UNCHANGED status

\* NOTREACHED or DCHECK(false), then `return false` and EXIT_FAILURE.
FailInit ==
  IF run.dcheck THEN End("aborted") ELSE Return("main_failure")

Tell(listeners, event, objects) ==
  /\ heard' = [p \in Plugins |-> IF p \in listeners THEN Append(heard[p], event) ELSE heard[p]]
  /\ given' = [p \in Plugins |-> IF p \in listeners THEN given[p] \cup objects ELSE given[p]]

\* main_events_dispatcher->trigger<Event>(...)
Trigger(event, objects) ==
  /\ Tell(connected, event, objects)
  /\ UNCHANGED <<managerConnected, loaded, connected>>

Init ==
  /\ run \in Run
  /\ pc = "init_cmd"
  /\ cwd = "start"
  /\ alive = BuiltByConstructors
  /\ managerConnected = FALSE
  /\ loaded = {} /\ connected = {}
  /\ heard = [p \in Plugins |-> <<>>]
  /\ given = [p \in Plugins |-> {}]
  /\ saveDir = "none"
  /\ printed = {}
  /\ factoryLeaked = FALSE
  /\ slot = Len(Members)
  /\ status = "running"

-----------------------------------------------------------------------------
(* initEnv                                                                 *)

\* PathService or the option parser fail, or not.
InitCmd ==
  /\ pc = "init_cmd"
  /\ Continue("init_base") \/ FailInit
  /\ UNCHANGED <<run, cwd, alive, pluginVars, saveDir, printed, factoryLeaked, slot>>

\* ScopedBaseEnvironment::init makes the output directory the current one.
InitBase ==
  /\ pc = "init_base"
  /\ \/ cwd' = OutDir(run.outdir, cwd) /\ Continue("plugin_connect_manager")
     \/ Return("main_failure") /\ UNCHANGED cwd
  /\ UNCHANGED <<run, alive, pluginVars, saveDir, printed, factoryLeaked, slot>>

ConnectManager ==
  /\ pc = "plugin_connect_manager"
  /\ \/ managerConnected' = TRUE /\ Continue("plugin_init_event")
     \/ FailInit /\ UNCHANGED managerConnected
  /\ UNCHANGED <<run, cwd, alive, loaded, connected, heard, given, saveDir, printed,
                 factoryLeaked, slot>>

\* No sanity check.
Mutant_OutDirIsCurrent == TRUE
OutDirIsCurrent == cwd = OutDir(run.outdir, cwd)

\* Sent before Startup, so before any plugin is there to hear it; then
\* CHECK(curDir == outDir).
SendInit ==
  /\ pc = "plugin_init_event"
  /\ Trigger("Init", {})
  /\ IF OutDirIsCurrent THEN Continue("plugin_startup") ELSE End("aborted")
  /\ UNCHANGED <<run, cwd, alive, saveDir, printed, factoryLeaked, slot>>

\* PluginManager loads what the directory and the configuration file let it
\* load; finding none is only logged.
StartUpPlugins ==
  /\ pc = "plugin_startup"
  /\ loaded' \in SUBSET Plugins
  /\ Continue("plugin_connect")
  /\ UNCHANGED <<run, cwd, alive, managerConnected, connected, heard, given, saveDir,
                 printed, factoryLeaked, slot>>

ConnectPlugins ==
  /\ pc = "plugin_connect"
  /\ connected' = loaded
  /\ Continue("init_clang")
  /\ UNCHANGED <<run, cwd, alive, managerConnected, loaded, heard, given, saveDir,
                 printed, factoryLeaked, slot>>

\* The parser is never created.
Mutant_BuiltByClangInit ==
  {"annotationMethods", "anotationMatchHandler", "annotationMatchOptions",
   "sourceTransformPipeline"}

BuiltByClangInit ==
  {"annotationMethods", "annotationParser", "anotationMatchHandler",
   "annotationMatchOptions", "sourceTransformPipeline"}

\* ScopedClangEnvironment::init.  How the arguments are built, and when that
\* fails or aborts, is module ArgForwarding.
InitClang ==
  /\ pc = "init_clang"
  /\ \/ /\ alive' = alive \cup BuiltByClangInit
        /\ saveDir' = OutDir(run.outdir, cwd)
        /\ Continue(IF run.cling THEN "init_cling" ELSE "register_methods")
     \/ (Return("main_failure") \/ End("aborted")) /\ UNCHANGED <<alive, saveDir>>
  /\ UNCHANGED <<run, cwd, pluginVars, printed, factoryLeaked, slot>>

\* The plugins get the interpreter before its init is known to have worked.
Mutant_InitCling ==
  /\ pc = "init_cling"
  /\ Trigger("RegisterClingInterpreter", {"clingInterpreter"})
  /\ alive' = alive \cup {"clingInterpreter"}
  /\ Continue("register_methods") \/ Return("main_failure") \/ End("aborted")
  /\ UNCHANGED <<run, cwd, saveDir, printed, factoryLeaked, slot>>

InitCling ==
  /\ pc = "init_cling"
  /\ \/ alive' = alive \cup {"clingInterpreter"} /\ Continue("register_interpreter")
     \/ (Return("main_failure") \/ End("aborted")) /\ UNCHANGED alive
  /\ UNCHANGED <<run, cwd, pluginVars, saveDir, printed, factoryLeaked, slot>>

RegisterClingInterpreter ==
  /\ pc = "register_interpreter"
  /\ Trigger("RegisterClingInterpreter", {"clingInterpreter"})
  /\ Continue("register_methods")
  /\ UNCHANGED <<run, cwd, alive, saveDir, printed, factoryLeaked, slot>>

\* The type of the event copied from the block above.
Mutant_RegisterAnnotationMethods ==
  /\ pc = "register_methods"
  /\ Trigger("RegisterClingInterpreter", {"annotationMethods", "sourceTransformPipeline"})
  /\ Continue("commands")
  /\ UNCHANGED <<run, cwd, alive, saveDir, printed, factoryLeaked, slot>>

RegisterAnnotationMethods ==
  /\ pc = "register_methods"
  /\ Trigger("RegisterAnnotationMethods", {"annotationMethods", "sourceTransformPipeline"})
  /\ Continue("commands")
  /\ UNCHANGED <<run, cwd, alive, saveDir, printed, factoryLeaked, slot>>

-----------------------------------------------------------------------------
(* handleCmdOptions and libtooling                                         *)

\* The version is logged, then the plugins are told.
LogVersion ==
  /\ pc = "commands" /\ run.version
  /\ printed' = printed \cup {"version"}
  /\ Continue("send_version")
  /\ UNCHANGED <<run, cwd, alive, pluginVars, saveDir, factoryLeaked, slot>>

SendVersion ==
  /\ pc = "send_version"
  /\ Trigger("version", {})
  /\ Return("main_success")
  /\ UNCHANGED <<run, cwd, alive, saveDir, printed, factoryLeaked, slot>>

\* The options are logged, then the plugins are told: of `version`.
LogHelp ==
  /\ pc = "commands" /\ ~run.version /\ run.help
  /\ printed' = printed \cup {"help"}
  /\ Continue("send_help")
  /\ UNCHANGED <<run, cwd, alive, pluginVars, saveDir, factoryLeaked, slot>>

SendHelp ==
  /\ pc = "send_help"
  /\ Trigger("version", {})
  /\ Continue("tool")
  /\ UNCHANGED <<run, cwd, alive, saveDir, printed, factoryLeaked, slot>>

NoCommand ==
  /\ pc = "commands" /\ ~run.version /\ ~run.help
  /\ Continue("tool")
  /\ UNCHANGED <<run, cwd, alive, pluginVars, saveDir, printed, factoryLeaked, slot>>

\* ClangTool::run.  `-help`, or a `-help-list` that was forwarded, makes the
\* option parser print and call exit(0);
\* arguments it rejects, or a stream that cannot be written, end in exit(1); a
\* debug build may abort where sources are listed or saved; otherwise they are
\* processed and, whatever the result, main goes on to success.
RunTool ==
  /\ pc = "tool"
  /\ \/ End("tool_success") /\ UNCHANGED factoryLeaked
     \/ End("tool_failure") /\ UNCHANGED factoryLeaked
     \/ ~run.help /\ run.dcheck /\ End("aborted") /\ UNCHANGED factoryLeaked
     \/ ~run.help /\ Return("main_success") /\ factoryLeaked' = TRUE
  /\ UNCHANGED <<run, cwd, alive, pluginVars, saveDir, printed, slot>>

-----------------------------------------------------------------------------
(* Destruction                                                             *)

\* The body of ~ScopedPluginEnvironment, before its members go.
ShutdownPlugins ==
  /\ pc = "teardown"
  /\ Members[slot] = "main_events_dispatcher"
  /\ IF managerConnected
     THEN Tell(loaded, "unload", {}) /\ loaded' = {} /\ UNCHANGED <<managerConnected, connected>>
     ELSE UNCHANGED pluginVars
  /\ pc' = "teardown_plugins"
  /\ UNCHANGED <<run, cwd, alive, saveDir, printed, factoryLeaked, slot, status>>

\* One member too many.
Mutant_LastMember == slot = 0
LastMember == slot = 1

\* A scoped_refptr that libtooling's factory shares does not take the object along.
DestroyMember ==
  /\ \/ pc = "teardown" /\ Members[slot] # "main_events_dispatcher"
     \/ pc = "teardown_plugins"
  /\ alive' = IF Members[slot] = "annotationMatchOptions" /\ factoryLeaked
              THEN alive ELSE alive \ {Members[slot]}
  /\ slot' = slot - 1
  /\ pc' = IF LastMember THEN "exited" ELSE "teardown"
  /\ UNCHANGED <<run, cwd, pluginVars, saveDir, printed, factoryLeaked, status>>

Step ==
  \/ InitCmd
  \/ InitBase
  \/ ConnectManager
  \/ SendInit
  \/ StartUpPlugins
  \/ ConnectPlugins
  \/ InitClang
  \/ InitCling
  \/ RegisterClingInterpreter
  \/ RegisterAnnotationMethods
  \/ LogVersion
  \/ SendVersion
  \/ LogHelp
  \/ SendHelp
  \/ NoCommand
  \/ RunTool
  \/ ShutdownPlugins
  \/ DestroyMember

Finished == pc = "exited" /\ UNCHANGED vars

Next == Step \/ Finished

\* One thread runs main, and every call it makes returns or ends the process:
\* libtooling is assumed to get through the sources it is given.
Spec == Init /\ [][Next]_vars /\ WF_vars(Step)

-----------------------------------------------------------------------------
(* Properties.                                                             *)

InitPcs == {"init_cmd", "init_base", "plugin_connect_manager", "plugin_init_event",
            "plugin_startup", "plugin_connect", "init_clang", "init_cling",
            "register_interpreter"}
CommandPcs == {"register_methods", "commands", "send_version", "send_help", "tool"}
EndPcs == {"teardown", "teardown_plugins", "exited"}

\* The types of the variables; slot names a member for as long as one is left.
TypeOK ==
  /\ run \in Run
  /\ pc \in InitPcs \cup CommandPcs \cup EndPcs
  /\ cwd \in Dirs
  /\ alive \in SUBSET Objects
  /\ managerConnected \in BOOLEAN
  /\ loaded \in SUBSET Plugins
  /\ connected \in SUBSET Plugins
  /\ heard \in [Plugins -> Seq(Events)]
  /\ given \in [Plugins -> SUBSET Objects]
  /\ saveDir \in Dirs \cup {"none"}
  /\ printed \in SUBSET {"version", "help"}
  /\ factoryLeaked \in BOOLEAN
  /\ slot \in 0..Len(Members)
  /\ slot = 0 => pc = "exited"
  /\ status \in Statuses

Unloaded(p) == heard[p] # <<>> /\ heard[p][Len(heard[p])] = "unload"

\* The order of the members makes destruction safe from the inside out: the
\* dispatcher, which holds delegates to the plugin manager, goes before it
\* (plugin_environment.cc:34), and everything that runs on base's task runner
\* goes before ScopedBaseEnvironment, whichever init the run came to.
TornDownInsideOut ==
  /\ "main_events_dispatcher" \in alive => "plug_mgr" \in alive
  /\ alive \subseteq {"cmd_env", "base_env", "annotationMatchOptions"} \/ "base_env" \in alive

Reachable ==
  LET direct == PointsTo("annotationMatchOptions")
      second == UNION {PointsTo(o) : o \in direct}
      third == UNION {PointsTo(o) : o \in second}
  IN {"annotationMatchOptions"} \cup direct \cup second \cup third

\* While libtooling may call back, everything the chain of raw and Unretained
\* pointers behind AnnotationMatchOptions leads to exists; and until main
\* returns so does everything the plugins hold pointers to.
CallbacksReachLiveObjects ==
  /\ pc = "tool" => Reachable \subseteq alive
  /\ pc \notin EndPcs => \A p \in Plugins : given[p] \subseteq alive

\* Plugins are unloaded last: when one is, nothing it was ever given a pointer to
\* exists any more.  Its destructor finds no interpreter and no annotation methods
\* to use, so it must not; the other way round, nothing of the two environments
\* can call into a plugin that is gone.  main.cc:422 leaves the order open, but
\* plugins see it.
UnloadFindsNothing ==
  \A p \in Plugins : Unloaded(p) => given[p] \cap alive = {}

\* Where pointers dangle: what exists and points to something destroyed is the
\* handler that has outlived fileSaveHandler (its Unretained, clang_environment.cc:132,
\* "must control lifetime"), or the options that libtooling's factory leaked.  Both
\* happen after libtooling returned; every other pointer in the chain goes
\* before its target, in failed and in successful runs.
DanglingOnlyWhereKnown ==
  \A object \in alive :
    \/ PointsTo(object) \subseteq alive
    \/ /\ pc \in EndPcs
       /\ \/ object = "annotationMatchOptions" /\ factoryLeaked
          \/ object = "anotationMatchHandler"
             /\ PointsTo(object) \ alive = {"fileSaveHandler"}

\* Once the process is over: if main returned, every plugin it had loaded was
\* unloaded by Shutdown, on the failure paths too; if libtooling called exit()
\* or a check was fatal, none was.
PluginsUnloadedIffMainReturns ==
  pc = "exited" =>
    IF status \in {"main_success", "main_failure"}
    THEN loaded = {} /\ \A p \in connected : Unloaded(p)
    ELSE \A p \in Plugins : ~Unloaded(p)

\* EXIT_FAILURE from main is clean for plugins: no plugin had been told
\* anything, so none acted for a run that did not happen.  A successful return
\* means every connected plugin had registered its annotation methods.
FailsBeforeAnyEvent ==
  /\ status = "main_failure" => \A p \in Plugins : heard[p] \in {<<>>, <<"unload">>}
  /\ status = "main_success" =>
       \A p \in connected : \E i \in DOMAIN heard[p] : heard[p][i] = "RegisterAnnotationMethods"

\* AppCmdOptions::outDir() is evaluated up to five times, before and after
\* base_env.init changed the current directory it resolves against.  The CHECK
\* in ScopedPluginEnvironment::init lets no run past for which the answers
\* differ, so generated files go to the current directory.
GeneratedIntoCwd ==
  saveDir # "none" => saveDir = cwd /\ OutDir(run.outdir, "start") = cwd

\* What a plugin goes through, for the contract of module PluginProtocol.
history ==
  [p \in Plugins |->
     (IF p \in loaded \/ heard[p] # <<>> THEN <<"loaded">> ELSE <<>>)
     \o (IF p \in connected THEN <<"connected">> ELSE <<>>)
     \o heard[p]]

Protocol == INSTANCE PluginProtocol WITH Plugins <- Plugins, history <- history

\* The dispatcher, the order of initEnv and the destructors together keep the
\* plugins' contract: all plugins move together through load, connect,
\* interpreter, annotation methods, command, and unload ends it from anywhere.
FollowsProtocol == Protocol!Spec

-----------------------------------------------------------------------------
(* What comments of the code say, and the runs refute.                     *)

\* main.cc:287, "handle command-line argument: `--help`": plugins are told
\* `version` for `--version` only.
VersionMeansVersion ==
  \A p \in Plugins : \A i \in DOMAIN heard[p] : heard[p][i] = "version" => run.version

=============================================================================
