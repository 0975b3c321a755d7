----------------------------- MODULE CmdOptions -----------------------------
(***************************************************************************)
(* flextool's own command-line options: AppCmdOptions registers them, the  *)
(* parser stores them, and the environments of initEnv ask for them one    *)
(* after the other, each when its turn comes.  Paths may be relative, and  *)
(* ScopedBaseEnvironment changes the current directory on the way.         *)
(*                                                                         *)
(* The boost parser, base and the helpers of basic/cmd_util.h are external *)
(* and modelled from how src/ uses them: an option that was registered     *)
(* twice is ambiguous; a flag and an option with one value are typed once, *)
(* the flag without a value, the other with it; one that takes many is     *)
(* typed with some each time; what nobody registered is kept apart; an     *)
(* option that was not typed has no path; and a relative path is relative  *)
(* to the current directory.                                               *)
(*                                                                         *)
(* Operators named Mutant_X are plausible bugs in X, not part of the       *)
(* model: with X replaced by Mutant_X a property of the runs must fail.    *)
(***************************************************************************)
EXTENDS Integers, Sequences, SequencesExt

CONSTANTS
  Name,            \* the names that paths are made of
  MinInt, MaxInt,  \* the range of int; a number outside also stands for no number
  CommandLines     \* what may be typed

kMinThreadNum == 1
kMaxThreadNum == 100
kDefaultThreadNum == 2

ASSUME IntRange ==
  /\ MinInt \in Int /\ MaxInt \in Int
  /\ MinInt <= kMinThreadNum /\ kMaxThreadNum <= MaxInt

SinglePath == {"outdir", "indir", "plugins_dir", "plugins_config"}
MultiPath == {"load_plugin", "cling_scripts"}  \* multitoken()

Path == [absolute: BOOLEAN, names: Seq(Name)]

\* A command line has, for each option, the values of each of its occurrences:
\* those that the parser takes for it, after `=` or from the words behind it.
\* threads (--threads or -J) has numbers, paths has paths, and others words that
\* nothing here depends on, for the keys that were typed.  It is malformed if an
\* option has an `=` with nothing behind it, or is only the beginning of several
\* registered names.
OtherKeys == STRING \ (SinglePath \cup MultiPath \cup {"threads", "J"})

ASSUME CommandLinesTyped ==
  \A line \in CommandLines :
    /\ line.threads \in Seq(Seq(Int))
    /\ line.paths \in [SinglePath \cup MultiPath -> Seq(Seq(Path))]
    /\ DOMAIN line.others \subseteq OtherKeys
    /\ \A key \in DOMAIN line.others : line.others[key] \in Seq(Seq({"word"})) \ {<<>>}
    /\ line.malformed \in BOOLEAN

\* Directories and files: where they are reached from, and the names on the way.
Place == [root: {"start", "exe", "absolute"},
          names: Seq(Name \cup {"plugins", "resources/configuration_files", "plugins.conf"})]

Takes == {"none", "one", "many"}  \* how many values go with a key

Run == [commandLine: CommandLines,
        platform: {"linux", "windows"},
        exeKnown: BOOLEAN,  \* PathService::Get(DIR_EXE)
        cling: BOOLEAN,     \* built with CLING_IS_ON
        dcheck: BOOLEAN]    \* built with DCHECK and NOTREACHED enabled

VARIABLES
  run,           \* the inputs of the process: never change
  pc,
  cwd,           \* current directory of the process
  options,       \* what is registered, in order: keys and how many values each takes
  parsed,        \* the typed keys that the parser knows
  unregistered,  \* the keys of BoostCmdParser::unregisteredOptions()
  cmdOptions_,   \* the static members that the parser writes to
  answers,       \* which getter told which environment which places
  threads,       \* number of threads base is given, 0 before
  tracing,       \* whether base starts tracing
  forwardsHelp   \* ScopedClangEnvironment adds `-help`

vars == <<run, pc, cwd, options, parsed, unregistered, cmdOptions_, answers,
          threads, tracing, forwardsHelp>>

answered == <<answers, threads, tracing, forwardsHelp>>

ParseFailed == {"parse_failed", "parse_aborted"}
Final == {"done", "failed", "aborted"} \cup ParseFailed

Typed ==
  DOMAIN run.commandLine.others
  \cup {key \in SinglePath \cup MultiPath : run.commandLine.paths[key] # <<>>}
  \cup (IF run.commandLine.threads # <<>> THEN {"threads"} ELSE {})

\* The values of each occurrence of a key.
Occurrences(key) ==
  CASE key = "threads" -> run.commandLine.threads
    [] key \in SinglePath \cup MultiPath -> run.commandLine.paths[key]
    [] key \in DOMAIN run.commandLine.others -> run.commandLine.others[key]
    [] OTHER -> <<>>

\* All values of an option, in the order typed.
Values(key) == FlattenSeq(run.commandLine.paths[key])
Numbers == FlattenSeq(run.commandLine.threads)

Init ==
  /\ run \in Run
  /\ pc = "main"
  /\ cwd = [root |-> "start", names |-> <<>>]
  /\ options = <<>>
  /\ parsed = {} /\ unregistered = {}
  /\ cmdOptions_ = [thread_num_arg |-> <<>>, cling_scripts |-> <<>>,
                    pathsToExtraPluginFiles |-> <<>>]
  /\ answers = {}
  /\ threads = 0
  /\ tracing = "unknown"
  /\ forwardsHelp = FALSE

\* A fatal check in a debug build, EXIT_FAILURE in any other.
FailInit == pc' = IF run.dcheck THEN "aborted" ELSE "failed"

-----------------------------------------------------------------------------
(* Registration and parsing.                                               *)

\* Registrations that take the same number of values.
Each(takes, keys) == [i \in DOMAIN keys |-> [key |-> keys[i], takes |-> takes]]

registerCommonOptions(opts) == opts \o Each("none", <<"help", "version">>)

registerPluginsOptions(opts) ==
  opts \o Each("one", <<"plugins_dir", "plugins_config">>) \o Each("many", <<"load_plugin">>)

registerClingOptions(opts) == opts \o Each("many", <<"cling_scripts">>)

registerTracingOptions(opts) == opts \o Each("one", <<"tracing_categories">>)

\* Another letter for the number of threads: that of processes.
Mutant_registerToolOptions(opts) == opts \o Each("one", <<"outdir", "indir", "threads", "p">>)

\* "threads,J" is one option of two names.
registerToolOptions(opts) == opts \o Each("one", <<"outdir", "indir", "threads", "J">>)

\* The same entry twice, on every platform.
Mutant_registerBaseSwitches(opts, platform) ==
  opts \o Each("one", <<"disable-usb-keyboard-detect", "disable-usb-keyboard-detect">>)

\* The switches of base are registered so that the parser lets them through, all
\* of them with a value, which is what po::value<std::string>() asks for.
registerBaseSwitches(opts, platform) ==
  opts \o
  Each("one", <<"disable-best-effort-tasks", "disable-breakpad", "disable-features",
    "disable-low-end-device-mode", "enable-crash-reporter", "enable-features",
    "enable-low-end-device-mode", "force-fieldtrials", "full-memory-crash-report",
    "noerrdialogs", "profiling-at-start", "profiling-file", "profiling-flush",
    "test-child-process", "test-do-not-initialize-icu", "trace-to-file",
    "trace-to-file-name", "v", "vmodule", "wait-for-debugger">>) \o
  Each("one", IF platform = "windows"
              THEN <<"disable-usb-keyboard-detect", "disable-usb-keyboard-detect">>
              ELSE <<"disable-dev-shm-usage", "enable-crash-reporter-for-testing",
                     "enable-thread-instruction-count">>)

\* DCHECK(argc > 1), then the constructor of AppCmdOptions: NOTREACHED when the
\* executable's directory is not known; init will find that out again.
Construct ==
  /\ pc = "main"
  /\ pc' = IF run.dcheck /\ (Typed = {} \/ ~run.exeKnown) THEN "aborted" ELSE "register"
  /\ UNCHANGED <<run, cwd, options, parsed, unregistered, cmdOptions_, answered>>

\* ScopedCmdEnvironment::init up to the parser.
RegisterOptions ==
  /\ pc = "register"
  /\ IF run.exeKnown
     THEN /\ pc' = "parse"
          /\ options' =
               registerBaseSwitches(
                 registerToolOptions(
                   registerTracingOptions(
                     registerClingOptions(
                       registerPluginsOptions(registerCommonOptions(options))))),
                 run.platform)
     ELSE FailInit /\ UNCHANGED options
  /\ UNCHANGED <<run, cwd, parsed, unregistered, cmdOptions_, answered>>

Registered == {options[i].key : i \in DOMAIN options}

Ambiguous(key) ==
  \E i, j \in DOMAIN options : i # j /\ options[i].key = key /\ options[j].key = key

\* A registered option is typed as often, and with as many values, as it takes.
Fits(option) ==
  LET typed == Occurrences(option.key)
  IN \/ option.takes = "none" /\ typed \in {<<>>, << <<>> >>}
     \/ option.takes = "one" /\ Len(typed) <= 1 /\ \A i \in DOMAIN typed : Len(typed[i]) = 1
     \/ option.takes = "many" /\ \A i \in DOMAIN typed : typed[i] # <<>>

ParserAccepts ==
  /\ ~run.commandLine.malformed
  /\ \A key \in Typed : ~Ambiguous(key)
  /\ \A i \in DOMAIN options : Fits(options[i])
  /\ \A i \in DOMAIN Numbers : Numbers[i] \in MinInt..MaxInt

ParseArguments ==
  /\ pc = "parse"
  /\ IF ParserAccepts
     THEN /\ pc' = "base"
          /\ parsed' = Typed \cap Registered
          /\ unregistered' = Typed \ Registered
          /\ cmdOptions_' =
               [thread_num_arg |-> Numbers,
                cling_scripts |-> Values("cling_scripts"),
                pathsToExtraPluginFiles |-> Values("load_plugin")]
     ELSE /\ pc' = IF run.dcheck THEN "parse_aborted" ELSE "parse_failed"
          /\ UNCHANGED <<parsed, unregistered, cmdOptions_>>
  /\ UNCHANGED <<run, cwd, options, answered>>

-----------------------------------------------------------------------------
(* The getters.                                                            *)

dir_exe_ == [root |-> "exe", names |-> <<>>]

Resolve(path) ==
  IF path.absolute
  THEN [root |-> "absolute", names |-> path.names]
  ELSE [cwd EXCEPT !.names = @ \o path.names]

\* cmdKeyToDirectory or cmdKeyToFile, or the default when that is empty.
KeyToPath(key, default) ==
  IF key \in parsed THEN Resolve(Values(key)[1]) ELSE default

toFilePaths(paths) == [i \in DOMAIN paths |-> Resolve(paths[i])]

outDir == KeyToPath("outdir", dir_exe_)
pluginsDir == KeyToPath("plugins_dir", [dir_exe_ EXCEPT !.names = <<"plugins">>])
pluginsConfigFile ==
  KeyToPath("plugins_config",
            [dir_exe_ EXCEPT !.names = <<"resources/configuration_files", "plugins.conf">>])
pathsToExtraPluginFiles == toFilePaths(cmdOptions_.pathsToExtraPluginFiles)
scriptFiles == toFilePaths(cmdOptions_.cling_scripts)

\* The upper bound forgotten.
Mutant_Clamp(number, low, high) == IF number < low THEN low ELSE number

\* std::clamp
Clamp(number, low, high) ==
  CASE number < low -> low
    [] number > high -> high
    [] OTHER -> number

\* The default for what is out of range, too.
Mutant_threadsNum ==
  IF \E i \in DOMAIN cmdOptions_.thread_num_arg :
       cmdOptions_.thread_num_arg[i] \in kMinThreadNum..kMaxThreadNum
  THEN cmdOptions_.thread_num_arg[1] ELSE kDefaultThreadNum

threadsNum ==
  Clamp(IF cmdOptions_.thread_num_arg = <<>>
        THEN kDefaultThreadNum ELSE cmdOptions_.thread_num_arg[1],
        kMinThreadNum, kMaxThreadNum)

Count(key) == IF key \in parsed THEN 1 ELSE 0

Answer(getter, places) == [env |-> pc, getter |-> getter, places |-> places]

-----------------------------------------------------------------------------
(* Who asks, and when.                                                     *)

\* Nobody makes the output directory the current one.
Mutant_EnterDirectory(dir) == UNCHANGED cwd

\* What base's init does with the directory it is given.
EnterDirectory(dir) == cwd' = dir

\* The arguments of base_env.init are evaluated before it changes the directory.
InitBase ==
  /\ pc = "base"
  /\ answers' = answers \cup {Answer("outDir", <<outDir>>)}
  /\ threads' = threadsNum
  /\ tracing' = IF Count("start_tracing") > 0 THEN "on" ELSE "off"
  /\ \/ EnterDirectory(outDir) /\ pc' = "plugin"
     \/ pc' = "failed" /\ UNCHANGED cwd
  /\ UNCHANGED <<run, options, parsed, unregistered, cmdOptions_, forwardsHelp>>

\* No sanity check.
Mutant_OutDirIsCurrent == TRUE
OutDirIsCurrent == cwd = outDir

\* plugin_env.init ends in CHECK(curDir == outDir) or goes on to load the plugins
\* from these places.
InitPlugin ==
  /\ pc = "plugin"
  /\ answers' = answers \cup
       {Answer("pluginsDir", <<pluginsDir>>),
        Answer("pluginsConfigFile", <<pluginsConfigFile>>),
        Answer("pathsToExtraPluginFiles", pathsToExtraPluginFiles),
        Answer("outDir", <<outDir>>)}
  /\ pc' = IF OutDirIsCurrent THEN "database" ELSE "aborted"
  /\ UNCHANGED <<run, cwd, options, parsed, unregistered, cmdOptions_, threads,
                 tracing, forwardsHelp>>

\* Whether there is a compilation database is only logged.
CheckDatabase ==
  /\ pc = "database"
  /\ answers' = answers \cup {Answer("outDir", <<outDir>>)}
  /\ pc' = "clang"
  /\ UNCHANGED <<run, cwd, options, parsed, unregistered, cmdOptions_, threads,
                 tracing, forwardsHelp>>

\* Both calls of outDir(), and count(kHelp); building the arguments may fail.
InitClang ==
  /\ pc = "clang"
  /\ answers' = answers \cup {Answer("outDir", <<outDir>>)}
  /\ \/ /\ forwardsHelp' = (Count("help") > 0)
        /\ pc' = IF run.cling THEN "cling" ELSE "commands"
     \/ pc' \in {"failed", "aborted"} /\ UNCHANGED forwardsHelp
  /\ UNCHANGED <<run, cwd, options, parsed, unregistered, cmdOptions_, threads, tracing>>

InitCling ==
  /\ pc = "cling"
  /\ answers' = answers \cup {Answer("scriptFiles", scriptFiles)}
  /\ pc' \in {"commands", "failed", "aborted"}
  /\ UNCHANGED <<run, cwd, options, parsed, unregistered, cmdOptions_, threads,
                 tracing, forwardsHelp>>

\* `--version` is answered and main returns; otherwise libtooling is run, which
\* asks for no option of flextool's.
HandleCmdOptions ==
  /\ pc = "commands"
  /\ pc' = "done"
  /\ UNCHANGED <<run, cwd, options, parsed, unregistered, cmdOptions_, answered>>

Step ==
  \/ Construct
  \/ RegisterOptions
  \/ ParseArguments
  \/ InitBase
  \/ InitPlugin
  \/ CheckDatabase
  \/ InitClang
  \/ InitCling
  \/ HandleCmdOptions

Finished == pc \in Final /\ UNCHANGED vars

Next == Step \/ Finished

Spec == Init /\ [][Next]_vars

-----------------------------------------------------------------------------
(* Properties.                                                             *)

Running == pc \in {"base", "plugin", "database", "clang", "cling", "commands", "done"}

\* The option that each getter but outDir is about.
KeyOf == [pluginsDir |-> "plugins_dir", pluginsConfigFile |-> "plugins_config",
          pathsToExtraPluginFiles |-> "load_plugin", scriptFiles |-> "cling_scripts"]

\* The keys there are to register.
FlextoolKeys == {"help", "version", "plugins_dir", "plugins_config", "load_plugin",
                 "cling_scripts", "tracing_categories", "outdir", "indir", "threads", "J"}
EverywhereSwitches ==
  {"disable-best-effort-tasks", "disable-breakpad", "disable-features",
   "disable-low-end-device-mode", "enable-crash-reporter", "enable-features",
   "enable-low-end-device-mode", "force-fieldtrials", "full-memory-crash-report",
   "noerrdialogs", "profiling-at-start", "profiling-file", "profiling-flush",
   "test-child-process", "test-do-not-initialize-icu", "trace-to-file",
   "trace-to-file-name", "v", "vmodule", "wait-for-debugger"}
LinuxSwitches == {"disable-dev-shm-usage", "enable-crash-reporter-for-testing",
                  "enable-thread-instruction-count"}
WindowsSwitches == {"disable-usb-keyboard-detect"}
Key == FlextoolKeys \cup EverywhereSwitches \cup LinuxSwitches \cup WindowsSwitches
KeysOn(platform) ==
  FlextoolKeys \cup EverywhereSwitches
  \cup (IF platform = "windows" THEN WindowsSwitches ELSE LinuxSwitches)

\* The types of the variables.
TypeOK ==
  /\ run \in Run
  /\ pc \in {"main", "register", "parse", "base", "plugin", "database", "clang",
             "cling", "commands"} \cup Final
  /\ cwd \in Place
  /\ options \in Seq([key: Key, takes: Takes])
  /\ parsed \subseteq Typed /\ unregistered \subseteq Typed
  /\ cmdOptions_ \in [thread_num_arg: Seq(Int), cling_scripts: Seq(Path),
                      pathsToExtraPluginFiles: Seq(Path)]
  /\ answers \subseteq [env: {"base", "plugin", "database", "clang", "cling"},
                        getter: {"outDir"} \cup DOMAIN KeyOf, places: Seq(Place)]
  /\ threads \in 0..kMaxThreadNum
  /\ tracing \in {"unknown", "on", "off"}
  /\ forwardsHelp \in BOOLEAN

\* What is not typed as a flag, as an option with one value, or with many.
Flags == {"help", "version"}
NotAFlag(key) == Occurrences(key) \notin {<<>>, << <<>> >>}
NotOneValue(key) ==
  \E i \in DOMAIN Occurrences(key) : i > 1 \/ Len(Occurrences(key)[i]) # 1
NoValue(key) == \E i \in DOMAIN Occurrences(key) : Occurrences(key)[i] = <<>>

\* Which command lines end at the parser: a malformed one; `help` or `version`
\* twice or with a value; a list of plugins or scripts with nothing in it; any
\* other known option, the switches of base among them, twice or without a value
\* (a bare `--noerrdialogs` is an error); a number of threads that is none or
\* that int cannot hold; and, on Windows only, a switch that the long list of
\* registerBaseSwitches registers twice.
RefusedCommandLine ==
  \/ run.commandLine.malformed
  \/ \E key \in Flags : NotAFlag(key)
  \/ \E key \in MultiPath : NoValue(key)
  \/ \E key \in KeysOn(run.platform) \ (Flags \cup MultiPath) : NotOneValue(key)
  \/ \E i \in DOMAIN Numbers : Numbers[i] \notin MinInt..MaxInt
  \/ /\ run.platform = "windows"
     /\ "disable-usb-keyboard-detect" \in DOMAIN run.commandLine.others

\* Two of the six registering functions never claim the same option: every other
\* command line gets past the parser, and what only another platform registers
\* is passed on however it is typed.
RefusesExactly ==
  /\ pc \in ParseFailed => RefusedCommandLine
  /\ Running => ~RefusedCommandLine

\* base gets the number of threads in 1..100 that is nearest to the one typed,
\* and two only if none was.
NearestThreads ==
  threads # 0 =>
    /\ threads \in kMinThreadNum..kMaxThreadNum
    /\ IF Numbers = <<>>
       THEN threads = kDefaultThreadNum
       ELSE \A n \in kMinThreadNum..kMaxThreadNum :
              LET typed == Numbers[1]
              IN IF threads <= typed THEN n <= threads \/ n > typed
                                     ELSE n >= threads

\* Relative paths of one command line have two bases.  --outdir is relative to
\* where the process started; all others are to the directory that --outdir
\* named, or to the executable's without it, because they are read after base
\* went there.  Absolute paths and defaults depend on no directory.
TwoBases ==
  \A first, answer \in answers :
    first.env = "base" /\ answer.getter \in DOMAIN KeyOf =>
      LET typed == Values(KeyOf[answer.getter])
          base == first.places[1]
      IN IF typed = <<>>
         THEN \A i \in DOMAIN answer.places : answer.places[i].root = "exe"
         ELSE \A i \in DOMAIN typed :
                answer.places[i] =
                  IF typed[i].absolute
                  THEN [root |-> "absolute", names |-> typed[i].names]
                  ELSE [base EXCEPT !.names = @ \o typed[i].names]

\* The place base was given as output directory is the one every later caller is
\* given, in every run that gets past the sanity check of the plugin environment.
OneOutDir ==
  pc \in {"database", "clang", "cling", "commands", "done"} =>
    \A a, b \in answers : a.getter = "outDir" /\ b.getter = "outDir" => a.places = b.places

\* Keys of clang libtooling: the names in isAllowedClangArgument, and "" for
\* positional arguments.
ForLibtooling == {"extra-arg", "extra-arg-before", "p", "help-list", ""}

\* flextool's own names take nothing away from clang: each of its keys gets
\* through the parser unregistered, and `help`, which flextool registers too, is
\* put back by ScopedClangEnvironment exactly when it was typed.
ClangOptionsPassThrough ==
  /\ Running => Typed \cap ForLibtooling \subseteq unregistered
  /\ pc \in {"cling", "commands", "done"} => (forwardsHelp <=> "help" \in Typed)

-----------------------------------------------------------------------------
(* What a comment of the code says, and a run refutes.                     *)

\* command_line_constants.hpp:5, of kAutoStartTracer: "start tracing at
\* application start".
TracingStarts == tracing # "unknown" => (tracing = "on" <=> "start_tracing" \in Typed)

=============================================================================
