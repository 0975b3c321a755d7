# A formal model of flextool

flextool is a C++ source-to-source tool: it collects command-line options,
loads plugins, hands a list of arguments to clang libtooling and another to the
Cling interpreter, lets plugins react to annotations in the sources, and writes
a `.generated` file for each source. This directory holds TLA+ models of that
program, the TLC runs that check them, and theorems about them proved with
TLAPS. Paths below are those of the repository (`src/...`, `include/...`).

## 1. Inventory

| Component | State | Operations | Talks to |
|---|---|---|---|
| Option registry: `app_cmd_options`, `command_line_constants`, `cmd_environment` | the parsed options, the executable's directory | register, parse, `outDir()` and the other getters, `threadsNum()` | the boost parser of flexlib; every environment |
| Argument forwarding: `clang_util` (`populateClangArguments`), `clang_environment`, `cling_environment` | `args_storage`, `cling_extra_args`, `clingInterpreterArgs` | default arguments, the loop over unregistered options, the pipeline to Cling, the dash filter | registry, libtooling, Cling |
| Lifecycle: `main`, the five `Scoped*Environment` classes, `clang_tool` | which objects exist, the current directory, the exit status | five inits, two commands, the hand-over to libtooling, the destructors | all others |
| Plugins: `plugin_environment` | plugins loaded and connected | connect, `Init`, `Startup`, the `Register*` events, `StringCommand`, `Shutdown` | the entt dispatcher, basis' plugin manager |
| Generated files: `FileSaveHandler::saveFile`, `logSourcePathList` | the files on disk | list the sources, save one file per source | libtooling calls it back |
| Outside the repository: flexlib, basis, base, entt, clang, Cling | – | – | modelled from how `src/` uses them |
| Tests, packaging, CMake, the vue-cli sample | – | – | not modelled |

What is hard here is not concurrency: the program is single-threaded (the
thread pool of base is created and not used by this code). It is hard because

- two argument lists are built side by side, in a loop with many early exits,
  by string functions of which two are off by one;
- fatal checks (`CHECK` in every build, `DCHECK` and `NOTREACHED` in debug
  builds) are spread over four functions and act on user input;
- the order of inits, events, member declarations and destructors carries the
  safety of the program, any init may fail, and libtooling may call `exit()`;
- `outDir()` is evaluated again and again while the current directory, which it
  may depend on, changes;
- output is written in place: failures and kills leave torn files, sources of
  one name share one output, and later runs find what earlier ones left.

`PROJECT.json` lists these hazards line by line with the properties that cover
them, or the reason why none does.

## 2. Modules

| Module | Models |
|---|---|
| `CmdOptions` | flextool's own options: registration, parsing, the getters and who asks them when |
| `MCCmdOptions` | command lines for TLC |
| `CmdOptionsProofs` | theorems about `CmdOptions` |
| `ArgForwarding` | the way from unregistered options to clang's and Cling's arguments; the reference `ExpectedClangArgs`, a flatten-and-filter definition that the loops must agree with |
| `MCArgForwarding` | command lines for TLC |
| `ArgForwardingProofs`, `ArgForwardingAbortProofs` | theorems about `ArgForwarding`; the second is about its fatal checks |
| `FlattenFacts` | lemmas about `FlattenSeq`, the fold of the community modules in which the references are written |
| `ToolLifecycle` | one process from `main` to the last destructor or `exit()` |
| `PluginProtocol` | the abstract contract between flextool and its plugins |
| `MCToolLifecycle` | the symmetry of plugins |
| `ToolLifecycleProofs`, `PluginProtocolProofs` | theorems about `ToolLifecycle`; the second shows that it implements `PluginProtocol` |
| `GeneratedFiles` | listing and saving the sources, over several runs on one disk |
| `MCGeneratedFiles` | source lists and disks for TLC |
| `GeneratedFilesProofs` | theorems about `GeneratedFiles` |
| `FlextoolSystem` | `ToolLifecycle`, `ArgForwarding` and `GeneratedFiles` put together into one process |
| `FlextoolContract` | the abstract contract between the process and whoever starts it: exit code and files |
| `MCFlextoolSystem` | command lines and files for TLC |
| `FlextoolSystemProofs` | theorems about `FlextoolSystem` |

**CmdOptions.** `registerCommonOptions` to `registerBaseSwitches` are the six
functions of `AppCmdOptions::registerOptions`, composed in `RegisterOptions` in
the order of the code. `ParseArguments` is the parser. A command line has, for each option, the values of
each of its occurrences; each registration says how many values go with it (`takes`): `po::value<std::string>()`,
which all switches of base have, exactly one, `multitoken()` at least one, `help` and `version` none. The parser
refuses an option that is typed otherwise (`Fits`: a bare `--noerrdialogs`, `--outdir` twice), an ambiguous key, a
number that int cannot hold and a malformed line (an `=` with nothing behind it, or the beginning of several
registered names, such as `--p`), and puts what is not registered aside. From there each action is an environment's
init (`InitBase`, `InitPlugin`, `CheckDatabase`, `InitClang`, `InitCling`) and asks the
getters its source lines ask, in `cwd` as it is then; `answers` records
what each was told. Keys are kept as strings, because the order and number of their
registrations is what the properties are about; a path is a flag (absolute or not)
and a sequence of names.

**ArgForwarding.** Each loop iteration of `populateClangArguments` is an action:
`NextOption` (a key with a dash is skipped whole; used-up values give way),
`EmptyArgument`, `OverrunByDash`, `RefuseValue`, and `ForwardValue`, which includes
`pipelineClangArgToCling` because the code calls it in the same iteration.
`FinishClangArgs` is the rest of `ScopedClangEnvironment::init`;
`AddDefaultClingArgs`, `FilterClingArg` and `FinishClingArgs` are the argument half
of `ScopedClingEnvironment::init`. A text is a head (the prefix the code compares
with, such as `extra-arg`) and a tail, a sequence of characters: the code's
decisions depend on at most the first two characters of the tail, so two
characters, a dash and another one, are enough. `WithoutPrefix` drops one
character more than the prefix, as `base::size` of a string literal does. `isAllowedClangArgument` does
the same to a leading dash, which is one character too many for a lone `-` (`PrefixTooLong`). It never reads the piece that is
left, so that this ends the process (`OverrunByDash`) exactly if base's `remove_prefix` checks the count it is
given, which depends on the version of base: `prefixChecked` is TRUE or FALSE. At line 352
the piece is copied into a string, which ends the process either way.
`run` holds the inputs: the command line, `--help`, which texts name a file
(`existing`), whether the build path exists, and the build (with Cling, with debug checks, with a checked `remove_prefix`).

**ToolLifecycle.** `pc` walks through `main` and `initEnv`; every init has its
failing branch. `Return` stands for main's `return` (the destructors run), `End`
for a fatal check or `exit()` (they do not). `alive` holds the objects that exist,
`Members` the order of their declarations; `DestroyMember` takes them away one by
one from the last. `ShutdownPlugins` is the body of `~ScopedPluginEnvironment`.
`heard` and `given` record what each plugin was told and got pointers to.
`OutDir` is `AppCmdOptions::outDir()` against the current directory.

**PluginProtocol** knows only the plugins: those that load stay together, and the
interpreter comes before the annotation methods, those before the command, and
unloading ends it from anywhere; nothing comes twice. `ToolLifecycle!history` is the refinement mapping,
`FollowsProtocol` the property that the detailed module implements the contract.

**GeneratedFiles.** `ListSources` is `logSourcePathList`. For each source,
`RewriteSource` or `SkipSource`, then `RefuseToSave` (the early returns of
`saveFile`), `OpenFails`, or `OpenFile` followed by `WriteFile` or `WriteFails`.
A file is its directory, its name and the number of suffixes; a content is the
file it was first written as and how often it went through the rewriter. `torn`
holds the files of which only a part was written. `Kill` may stop the process
between any two steps, `RunAgain` starts another one, with any command line, on
what is left.

**FlextoolSystem** keeps the variables of its three parts and adds no state. `Proceed`
is any step of `ToolLifecycle` that needs neither arguments nor files. `InitClang` and
`InitCling` wait until `BuildClangArgs` and `BuildClingArgs` have taken
`ArgForwarding` through its loops, and end as these ended (`Outcome`).
In `ClangTool::run`, the sources are the arguments in `args_storage` without a dash;
`ParserExits` is the option parser of libtooling (it answers help,
refuses a second `-p` and an empty list of sources); otherwise `Generate` takes
`GeneratedFiles` through its steps and `FinishTool` turns its end into the process'. The
flag `help` and the build are the same in all parts; `existing` decides
which files are on disk. `FolderOf` and `NameOf` say which file a text names: `saveFile` keeps only the name, so
sources of one name in two directories have one output. The sources of the composition are hand-written files;
generated files as sources are in `GeneratedFiles`. The assumption `SameFile` says that
a file exists or not, whichever way it is typed. `CmdOptions` is not part of it: what it hands on
is one flag and the unregistered options, and `ClangOptionsPassThrough` says
that these arrive.

**FlextoolContract** knows the files that were asked for, those announced, the one that is open, and how
the process ends. `Open`, `Close` and `CloseBadly` are the three places where `saveFile` touches the disk or the
log; `Succeed`, `Fail` and `Stop` are main's two exit codes and everything else (`exit()`, a fatal check).
`FlextoolSystem!Contract` is the refinement mapping: the files asked for are computed from the
command line and the disk at the start (`ExpectedFiles`, none with `--version`), `saved` and `torn` are taken as
they are, and the process counts as stopped from the write or open that failed, because from there nothing
but `exit(1)` or `abort()` can follow.

`Mutant_X` operators stand before `X` in the modules. They are not part of
the model: each is a plausible bug in the code of `X`, and replacing `X` by it
must violate one property (`PROJECT.json`, "mutants").

## 3. Runs

| Run | Shows | Size |
|---|---|---|
| `arg_forwarding` | the seven properties of argument forwarding | 162 848 states |
| `arg_empty_extra_arg`, `arg_undashed_cling_arg`, `arg_no_extra_arg` | three assertions of the code that its behaviour refutes | one option |
| `tool_lifecycle` | the nine properties of the lifecycle, refinement included | 8 840 states |
| `tool_help_event` | a comment that the events sent refute | two plugins |
| `generated_files` | the four properties of the files on disk | 34 789 states |
| `files_unsaved`, `files_missing_source` | two debug checks that fail on errors the code handles | one run |
| `cmd_options` | the six properties of the option registry | 61 566 states |
| `options_tracing` | a documented option that nothing registers | as `cmd_options` |
| `flextool_system` | the seven properties of the whole process, two refinements included | 788 012 states |

The properties, in words:

- *ClangArgsComplete*: the list for clang is the tool's defaults, each acceptable
  argument once in command-line order, `-help` last; never anything else on the way.
- *ClingMirrorsClang*: Cling's extra arguments correspond to clang's, one for one
  and in order. *FlagsReachInterpreter*: a flag arrives as it was typed.
  *InterpreterArgsDashed*: nothing without a dash arrives.
- *AbortsExactlyOnFatal*: an explicit description of the command lines that the
  fatal checks end, and that they end nothing else.
- *TornDownInsideOut*, *CallbacksReachLiveObjects*: the dispatcher goes before the
  plugin manager, base goes last; pointers held during callbacks have targets.
- *DanglingOnlyWhereKnown*: which two pointers of the callback chain ever dangle, and
  that they do so after libtooling returned. *UnloadFindsNothing*: plugins are unloaded
  after all they were given pointers to.
- *PluginsUnloadedIffMainReturns*, *FailsBeforeAnyEvent*: what plugins see of
  runs that fail, exit or abort.
- *FollowsProtocol*: `ToolLifecycle` implements `PluginProtocol`.
- *GeneratedIntoCwd*: all evaluations of `outDir()` agree in runs that get that far.
- *NameTellsProvenance*, *SavedIsWhole*, *Reproducible*: hand-written files survive;
  "Saved file" is true while the tool works on; a run that completes leaves
  the same files whatever earlier, failed or killed, runs left.

- *RefusesExactly*: the command lines the parser refuses, described by what is typed and without the
  registry. *ClangOptionsPassThrough*: no key of flextool's takes one from clang.
- *TwoBases*, *OneOutDir*: what relative paths are relative to, and that all callers of
  `outDir()` agree past the sanity check. *NearestThreads*: the reference for the clamp.
- *EndToEnd*: a successful run has saved exactly one whole file for each file name among the typed sources
  that exist and have an extension; a run that main fails has left none.
  *ToolFailureExplained*: why libtooling exits with failure, seen from the command line: a `-p` typed
  by the user never works. *OnlyOptionNamesMissing*: behind
  `populateClangArguments` only the name of a clang option can be a missing source.
- *NoFileWithoutPlugins*: no file is touched before every loaded plugin had the
  interpreter and its turn to register annotation methods.
- *HandedOverWhole*: what libtooling is run with is the whole list that the command line asks for and nothing else, and an
  interpreter that exists was given each dashed extra argument, although the lists are begun in one environment and
  finished in another.
- *LifecycleKept*: the composed process implements `ToolLifecycle`, fairness included.
- *ContractKept*: it also implements `FlextoolContract`. Where `EndToEnd` looks at the end of a run, this looks at
  each step: files are opened one at a time and only those asked for, announced only when they were
  open, and nothing follows a failed write or a settled exit code.

**Bounds.** *MaxOptions = 2*: the loop body depends on one option and one value;
two options show the order of the lists, an option after an aborting or a refused
one, and one of the options has two values. *Plugins* has two members: all events go to
all connected plugins, so a second plugin shows those that would reach only
one. The runs of `ToolLifecycle` that check only invariants use symmetry of plugins;
`tool_lifecycle`, which has a temporal property, does not. *MaxRuns = 2*: `RunAgain` may follow any ending
with any command line, and a second run is what repairs or spoils the first one's
output. One or two sources out of four files in two directories give the same source
twice, two sources of one name, a generated file before and after its source, a
source without an extension and a missing one. The characters are a dash and one other.
In `MCCmdOptions`, -1000 and 1000 stand for the ends of int: the clamp
compares with 1 and 100 only, and the numbers typed lie on and beside these four. Command lines have up to two
kinds of path options, relative, absolute and repeated, because the first one can only move the base of the
second, or up to two of the keys that any function registers, reads or
leaves to clang; each kind of option is also typed without a value and twice, and flags with a
value. `flextool_system` has one plugin (`tool_lifecycle` has two),
command lines of up to two options, and three files that can be named, of which two have one name in two directories,
all on disk or only one of these two: enough
for a good source beside a missing, an extensionless, a repeated, a disguised or an equally named one, and for each
source with `-p` and with `--extra-arg`.

**Fairness.** `CmdOptions` and `GeneratedFiles` have no liveness property and assume none. The other specifications
assume `WF_vars(Step)` and no more: one thread
runs this code, and none of its steps waits for another party. It covers the
assumption that libtooling and plugins return or end the process. `Terminates` of `ArgForwarding` rests on
this, and so does the liveness half of `LifecycleKept`: while the arguments are
built or files saved `ToolLifecycle` stutters, and only because these loops end does it go on.

**Deadlock** is checked in all runs; a process that is over stutters in `Finished`.

## 4. Where the code disagrees with itself

The violation runs show seven such places; "findings" in `PROJECT.json` quotes each line.
In short: the off-by-one in `clangArgToClingArg` ends the process on `--extra-arg=x`,
against the CHECK at `clang_util.cc:374`;
two debug checks in `ScopedClingEnvironment::init` fail on ordinary command lines;
`--help` tells plugins `version`; two debug checks, in `saveFile` and
`logSourcePathList`, fail on errors that the next or the previous lines handle; and
`start_tracing`, which `main.cc` counts and `command_line_constants.hpp` describes, is
registered nowhere, so it cannot be switched on.

Smaller ones, seen while modelling and without a run of their own:

- `clang_util.cc:194` says "accept both `-extra-arg=` and `extra-arg=`"; a key with a dash is
  skipped before it gets there.
- `clang_util.cc:349` says "remove prefix"; one character of the value goes with it. Values
  that begin with a dash get it back, others lose it.
- `main.cc:254` says "allow plugins to process commands before pre-built logic"; the version was
  logged a statement before.
- `--indir` is registered and described as changing the current directory
  (`app_cmd_options.cc:188`); nothing reads it.
- `registerBaseSwitches` registers `disable-usb-keyboard-detect` twice on Windows, so typing it there is
  refused as ambiguous (`RefusedCommandLine`).
- `populateClangArguments` drops a source silently when it is not found from the output
  directory, which need not be where the user typed the path.
- `DCHECK(argc > 1)` ends a debug build that is started without arguments.
- `clang_util.cc:201` takes off the leading dash, and one character more, which a lone `-` does not have.
- `app_cmd_options.cc:211` says that the switches of base are registered because boost does not allow unknown options. Each
  is registered with a value; typed without one, as a switch, it is refused all the same (`RefusedCommandLine`).

`fileSaveHandler` is destroyed before the handler that holds an `Unretained` pointer to it
(`clang_environment.hpp:54`), but nothing calls the handler in between: the model shows the
order (`Members`, `PointsTo`), and it is not counted as a disagreement.

## 5. Proofs

The theorems hold for every value of the constants, where TLC tries one.
Their assumptions are those of the modules: the dash is a character, values of keyed
options have no head (the parser split them), an empty path does not exist
(`base::PathExists` of it is false), source lists and initial files
consist of files, a file exists or not whichever way it is typed, command lines are typed, the range of int is around 1..100, the bound on runs
is a number.

- `ArgForwardingProofs`. `TypeCorrect`: `TypeOK` is inductive; the lemmas type the
  helpers. `InterpreterDashed`: inductive by itself, because the filter appends only what has
  the dash. `ClingMirrors` is an existential statement, so the invariant carries the witness:
  an order-preserving map from Cling's list to clang's (`MirrorInv`), extended by
  `MirrorAppendClang` and `MirrorAppendBoth` when an argument is forwarded; nothing before `ready`
  touches the two lists otherwise. `FlagsReach` adds `FilterInv`: what the filter has passed of Cling's list is in the
  interpreter's, and combines both with `FlagRestored`, the arithmetic of the lost and restored dash.
  `ClangArgsAsSpecified` is the theorem about the reference. `ClangInv` says that what is in clang's list is what the
  reference makes of the options already left behind, up to the value at hand (`Built`); each action that ends an
  option or a value uses one fact of `FlattenFacts` about appending one more. The last section says what the finished list
  contains (`UserArgsAre`, `PlacesInTheEnd`), for the proofs about the whole process.
- `FlattenFacts`. What a fold computes is induction over data, and the library's induction theorems cannot be
  instantiated here. The induction is therefore done by hand, for one concrete set at a time: `LeastNatural` picks the least counterexample of
  a set of numbers, `NatInduced` follows. From there `FlattenSeq` of a longer sequence is that of the shorter one with the last
  element appended, and its elements are those of its parts, in their order.
- `ArgForwardingAbortProofs`. `AbortsAsSpecified` compares a run with a description
  of its command line alone. `Behind` are the offers (option and value) the two loops are past;
  `AbortInv` says that none of them was fatal, and that Cling's extra arguments are just those
  of them that pass and leave the pipeline, so the later checks, which look at that list, can be
  read off the command line. `DashedByKey` turns the filter's test of a dash into whether there was a key.
- `ToolLifecycleProofs`. `TypeCorrect`; `DestructionOrder` needs `DestructionInv`, that the
  objects alive are those at or below `slot` (plus the options the factory leaked):
  `TornDownInsideOut` alone is not inductive. `OutDirStable` needs that past the
  sanity check the current directory is what `outDir()` answers. `CleanFailure` needs
  which events a plugin may have heard at each `pc` (`EventInv`). `PluginsUnloaded` needs `ShutdownInv`: what
  is connected was loaded, and the way of every return leads past member 4, where `Shutdown` is
  called once. `CallbacksSafe` needs `PointerInv` (what each stage of init has built, and that only three objects are given to
  plugins); `UnloadedLast` combines it with the two before: when plugins are unloaded, `slot` is
  at 4, and the three objects are above. `PointersDangleLate` needs `ChainInv`: the chain's members go as a block from the top.
- `PluginProtocolProofs`. `ProtocolKept` is the refinement: under `StageInv` (what is loaded is
  connected at once, and all of it has heard the same last event) the mapping `history` is one of three
  sequences per plugin (`HistoryKnown`), and `TellAdvances` turns a trigger of the dispatcher into
  `Advance` of the protocol.
- `GeneratedFilesProofs`. `TypeCorrect` needs `AtHand`: between reading and saving, the source
  exists and the opened file too. `ProvenanceKept` is inductive relative to it.
  `SavedWhole` needs that while a file is written, it is the only one that may be both torn and
  announced. `RunsReproducible` needs `ThroughInv`, which says of the sources up to the one at hand what
  the property says of all; without feedback no step changes a source, and `RunAgain` starts with none.
- `CmdOptionsProofs`. `Registers` says of a list of registrations which keys it has, each how often and with which `takes`; `WholeRegistry`
  puts that together for the list that the six functions build on each platform, from `ConcatRegisters`. `RegistryInv` (it is that list
  from `parse` on) and `RefusalExact`, which compares `Fits` of each registration with what was typed, give
  `ParserRefuses`, and `RegistryInv` gives `PassedThrough`. `SingleValue` is what the parser's refusals buy: a
  single-valued option that was let through has one value, which the getters may take. `PlaceInv`
  relates `cwd`, the answer base got and all later answers, which gives `PathsRelativeTo` and `OutDirAgreed`.
  `ClampNearest` is the arithmetic of `ThreadsNearest`.
- `FlextoolSystemProofs`. `LifecycleRefined` and the lemma `ForwardingStep` show that each step of the process is
  one of the part's or leaves its variables alone, which is what the invariants of the parts need to hold here. `FilesNeedPlugins` then uses the invariants proved of
  `ToolLifecycle`: their module is instantiated, `SameStep` shows that a step of `Tool` is one of that
  instance, and `AtTheTool` says what holds when libtooling runs. `ArgForwardingProofs` is brought over in the same way
  (`SameArgsNext`, `ForwardingInv`).

  The theorems from the command line to the disk rest on `SystemInv`, the invariants of the parts together with three that relate
  them. `LinkInv` relates the stages: where libtooling may be reached only with finished arguments and in the starting
  output directory, and which of the three ways a process can end belongs to which end of the parts. `InterpreterLink` says that an interpreter exists only when the loop over its
  arguments is through. `WorkInv` says
  what the work on files has achieved: the sources found are those that existed at the start, although files
  are created meanwhile (`MadeIsNoSource`) and several texts may name one file (`SourceExists`, where `SameFile` is used), `saved` is one file for each usable source done with, and only the file being
  written is torn. `SourcesAre` computes libtooling's sources from the typed texts, and `BuildPathTwice` shows that `-p` is in the list twice
  exactly if one was typed. Each theorem then is a step from `SystemInv`: `ArgumentsHandedOver` (with the reference that
  `ClangArgsAsSpecified` compares with), `MissingSourcesExplained`, `ToolFailuresExplained` and
  `EndsWithExpectedFiles`.

  `ContractRefined` is the refinement of `FlextoolContract`. `ContractIs` writes out the mapped actions; a step on files is
  mapped one by one (`GenerateStep`, where `WorkInv` says that the file at hand is the only torn one, and `UsableAsked` that it was
  asked for); every other step leaves the files alone and either is a stutter or settles the exit code, once
  (`StatusSettled`), in a way that `EndToEnd` allows (`EndStep`).

Every invariant and every safety refinement that a run checks is stated by a theorem. Only
model-checked are `Terminates` of `ArgForwarding` (fairness and ENABLED are out of the prover's reach) and the fairness in
`LifecycleKept`; `LifecycleRefined` proves the rest of that property. That every other loop ends is
not stated: they are `for` loops, libtooling's loop over sources and destructors the compiler writes.

## 6. What is left out, and why

- The wording of log lines, and `VLOG` output.
- `base::ThreadRestrictions::SetIOAllowed(true)` at the end of main: IO is allowed from the start.
- The check for `compile_commands.json` in `initEnv` only logs; `CmdOptions` keeps its call of `outDir()`.
- The console output of `saveFile`: `clang_environment.cc:135` switches it off.
- What plugins do when called, and rewriting itself: outside the repository. A plugin is a
  listener with a history.
- The heads `help...` and `version...` of positional arguments: they take the same branch as the built-in heads that are there.
- Of the option parser: how words become options and values, which is boost's. A command line is what comes out, with the
  words an option with many values swallows among its values; the beginning of exactly one registered name
  stands for that option, of several for a malformed line.
- What the switches of base do once registered, and the tracing categories, which base gets as they are.
- Sources that are directories: `populateClangArguments` lets any existing path through, and libtooling fails to read it.
- Generated files as sources, kills and reruns inside `FlextoolSystem`; `GeneratedFiles` has them, and no other part keeps anything on disk.
- The repository's tests start gtest and sample gmock and ICU; packaging, CMake and the vue-cli sample have no state at run time.

## 7. Plan

1. *Done:* `ArgForwarding`, `ToolLifecycle` with `PluginProtocol`, `GeneratedFiles`.
2. *Done:* `CmdOptions`, with `NearestThreads` as the reference of the clamp and the options that are read and
   never registered.
3. *Done:* `FlextoolSystem`, which composes the three, with properties that cross the parts.
4. *Done:* the refinement of `PluginProtocol`, and theorems for all safety properties of the single modules.
5. *Done:* theorems for all safety properties of `FlextoolSystem`, with the invariants of `ToolLifecycle` and
   `ArgForwarding` brought over; `FlextoolContract`, and the proof that the process implements it; that complete argument lists are handed over (`ArgumentsHandedOver`).
6. Abstract specification of forwarding (two lists extended by a filter of the command line at once), and
   `ArgForwarding` shown to implement it.
