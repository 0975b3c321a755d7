--------------------------- MODULE FlextoolSystem ---------------------------
(***************************************************************************)
(* One flextool process put together: ToolLifecycle says who acts, and     *)
(* where it leaves open how a step ends, ArgForwarding and GeneratedFiles  *)
(* decide.  The arguments are built while the clang and Cling environments *)
(* are initialised; libtooling gets exactly args_storage, rejects it or    *)
(* answers `-help`, or saves a file for each source named in it.           *)
(*                                                                         *)
(* libtooling is external: an option parser that lets -p occur once and    *)
(* wants at least one source, and that answers help before it complains.   *)
(*                                                                         *)
(* Operators named Mutant_X are plausible bugs in X, not part of the       *)
(* model: with X replaced by Mutant_X a property of the runs must fail.    *)
(***************************************************************************)
EXTENDS Naturals, Sequences, SequencesExt

CONSTANTS
  Plugins, Char,
  CommandLines,  \* the unregistered options, as in ArgForwarding
  PathSets,      \* the sets of texts that may name a file when the tool is run
  FolderOf(_, _),  \* the directory of the file that a text names, from another one
  NameOf(_),       \* the name of that file in it
  NoExtension      \* the names without a dot

VARIABLES
  run, pc, cwd, alive, managerConnected, loaded, connected, heard, given, saveDir,
  printed, factoryLeaked, slot, status,                           \* ToolLifecycle
  argRun, argPc, opt, val, args_storage, cling_extra_args, fwd,
  clingInterpreterArgs, cause,                                    \* ArgForwarding
  genPc, source, disk, torn, saved, runs                          \* GeneratedFiles

Tool == INSTANCE ToolLifecycle WITH Plugins <- Plugins

Args == INSTANCE ArgForwarding WITH
          Char <- Char, CommandLines <- CommandLines, PathSets <- PathSets,
          run <- argRun, pc <- argPc

\* What ArgForwarding assumes of its constants.
ASSUME DashIsChar == Args!Dash \in Char
ASSUME CommandLinesTyped ==
  \A line \in CommandLines :
    /\ line \in Seq(Args!Option)
    /\ \A i \in DOMAIN line :
         line[i].key # Args!NoKey =>
           \A j \in DOMAIN line[i].values : line[i].values[j].head = Args!NoKey

\* base::PathExists of the empty path is false.
ASSUME NoEmptyPath == \A existing \in PathSets : \A text \in existing : ~Args!IsEmpty(text)

\* The file that a text names, seen from a directory: all of them are hand-written.
Located(text, dir) == [dir |-> FolderOf(text, dir), name |-> NameOf(text), generated |-> 0]

\* A file exists or not, whichever way it is typed.
ASSUME SameFile ==
  \A line \in CommandLines, existing \in PathSets, dir \in Tool!Dirs :
    \A i \in DOMAIN line : \A j \in DOMAIN line[i].values : \A text \in existing :
      Located(line[i].values[j], dir) = Located(text, dir) => line[i].values[j] \in existing

\* A file of the process, for which relative paths start in the current directory.
FileNamed(text) == Located(text, cwd)

\* What libtooling takes for a source: an argument without a dash, even if it
\* reads like one of the options.
IsSource(arg) == arg.from = "user" /\ ~arg.dash

Sources ==
  FlattenSeq([i \in DOMAIN args_storage |->
                IF IsSource(args_storage[i]) THEN <<FileNamed(args_storage[i].text)>> ELSE <<>>])

\* One run; which files there are follows from argRun.existing.
Files == INSTANCE GeneratedFiles WITH
           Dir <- Tool!Dirs \cup {FolderOf(text, dir) : text \in UNION PathSets, dir \in Tool!Dirs},
           Name <- {NameOf(text) : text \in UNION PathSets}, NoExtension <- NoExtension,
           SourceLists <- {}, InitialFiles <- {}, MaxRuns <- 1,
           run <- [sources |-> Sources, outDir |-> saveDir, dcheck |-> run.dcheck],
           pc <- genPc

toolVars == <<run, pc, cwd, alive, managerConnected, loaded, connected, heard, given,
              saveDir, printed, factoryLeaked, slot, status>>
argVars == <<argRun, argPc, opt, val, args_storage, cling_extra_args, fwd,
             clingInterpreterArgs, cause>>
genVars == <<genPc, source, disk, torn, saved, runs>>
vars == <<toolVars, argVars, genVars>>

\* Where ScopedBaseEnvironment will go, if it can.
StartingOutDir == Tool!OutDir(run.outdir, "start")

Init ==
  /\ Tool!Init
  /\ argRun \in [commandLine: CommandLines, existing: PathSets, help: {run.help},
                 buildPathExists: {TRUE}, cling: {run.cling}, dcheck: {run.dcheck},
                 prefixChecked: BOOLEAN]
  /\ Args!Init
  /\ genPc = "list"
  /\ source = 1
  /\ disk = [file \in {Located(text, StartingOutDir) : text \in argRun.existing} |->
               Files!HandWritten(file)]
  /\ torn = {} /\ saved = {}
  /\ runs = 1

-----------------------------------------------------------------------------
\* The steps that need neither arguments nor files.
Proceed ==
  /\ pc \notin {"init_clang", "init_cling", "tool"}
  /\ Tool!Step
  /\ UNCHANGED <<argVars, genVars>>

\* populateClangArguments, one iteration.
BuildClangArgs ==
  /\ pc = "init_clang"
  /\ argPc \in {"clang_defaults", "forward"}
  /\ Args!Step
  /\ UNCHANGED <<toolVars, genVars>>

\* How the building of the arguments ended is how the init ends.
Outcome ==
  CASE argPc = "failed" -> "main_failure"
    [] argPc = "aborted" -> "aborted"
    [] OTHER -> "running"

\* The build path is put behind what populateClangArguments has built.
Mutant_InitClang ==
  /\ pc = "init_clang"
  /\ argPc \notin {"clang_defaults", "forward"}
  /\ Tool!InitClang
  /\ status' = Outcome
  /\ args_storage' = Append(args_storage, Args!BuildPath)
  /\ UNCHANGED <<argRun, argPc, opt, val, cling_extra_args, fwd, clingInterpreterArgs,
                 cause, genVars>>

InitClang ==
  /\ pc = "init_clang"
  /\ argPc \notin {"clang_defaults", "forward"}
  /\ Tool!InitClang
  /\ status' = Outcome
  /\ UNCHANGED <<argVars, genVars>>

\* The argument half of ScopedClingEnvironment::init, one iteration.
BuildClingArgs ==
  /\ pc = "init_cling"
  /\ argPc \in {"cling_defaults", "cling_filter"}
  /\ Args!Step
  /\ UNCHANGED <<toolVars, genVars>>

InitCling ==
  /\ pc = "init_cling"
  /\ argPc \in Args!Final
  /\ Tool!InitCling
  /\ status' = Outcome
  /\ UNCHANGED <<argVars, genVars>>

-----------------------------------------------------------------------------
(* ClangTool::run                                                          *)

Forwarded(heads) ==
  {i \in DOMAIN args_storage : args_storage[i].dash /\ args_storage[i].text.head \in heads}

AnswersHelp == Forwarded({"help", "help-list"}) # {}

\* The last of several -p wins.
Mutant_Rejected == Sources = <<>>

\* -p twice, or no source.
Rejected ==
  \/ \E i, j \in Forwarded({"p"}) : i # j
  \/ Sources = <<>>

\* main returns EXIT_FAILURE instead.
Mutant_ParserExits ==
  /\ pc = "tool" /\ genPc = "list"
  /\ AnswersHelp \/ Rejected
  /\ pc' = "teardown"
  /\ status' = "main_failure"
  /\ UNCHANGED <<run, cwd, alive, managerConnected, loaded, connected, heard, given, saveDir,
                 printed, factoryLeaked, slot, argVars, genVars>>

\* CommonOptionsParser calls exit(), with success or failure.
ParserExits ==
  /\ pc = "tool" /\ genPc = "list"
  /\ AnswersHelp \/ Rejected
  /\ Tool!RunTool
  /\ status' = IF AnswersHelp THEN "tool_success" ELSE "tool_failure"
  /\ UNCHANGED <<argVars, genVars>>

\* The sources are listed, rewritten and saved.
Generate ==
  /\ pc = "tool"
  /\ ~AnswersHelp /\ ~Rejected
  /\ UNCHANGED <<toolVars, argVars>>
  /\ Files!Step

\* Whatever became of the sources, a run of libtooling that returns is a success;
\* a stream that cannot be written ends in exit(1), a debug check in abort().
FinishTool ==
  /\ pc = "tool"
  /\ genPc \in Files!Final
  /\ Tool!RunTool
  /\ status' = CASE genPc = "done" -> "main_success"
                 [] genPc = "failed" -> "tool_failure"
                 [] OTHER -> "aborted"
  /\ UNCHANGED <<argVars, genVars>>

Step ==
  \/ Proceed
  \/ BuildClangArgs
  \/ InitClang
  \/ BuildClingArgs
  \/ InitCling
  \/ ParserExits
  \/ Generate
  \/ FinishTool

Finished == pc = "exited" /\ UNCHANGED vars

Next == Step \/ Finished

\* One thread does all of it.
Spec == Init /\ [][Next]_vars /\ WF_vars(Step)

-----------------------------------------------------------------------------
(* Properties.                                                             *)

\* The texts typed without a key.
Positional ==
  UNION {{option.values[j] : j \in DOMAIN option.values} :
           option \in {argRun.commandLine[i] : i \in {i \in DOMAIN argRun.commandLine :
                                                   argRun.commandLine[i].key = Args!NoKey}}}

\* Those that name a file, and by that file's name a file to generate.
NamesFile(text) == text \in argRun.existing /\ ~Args!StartsWithDash(text)
Expected == {text \in Positional : NamesFile(text) /\ NameOf(text) \notin NoExtension}
ExpectedFiles ==
  {[dir |-> StartingOutDir, name |-> NameOf(text), generated |-> 1] : text \in Expected}

\* From the command line to the disk, through all three parts: a run that main
\* ends with success, and that was not about --version, has saved, whole and in
\* the output directory, exactly one file for each file name among the sources that
\* were typed, exist and have an extension, wherever they are: sources of one name
\* share one file.  Runs that main ends in another way have left no file.
EndToEnd ==
  /\ status = "main_success" /\ ~run.version => saved = ExpectedFiles
  /\ status \in {"main_success", "main_failure"} => torn = {}
  /\ status = "main_failure" \/ run.version => saved = {}

Heard(p, event) == \E i \in DOMAIN heard[p] : heard[p][i] = event

\* No file is touched before every loaded plugin has had the interpreter, where
\* there is one, and its turn to register annotation methods, and none while a
\* plugin is unloaded or libtooling has lost its callbacks: a file made without a
\* plugin's methods would look just like a good one.
NoFileWithoutPlugins ==
  genPc # "list" /\ pc = "tool" =>
    /\ \A p \in loaded : Heard(p, "RegisterAnnotationMethods")
    /\ run.cling => \A p \in loaded : Heard(p, "RegisterClingInterpreter")
    /\ loaded = connected
    /\ Tool!Reachable \subseteq alive

\* The user has typed -p with a value.
TypedBuildPath ==
  \E i \in DOMAIN argRun.commandLine :
    argRun.commandLine[i].key = "p" /\ argRun.commandLine[i].values # <<>>

\* Why libtooling ends the process with exit(1), seen from the command line: -p,
\* which populateClangArguments accepts although it has put one in front (so it
\* can never be used), no positional argument that was let through, or a file
\* that could not be written.  The first two end every run that gets so far.
ToolFailureExplained ==
  /\ status = "tool_failure" =>
       \/ TypedBuildPath
       \/ ~\E text \in Positional : NamesFile(text) \/ text.head \in Args!BuiltIn
       \/ genPc = "failed"
  /\ TypedBuildPath => saved = {} /\ torn = {}

\* logSourcePathList fails a debug check for a source that is not there.  Behind
\* populateClangArguments, which lets only existing paths through, such a source
\* is always the name of a clang option typed without its dashes.
OnlyOptionNamesMissing ==
  genPc = "missing_source" =>
    \E text \in Positional : text.head \in Args!BuiltIn /\ text \notin argRun.existing

\* The lists are built in two environments, with early exits and other steps in
\* between.  What libtooling is run with is all of what the command line asks for
\* and nothing else, and an interpreter exists only if it was given, with clang's
\* list complete by then, each extra argument that has a dash.
HandedOverWhole ==
  /\ pc = "tool" => args_storage = Args!ExpectedClangArgs
  /\ "clingInterpreter" \in alive =>
       /\ args_storage = Args!ExpectedClangArgs
       /\ \A k \in DOMAIN cling_extra_args :
            Args!HasClingPrefix(cling_extra_args[k]) =>
              \E j \in DOMAIN clingInterpreterArgs :
                clingInterpreterArgs[j] = [from |-> "user", text |-> cling_extra_args[k]]

\* With the arguments and the files filled in, the process still is a lifecycle of
\* ToolLifecycle, so whatever is checked or proved there holds here.
LifecycleKept == Tool!Spec

\* How the process looks from outside: a file that cannot be opened or written is
\* its end, although main's destructors and exit() are still to come.
Contract == INSTANCE FlextoolContract WITH
              expected <- IF run.version THEN {} ELSE ExpectedFiles,
              outcome <- IF genPc \in {"failed", "missing_source", "not_absolute"} THEN "stopped"
                         ELSE IF status = "running" THEN "running"
                         ELSE IF status = "main_success" THEN "success"
                         ELSE IF status = "main_failure" THEN "failure" ELSE "stopped",
              files <- saved,
              broken <- torn

\* All of it together, seen through its exit code and the files alone, is what
\* whoever runs it may rely on, at every moment and not only at the end: no file
\* that was not asked for is touched, at most one is ever incomplete, none is
\* announced that was not open, and nothing happens after a file could not be
\* written or an exit code was settled.
ContractKept == Contract!Spec

=============================================================================
