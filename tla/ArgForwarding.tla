--------------------------- MODULE ArgForwarding ---------------------------
(***************************************************************************)
(* The arguments flextool hands to clang libtooling and to the Cling       *)
(* interpreter, built from the options its own parser did not register:    *)
(* clang_util::populateClangArguments, the `-help` that                    *)
(* ScopedClangEnvironment::init adds, and the argument half of             *)
(* ScopedClingEnvironment::init.  One action per loop iteration; the       *)
(* fatal checks (CHECK always, DCHECK and NOTREACHED in debug builds) end  *)
(* the run.                                                                *)
(*                                                                         *)
(* A text is [head, tail]: the string head ++ "=" ++ tail, or tail alone   *)
(* when head is NoKey.  Heads keep the prefixes the code compares with;    *)
(* tails keep their characters because two of the code's decisions depend  *)
(* on the first two of them.                                               *)
(*                                                                         *)
(* Operators named Mutant_X are plausible bugs in X, not part of the       *)
(* model: with X replaced by Mutant_X a property of the runs must fail.    *)
(***************************************************************************)
EXTENDS Naturals, Sequences, SequencesExt

CONSTANTS
  Char,          \* the characters of a tail
  CommandLines,  \* what BoostCmdParser::unregisteredOptions() may return
  PathSets       \* the sets of texts that may name a file or directory on disk

Dash == "-"                    \* kClangArgPrefix, kClingArgPrefix, kInvalidParsedArgPrefix
NoKey == ""                    \* a positional argument has no key
ExtraArg == "extra-arg"
DashedExtraArg == "-extra-arg" \* stands for every key or text spelled with a leading dash
BuiltIn == {ExtraArg, "extra-arg-before", "p", "help", "help-list"}
Heads == BuiltIn \cup {NoKey, DashedExtraArg, "other"}

Text == [head: Heads, tail: Seq(Char)]
Option == [key: Heads, values: Seq(Text)]
ClangArg == [from: {"tool", "user"}, dash: BOOLEAN, text: Text]
ClingArg == [from: {"tool", "user"}, text: Seq(Char)]

ASSUME DashIsChar == Dash \in Char

\* The parser splits key and value, so the value of a keyed option has no head.
ASSUME CommandLinesTyped ==
  \A line \in CommandLines :
    /\ line \in Seq(Option)
    /\ \A i \in DOMAIN line :
         line[i].key # NoKey =>
           \A j \in DOMAIN line[i].values : line[i].values[j].head = NoKey

Run == [commandLine: CommandLines,   \* the unregistered options, in order
        help: BOOLEAN,               \* --help was given
        existing: PathSets,          \* base::PathExists(text)
        buildPathExists: BOOLEAN,    \* base::PathExists(outDir)
        cling: BOOLEAN,              \* built with CLING_IS_ON
        prefixChecked: BOOLEAN,      \* base's remove_prefix checks the count it is given
        dcheck: BOOLEAN]             \* built with DCHECK and NOTREACHED enabled

VARIABLES
  run,                   \* the inputs of the process: never change
  pc,
  opt, val,              \* indices of the two loops of populateClangArguments
  args_storage,          \* ScopedClangEnvironment::args_storage
  cling_extra_args,      \* ScopedClangEnvironment::cling_extra_args
  fwd,                   \* index of the loop of ScopedClingEnvironment::init
  clingInterpreterArgs,  \* ScopedClingEnvironment::clingInterpreterArgs
  cause                  \* the fatal check that ended the process

vars == <<run, pc, opt, val, args_storage, cling_extra_args, fwd,
          clingInterpreterArgs, cause>>

Causes == {"exe_path_unknown", "empty_argument", "prefix_overrun",
           "empty_extra_arg", "no_extra_arg", "undashed_cling_arg"}
Final == {"ready", "failed", "aborted"}

-----------------------------------------------------------------------------
(* The string tests of clang_util.cc.                                      *)

StartsWithDash(text) ==
  \/ text.head = DashedExtraArg
  \/ text.head = NoKey /\ text.tail # <<>> /\ Head(text.tail) = Dash

\* KVToSting: key and value joined by "=", or the value alone when there is no key.
Combined(key, value) ==
  IF key = NoKey THEN value ELSE [head |-> key, tail |-> value.tail]

IsEmpty(text) == text.head = NoKey /\ text.tail = <<>>

\* The result of base::PathExists is not looked at.
Mutant_isAllowedClangArgument(text) == text.head # "other"

isAllowedClangArgument(text) == text.head \in BuiltIn \/ text \in run.existing

\* Before its tests isAllowedClangArgument removes base::size("-") characters,
\* two with the final NUL, from a text that starts with a dash: one too many
\* for "-" alone.  Nothing reads the piece afterwards, so this is fatal exactly
\* if remove_prefix checks.
PrefixTooLong(text) ==
  run.prefixChecked /\ text.head = NoKey /\ text.tail = <<Dash>>

\* What is pushed to args_storage: the key says whether a dash is put back.
ForClang(key, text) == [from |-> "user", dash |-> key # NoKey, text |-> text]

\* The "=" forgotten in the comparison lets extra-arg-before through.
Mutant_HasExtraArgPrefix(text) == text.head \in {ExtraArg, "extra-arg-before"}

\* clangArgToClingArg: the text has the prefix "extra-arg=".
HasExtraArgPrefix(text) == text.head = ExtraArg

\* The prefix removed exactly, which looks like the obvious repair.
Mutant_WithoutPrefix(text) == text.tail

\* It removes base::size("extra-arg=") characters, which counts the final NUL,
\* so one character of the value goes with the prefix.
WithoutPrefix(text) == Tail(text.tail)

Mutant_NothingLeft(text) == HasExtraArgPrefix(text) /\ Len(text.tail) < 1

\* Nothing, or less than nothing, is left of the text.
NothingLeft(text) == HasExtraArgPrefix(text) /\ Len(text.tail) < 2

\* The texts that leave the pipeline as Cling arguments.
Pipelined(text) ==
  /\ HasExtraArgPrefix(text)
  /\ Len(text.tail) >= 2
  /\ text.tail[2] # Dash

ForCling(key, text) ==
  (IF key = NoKey THEN <<>> ELSE <<Dash>>) \o WithoutPrefix(text)

-----------------------------------------------------------------------------
AppName == [from |-> "tool", dash |-> FALSE, text |-> [head |-> NoKey, tail |-> <<>>]]
BuildPath == [from |-> "tool", dash |-> TRUE, text |-> [head |-> "p", tail |-> <<>>]]
\* One entry for the warning, definition, include and standard flags.
DefaultFlags == [from |-> "tool", dash |-> TRUE, text |-> [head |-> ExtraArg, tail |-> <<>>]]
HelpFlag == [from |-> "tool", dash |-> TRUE, text |-> [head |-> "help", tail |-> <<>>]]

DefaultClangArgs(buildPathExists) ==
  IF buildPathExists THEN <<AppName, BuildPath, DefaultFlags>> ELSE <<AppName, DefaultFlags>>

\* "cling_app", then the flags, all of which begin with a dash.
DefaultClingArgs ==
  <<[from |-> "tool", text |-> <<>>], [from |-> "tool", text |-> <<Dash>>]>>

\* Loops count from 1 here; from 0 they would read before the first element.
Mutant_First == 0
First == 1

Init ==
  /\ run \in Run
  /\ pc = "clang_defaults"
  /\ opt = First /\ val = First /\ fwd = First
  /\ args_storage = <<>>
  /\ cling_extra_args = <<>>
  /\ clingInterpreterArgs = <<>>
  /\ cause = "none"

Abort(why) == pc' = "aborted" /\ cause' = why

\* add_default_clang_args when PathService knows the executable.
AddDefaultClangArgs ==
  /\ pc = "clang_defaults"
  /\ args_storage' = DefaultClangArgs(run.buildPathExists)
  /\ pc' = "forward"
  /\ UNCHANGED <<run, opt, val, cling_extra_args, fwd, clingInterpreterArgs, cause>>

\* PathService::Get fails: NOTREACHED, then `return false` up to EXIT_FAILURE.
ExePathUnknown ==
  /\ pc \in {"clang_defaults", "cling_defaults"}
  /\ IF run.dcheck
     THEN Abort("exe_path_unknown")
     ELSE pc' = "failed" /\ UNCHANGED cause
  /\ UNCHANGED <<run, opt, val, args_storage, cling_extra_args, fwd, clingInterpreterArgs>>

InOptions == pc = "forward" /\ opt <= Len(run.commandLine)
Key == run.commandLine[opt].key
Values == run.commandLine[opt].values

\* The last value of an option is dropped.
Mutant_ValuesUsedUp == val >= Len(Values)
ValuesUsedUp == val > Len(Values)

InValues == InOptions /\ Key # DashedExtraArg /\ ~ValuesUsedUp
Current == Combined(Key, Values[val])

\* A key that starts with a dash is skipped with all its values; an option
\* whose values are used up, or that never had one, gives way to the next.
NextOption ==
  /\ InOptions
  /\ Key = DashedExtraArg \/ ValuesUsedUp
  /\ opt' = opt + 1
  /\ val' = First
  /\ UNCHANGED <<run, pc, args_storage, cling_extra_args, fwd, clingInterpreterArgs, cause>>

EmptyArgument ==
  /\ InValues
  /\ IsEmpty(Current)
  /\ IF run.dcheck
     THEN Abort("empty_argument") /\ UNCHANGED val
     ELSE val' = val + 1 /\ UNCHANGED <<pc, cause>>
  /\ UNCHANGED <<run, opt, args_storage, cling_extra_args, fwd, clingInterpreterArgs>>

\* isAllowedClangArgument ends the process before it has an answer.
OverrunByDash ==
  /\ InValues
  /\ PrefixTooLong(Current)
  /\ Abort("prefix_overrun")
  /\ UNCHANGED <<run, opt, val, args_storage, cling_extra_args, fwd, clingInterpreterArgs>>

\* A `continue` that jumps over the increment.
Mutant_RefuseValue ==
  /\ InValues
  /\ ~IsEmpty(Current) /\ ~PrefixTooLong(Current)
  /\ ~isAllowedClangArgument(Current) \/ StartsWithDash(Current)
  /\ UNCHANGED vars

RefuseValue ==
  /\ InValues
  /\ ~IsEmpty(Current) /\ ~PrefixTooLong(Current)
  /\ ~isAllowedClangArgument(Current) \/ StartsWithDash(Current)
  /\ val' = val + 1
  /\ UNCHANGED <<run, pc, opt, args_storage, cling_extra_args, fwd,
                 clingInterpreterArgs, cause>>

\* pipelineClangArgToCling, after the same text went to clang: nothing to do
\* without Cling or without the prefix; fatal when the prefix is longer than
\* the text, or when exactly the prefix and one character are there (CHECK).
PipelineToCling(key, text) ==
  IF run.cling /\ NothingLeft(text)
  THEN /\ Abort(IF text.tail = <<>> THEN "prefix_overrun" ELSE "empty_extra_arg")
       /\ UNCHANGED <<val, cling_extra_args>>
  ELSE /\ val' = val + 1
       /\ cling_extra_args' =
            IF run.cling /\ Pipelined(text)
            THEN Append(cling_extra_args, ForCling(key, text))
            ELSE cling_extra_args
       /\ UNCHANGED <<pc, cause>>

ForwardValue ==
  /\ InValues
  /\ ~IsEmpty(Current)
  /\ isAllowedClangArgument(Current) /\ ~StartsWithDash(Current)
  /\ args_storage' = Append(args_storage, ForClang(Key, Current))
  /\ PipelineToCling(Key, Current)
  /\ UNCHANGED <<run, opt, fwd, clingInterpreterArgs>>

\* The rest of ScopedClangEnvironment::init: `-help` goes last.
FinishClangArgs ==
  /\ pc = "forward"
  /\ opt > Len(run.commandLine)
  /\ args_storage' = IF run.help THEN Append(args_storage, HelpFlag) ELSE args_storage
  /\ pc' = IF run.cling THEN "cling_defaults" ELSE "ready"
  /\ UNCHANGED <<run, opt, val, cling_extra_args, fwd, clingInterpreterArgs, cause>>

\* add_default_cling_args, then DCHECK(!cling_extra_args.empty()).
AddDefaultClingArgs ==
  /\ pc = "cling_defaults"
  /\ clingInterpreterArgs' = DefaultClingArgs
  /\ IF run.dcheck /\ cling_extra_args = <<>>
     THEN Abort("no_extra_arg")
     ELSE pc' = "cling_filter" /\ UNCHANGED cause
  /\ UNCHANGED <<run, opt, val, args_storage, cling_extra_args, fwd>>

\* Only empty arguments are filtered out.
Mutant_HasClingPrefix(arg) == arg # <<>>
HasClingPrefix(arg) == arg # <<>> /\ Head(arg) = Dash

\* One iteration of the loop that keeps the arguments that start with a dash.
FilterClingArg ==
  /\ pc = "cling_filter"
  /\ fwd <= Len(cling_extra_args)
  /\ LET arg == cling_extra_args[fwd]
         dashed == HasClingPrefix(arg)
     IN /\ clingInterpreterArgs' =
             IF dashed
             THEN Append(clingInterpreterArgs, [from |-> "user", text |-> arg])
             ELSE clingInterpreterArgs
        /\ IF ~dashed /\ run.dcheck
           THEN Abort("undashed_cling_arg") /\ UNCHANGED fwd
           ELSE fwd' = fwd + 1 /\ UNCHANGED <<pc, cause>>
  /\ UNCHANGED <<run, opt, val, args_storage, cling_extra_args>>

\* The interpreter is created from the finished list.
FinishClingArgs ==
  /\ pc = "cling_filter"
  /\ fwd > Len(cling_extra_args)
  /\ pc' = "ready"
  /\ UNCHANGED <<run, opt, val, args_storage, cling_extra_args, fwd,
                 clingInterpreterArgs, cause>>

Step ==
  \/ AddDefaultClangArgs
  \/ ExePathUnknown
  \/ NextOption
  \/ EmptyArgument
  \/ OverrunByDash
  \/ RefuseValue
  \/ ForwardValue
  \/ FinishClangArgs
  \/ AddDefaultClingArgs
  \/ FilterClingArg
  \/ FinishClingArgs

\* Nothing else happens to the lists once they are ready or the run has ended.
Finished == pc \in Final /\ UNCHANGED vars

Next == Step \/ Finished

\* A single thread runs this code, and no step waits for anything.
Spec == Init /\ [][Next]_vars /\ WF_vars(Step)

-----------------------------------------------------------------------------
(* Properties.                                                             *)

\* The types of the lists and the ranges of the loop indices.
TypeOK ==
  /\ run \in Run
  /\ pc \in {"clang_defaults", "forward", "cling_defaults", "cling_filter"} \cup Final
  /\ opt \in Nat \ {0} /\ val \in Nat \ {0} /\ fwd \in Nat \ {0}
  /\ args_storage \in Seq(ClangArg)
  /\ cling_extra_args \in Seq(Seq(Char))
  /\ clingInterpreterArgs \in Seq(ClingArg)
  /\ cause \in Causes \cup {"none"}

\* A clang argument that Cling should get too: extra-arg= with a value whose
\* second character is no dash.
SharedWithCling(arg) ==
  /\ arg.from = "user" /\ run.cling
  /\ arg.text.head = ExtraArg
  /\ Len(arg.text.tail) >= 2 /\ arg.text.tail[2] # Dash

\* The value less its first character, dashed if clang's argument is.
AsClingArg(arg) == (IF arg.dash THEN <<Dash>> ELSE <<>>) \o Tail(arg.text.tail)

\* What an option has to give clang, value by value: a key that starts with a
\* dash gives nothing, and of the texts of any other key the acceptable ones count.
Acceptable(text) == ~IsEmpty(text) /\ isAllowedClangArgument(text) /\ ~StartsWithDash(text)

FromValue(key, value) ==
  LET text == Combined(key, value)
  IN IF Acceptable(text) THEN <<ForClang(key, text)>> ELSE <<>>

FromOption(option) ==
  IF option.key = DashedExtraArg
  THEN <<>>
  ELSE FlattenSeq([j \in DOMAIN option.values |-> FromValue(option.key, option.values[j])])

FromUser == FlattenSeq([i \in DOMAIN run.commandLine |-> FromOption(run.commandLine[i])])

ExpectedClangArgs ==
  DefaultClangArgs(run.buildPathExists) \o FromUser
  \o (IF run.help THEN <<HelpFlag>> ELSE <<>>)

\* Clang gets the tool's own arguments first (clang_util.cc:436), then every
\* acceptable argument of the user once and in command-line order, then `-help`
\* last; and at no time, not even when a fatal check ends the run half-way, is
\* anything in the list that would not stay there.
ClangArgsComplete ==
  /\ pc \in {"cling_defaults", "cling_filter", "ready"} => args_storage = ExpectedClangArgs
  /\ IsPrefix(args_storage, ExpectedClangArgs)

\* The two lists populateClangArguments builds side by side never drift apart:
\* Cling's extra arguments are, one for one and in the same order, made from the
\* clang arguments it pipelines.  None is lost, doubled, swapped, or sent to
\* Cling after clang was refused it.
ClingMirrorsClang ==
  \E of \in [DOMAIN cling_extra_args -> DOMAIN args_storage] :
    /\ \A j, k \in DOMAIN cling_extra_args : j < k => of[j] < of[k]
    /\ \A j \in DOMAIN cling_extra_args :
         /\ SharedWithCling(args_storage[of[j]])
         /\ cling_extra_args[j] = AsClingArg(args_storage[of[j]])
    /\ \A i \in DOMAIN args_storage :
         SharedWithCling(args_storage[i]) => \E j \in DOMAIN cling_extra_args : of[j] = i

\* Every argument the interpreter gets after the application name starts with
\* '-' (clang_util.hpp:31), whatever the user typed: the filter of
\* ScopedClingEnvironment::init makes up for undashed extra arguments.
InterpreterArgsDashed ==
  \A i \in 2..Len(clingInterpreterArgs) :
    /\ clingInterpreterArgs[i].text # <<>>
    /\ clingInterpreterArgs[i].text[1] = Dash

\* `--extra-arg=-flag` reaches the interpreter as `-flag`: the character that the
\* prefix removal takes too much is the dash that pipelineClangArgToCling puts back.
FlagsReachInterpreter ==
  pc = "ready" =>
    \A i \in DOMAIN args_storage :
      LET arg == args_storage[i]
      IN SharedWithCling(arg) /\ arg.dash /\ arg.text.tail[1] = Dash =>
           \E j \in DOMAIN clingInterpreterArgs :
             clingInterpreterArgs[j] = [from |-> "user", text |-> arg.text.tail]

\* What the user offers clang: the keys that do not start with a dash, with
\* each of their values, and of those the ones the two tests let through.
Offered ==
  UNION {{[key |-> option.key, text |-> Combined(option.key, option.values[j])] :
            j \in DOMAIN option.values} :
         option \in {run.commandLine[i] : i \in {i \in DOMAIN run.commandLine :
                                              run.commandLine[i].key # DashedExtraArg}}}

Accepted == {o \in Offered : Acceptable(o.text)}

\* The command lines that no build, or no debug build, survives.
FatalCommandLine ==
  \/ run.cling /\ \E o \in Accepted : o.text.head = ExtraArg /\ Len(o.text.tail) < 2
  \/ run.dcheck /\ \E o \in Offered : IsEmpty(o.text)
  \/ run.prefixChecked /\ \E o \in Offered : o.text.head = NoKey /\ o.text.tail = <<Dash>>
  \/ run.dcheck /\ run.cling /\ \A o \in Accepted : ~Pipelined(o.text)
  \/ run.dcheck /\ run.cling /\ \E o \in Accepted :
       /\ Pipelined(o.text)
       /\ o.key = NoKey

\* Which command lines the fatal checks of the whole path end, and which get
\* through it.  The checks sit in four functions and two kinds of build; no
\* other input ends a run, and every such input does once the run is over.
AbortsExactlyOnFatal ==
  pc \in Final /\ pc # "failed" /\ cause # "exe_path_unknown" =>
    (pc = "aborted" <=> FatalCommandLine)

\* The loops end: the lists are completed, or the run fails or aborts.
Terminates == <>(pc \in Final)

-----------------------------------------------------------------------------
(* What comments and assertions of the code say, and the runs refute.      *)

\* clang_util.cc:374, a CHECK: if nothing is left of an argument once the prefix
\* is taken off, the argument was exactly "extra-arg=".
OnlyBarePrefixIsEmptied == cause # "empty_extra_arg"

\* cling_environment.cc:83, NOTREACHED: no extra argument lacks the dash.
ExtraArgsDashed == cause # "undashed_cling_arg"

\* cling_environment.cc:69, a DCHECK: some extra argument always comes through.
SomeExtraArg == cause # "no_extra_arg"

=============================================================================
