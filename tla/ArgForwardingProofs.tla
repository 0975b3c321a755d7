------------------------ MODULE ArgForwardingProofs ------------------------
(***************************************************************************)
(* Proofs about ArgForwarding for every character set, every set of        *)
(* command lines and every set of existing paths: type correctness, the    *)
(* correspondence of clang's and Cling's lists, and what the interpreter   *)
(* is created with.                                                        *)
(***************************************************************************)
EXTENDS ArgForwarding, FlattenFacts, SequenceTheorems, TLAPS

\* Two names for a number and a test, transparent everywhere below.
USE DEF First, HasClingPrefix

\* The prefix removal of clangArgToClingArg yields a text when one is left.
LEMMA ForClingTyped ==
  ASSUME NEW key, NEW text \in Text, Pipelined(text)
  PROVE  ForCling(key, text) \in Seq(Char)
<1>1. text.tail \in Seq(Char) /\ text.tail # <<>>
  BY DEF Text, Pipelined
<1>2. Tail(text.tail) \in Seq(Char)
  BY <1>1, HeadTailProperties
<1>3. <<Dash>> \in Seq(Char)
  BY DashIsChar
<1> QED
  BY <1>2, <1>3 DEF ForCling, WithoutPrefix

\* Putting the dash back on a flag undoes what the prefix removal took.
LEMMA FlagRestored ==
  ASSUME NEW text \in Text, Pipelined(text), text.tail[1] = Dash
  PROVE  ForCling(ExtraArg, text) = text.tail
<1> DEFINE tail == text.tail
<1>1. tail \in Seq(Char) /\ tail # <<>> /\ Len(tail) \in Nat /\ Len(tail) >= 2
  BY DEF Text, Pipelined
<1>2. /\ Tail(tail) \in Seq(Char)
      /\ Len(Tail(tail)) = Len(tail) - 1
      /\ \A i \in 1..Len(Tail(tail)) : Tail(tail)[i] = tail[i + 1]
  BY <1>1, HeadTailProperties
<1>3. ForCling(ExtraArg, text) = <<Dash>> \o Tail(tail)
  BY DEF ForCling, WithoutPrefix, ExtraArg, NoKey
<1>4. <<Dash>> \in Seq(Char) /\ Len(<<Dash>>) = 1 /\ <<Dash>>[1] = Dash
  BY DashIsChar
<1>5. /\ <<Dash>> \o Tail(tail) \in Seq(Char)
      /\ Len(<<Dash>> \o Tail(tail)) = 1 + Len(Tail(tail))
      /\ \A i \in 1..(1 + Len(Tail(tail))) :
           (<<Dash>> \o Tail(tail))[i] = IF i <= 1 THEN <<Dash>>[i] ELSE Tail(tail)[i - 1]
  BY <1>2, <1>4, ConcatProperties
<1>6. ASSUME NEW i \in 1..Len(tail)
      PROVE  (<<Dash>> \o Tail(tail))[i] = tail[i]
  <2>1. CASE i = 1
    BY <2>1, <1>1, <1>2, <1>4, <1>5
  <2>2. CASE i # 1
    <3>1. i - 1 \in 1..Len(Tail(tail))
      BY <2>2, <1>1, <1>2
    <3>2. Tail(tail)[i - 1] = tail[i - 1 + 1]
      BY <3>1, <1>2
    <3>3. i \in 1..(1 + Len(Tail(tail))) /\ ~(i <= 1) /\ i - 1 + 1 = i
      BY <2>2, <1>1, <1>2
    <3> QED
      BY <3>2, <3>3, <1>5
  <2> QED
    BY <2>1, <2>2
<1>7. <<Dash>> \o Tail(tail) = tail
  BY <1>1, <1>2, <1>5, <1>6, SeqEqual
<1> QED
  BY <1>3, <1>7

\* The text under the loop indices is a text, with a known key.
LEMMA CurrentTyped ==
  ASSUME TypeOK, InValues
  PROVE  /\ Current \in Text
         /\ Key \in Heads
         /\ Key # NoKey => Current.head = Key
<1>1. run.commandLine \in CommandLines /\ run.commandLine \in Seq(Option)
  BY CommandLinesTyped DEF TypeOK, Run
<1>2. opt \in 1..Len(run.commandLine)
  BY <1>1 DEF TypeOK, InValues, InOptions
<1>3. run.commandLine[opt] \in Option
  BY <1>1, <1>2, ElementOfSeq
<1>4. Key \in Heads /\ Values \in Seq(Text)
  BY <1>3 DEF Key, Values, Option
<1>5. val \in 1..Len(Values)
  BY <1>4 DEF TypeOK, InValues, ValuesUsedUp
<1>6. Values[val] \in Text
  BY <1>4, <1>5, ElementOfSeq
<1> QED
  BY <1>4, <1>6 DEF Current, Combined, Text

\* The arguments the tool adds by itself have the type of the lists.
LEMMA ToolArgsTyped ==
  /\ \A b \in BOOLEAN : /\ DefaultClangArgs(b) \in Seq(ClangArg)
                        /\ \A i \in DOMAIN DefaultClangArgs(b) :
                             DefaultClangArgs(b)[i].from = "tool"
  /\ HelpFlag \in ClangArg
  /\ DefaultClingArgs \in Seq(ClingArg)
  /\ \A i \in 2..Len(DefaultClingArgs) : DefaultClingArgs[i].text = <<Dash>>
<1>1. <<>> \in Seq(Char) /\ <<Dash>> \in Seq(Char)
  BY DashIsChar
<1>2. AppName \in ClangArg /\ BuildPath \in ClangArg /\ DefaultFlags \in ClangArg
  BY <1>1 DEF AppName, BuildPath, DefaultFlags, ClangArg, Text, Heads, BuiltIn, ExtraArg, NoKey
<1>3. HelpFlag \in ClangArg
  BY <1>1 DEF HelpFlag, ClangArg, Text, Heads, BuiltIn
<1>4. ASSUME NEW b \in BOOLEAN
      PROVE  /\ DefaultClangArgs(b) \in Seq(ClangArg)
             /\ \A i \in DOMAIN DefaultClangArgs(b) : DefaultClangArgs(b)[i].from = "tool"
  <2>1. CASE b
    <3>1. DefaultClangArgs(b) = <<AppName, BuildPath, DefaultFlags>>
      BY <2>1 DEF DefaultClangArgs
    <3> QED
      BY <3>1, <1>2 DEF AppName, BuildPath, DefaultFlags
  <2>2. CASE ~b
    <3>1. DefaultClangArgs(b) = <<AppName, DefaultFlags>>
      BY <2>2 DEF DefaultClangArgs
    <3> QED
      BY <3>1, <1>2 DEF AppName, DefaultFlags
  <2> QED
    BY <2>1, <2>2
<1>5. DefaultClingArgs \in Seq(ClingArg)
  BY <1>1 DEF DefaultClingArgs, ClingArg
<1>6. \A i \in 2..Len(DefaultClingArgs) : DefaultClingArgs[i].text = <<Dash>>
  BY DEF DefaultClingArgs
<1> QED
  BY <1>3, <1>4, <1>5, <1>6

-----------------------------------------------------------------------------
(* Type correctness.                                                       *)

LEMMA ForClangTyped ==
  ASSUME NEW key, NEW text \in Text
  PROVE  ForClang(key, text) \in ClangArg
BY DEF ForClang, ClangArg

LEMMA TypeOKInit == Init => TypeOK
BY DEF Init, TypeOK, Final

LEMMA TypeOKNext == TypeOK /\ [Next]_vars => TypeOK'
<1> SUFFICES ASSUME TypeOK, [Next]_vars PROVE TypeOK'
  OBVIOUS
<1> USE DEF TypeOK
<1>1. CASE AddDefaultClangArgs
  <2>1. DefaultClangArgs(run.buildPathExists) \in Seq(ClangArg)
    BY ToolArgsTyped DEF Run
  <2> QED
    BY <1>1, <2>1 DEF AddDefaultClangArgs
<1>2. CASE ExePathUnknown
  BY <1>2 DEF ExePathUnknown, Abort, Causes, Final
<1>3. CASE NextOption
  BY <1>3 DEF NextOption, InOptions
<1>4. CASE EmptyArgument
  BY <1>4 DEF EmptyArgument, InValues, InOptions, Abort, Causes, Final
<1>5. CASE RefuseValue \/ OverrunByDash
  BY <1>5 DEF RefuseValue, OverrunByDash, InValues, InOptions, Abort, Causes, Final
<1>6. CASE ForwardValue
  <2>1. Current \in Text
    BY <1>6, CurrentTyped DEF ForwardValue
  <2>2. args_storage' \in Seq(ClangArg)
    BY <1>6, <2>1, ForClangTyped DEF ForwardValue
  <2>3. Pipelined(Current) => ForCling(Key, Current) \in Seq(Char)
    BY <2>1, ForClingTyped
  <2>4. cling_extra_args' \in Seq(Seq(Char))
    <3>1. \/ UNCHANGED cling_extra_args
          \/ /\ Pipelined(Current)
             /\ cling_extra_args' = Append(cling_extra_args, ForCling(Key, Current))
      BY <1>6 DEF ForwardValue, PipelineToCling
    <3>2. ASSUME Pipelined(Current)
          PROVE  Append(cling_extra_args, ForCling(Key, Current)) \in Seq(Seq(Char))
      <4>1. ForCling(Key, Current) \in Seq(Char)
        BY <2>3, <3>2
      <4>2. cling_extra_args \in Seq(Seq(Char))
        OBVIOUS
      <4> HIDE DEF TypeOK
      <4> QED
        BY <4>1, <4>2, AppendProperties
    <3> QED
      BY <3>1, <3>2
  <2>5. /\ pc' = pc \/ pc' = "aborted"
        /\ cause' \in Causes \cup {"none"}
        /\ val' \in Nat \ {0}
    BY <1>6 DEF ForwardValue, PipelineToCling, Abort, Causes
  <2>6. UNCHANGED <<run, opt, fwd, clingInterpreterArgs>>
    BY <1>6 DEF ForwardValue
  <2> QED
    BY <2>2, <2>4, <2>5, <2>6 DEF Final
<1>7. CASE FinishClangArgs
  BY <1>7, ToolArgsTyped DEF FinishClangArgs, Final
<1>8. CASE AddDefaultClingArgs
  BY <1>8, ToolArgsTyped DEF AddDefaultClingArgs, Abort, Causes, Final
<1>9. CASE FilterClingArg
  <2> DEFINE arg == cling_extra_args[fwd]
  <2>1. arg \in Seq(Char)
    BY <1>9, ElementOfSeq DEF FilterClingArg
  <2>2. [from |-> "user", text |-> arg] \in ClingArg
    BY <2>1 DEF ClingArg
  <2>3. clingInterpreterArgs' \in Seq(ClingArg)
    BY <1>9, <2>2 DEF FilterClingArg
  <2> QED
    BY <1>9, <2>3 DEF FilterClingArg, Abort, Causes, Final
<1>10. CASE FinishClingArgs
  BY <1>10 DEF FinishClingArgs, Final
<1>11. CASE UNCHANGED vars
  BY <1>11 DEF vars
<1> QED
  BY <1>1, <1>2, <1>3, <1>4, <1>5, <1>6, <1>7, <1>8, <1>9, <1>10, <1>11
     DEF Next, Step, Finished

\* Whatever the command line, the lists hold arguments of the expected kinds
\* and the loops of populateClangArguments stay within their types.
THEOREM TypeCorrect == Spec => []TypeOK
BY TypeOKInit, TypeOKNext, PTL DEF Spec

-----------------------------------------------------------------------------
(* What clang gets.  The two loops build FromUser from the front: the      *)
(* options they are through with, and of the option at hand the values.    *)

ValueArgs(i) ==
  [j \in DOMAIN run.commandLine[i].values |->
     FromValue(run.commandLine[i].key, run.commandLine[i].values[j])]

OptionArgs == [i \in DOMAIN run.commandLine |-> FromOption(run.commandLine[i])]

OfOption == IF opt <= Len(run.commandLine) THEN FlattenTo(ValueArgs(opt), val - 1) ELSE <<>>

LoopBounds ==
  /\ opt <= Len(run.commandLine) + 1
  /\ opt <= Len(run.commandLine) =>
       val <= Len(Values) + 1 /\ (Key = DashedExtraArg => val = 1)

Built ==
  args_storage = DefaultClangArgs(run.buildPathExists)
                 \o (FlattenTo(OptionArgs, opt - 1) \o OfOption)

ClangInv ==
  /\ pc = "clang_defaults" => args_storage = <<>> /\ opt = 1 /\ val = 1
  /\ pc = "forward" => LoopBounds /\ Built
  /\ pc \in {"cling_defaults", "cling_filter", "ready"} => args_storage = ExpectedClangArgs
  /\ Begins(args_storage, ExpectedClangArgs, ClangArg)

LEMMA LineTyped ==
  ASSUME TypeOK
  PROVE  /\ run.commandLine \in Seq(Option)
         /\ \A i \in DOMAIN run.commandLine : run.commandLine[i].values \in Seq(Text)
         /\ run.cling \in BOOLEAN /\ run.dcheck \in BOOLEAN
<1>1. run.commandLine \in CommandLines /\ run.cling \in BOOLEAN /\ run.dcheck \in BOOLEAN
  BY DEF TypeOK, Run
<1>2. run.commandLine \in Seq(Option)
  BY <1>1, CommandLinesTyped
<1>3. \A i \in DOMAIN run.commandLine : run.commandLine[i] \in Option
  BY <1>2, ElementOfSeq, LenProperties
<1> QED
  BY <1>1, <1>2, <1>3 DEF Option

\* An option contributes arguments for clang, value by value.
LEMMA ContributionsTyped ==
  ASSUME TypeOK
  PROVE  /\ Len(run.commandLine) \in Nat
         /\ OptionArgs \in Seq(Seq(ClangArg)) /\ Len(OptionArgs) = Len(run.commandLine)
         /\ \A i \in 1..Len(run.commandLine) :
              /\ Len(run.commandLine[i].values) \in Nat
              /\ ValueArgs(i) \in Seq(Seq(ClangArg))
              /\ Len(ValueArgs(i)) = Len(run.commandLine[i].values)
              /\ OptionArgs[i] = FromOption(run.commandLine[i])
              /\ run.commandLine[i].key # DashedExtraArg =>
                   OptionArgs[i] = FlattenSeq(ValueArgs(i))
<1> DEFINE n == Len(run.commandLine)
<1>1. n \in Nat /\ DOMAIN run.commandLine = 1..n /\ run.commandLine \in Seq(Option)
  BY LineTyped, LenProperties
<1>2. ASSUME NEW i \in 1..n
      PROVE  /\ Len(run.commandLine[i].values) \in Nat
             /\ ValueArgs(i) \in Seq(Seq(ClangArg))
             /\ Len(ValueArgs(i)) = Len(run.commandLine[i].values)
  <2> DEFINE key == run.commandLine[i].key
             values == run.commandLine[i].values
  <2>1. key \in Heads /\ values \in Seq(Text)
    <3>1. run.commandLine[i] \in Option
      BY <1>1, ElementOfSeq
    <3> QED
      BY <3>1 DEF Option
  <2>2. Len(values) \in Nat /\ DOMAIN values = 1..Len(values)
      /\ \A j \in 1..Len(values) : values[j] \in Text
    BY <2>1, LenProperties, ElementOfSeq
  <2> HIDE DEF key, values
  <2>3. \A value \in Text : FromValue(key, value) \in Seq(ClangArg)
    <3> SUFFICES ASSUME NEW value \in Text PROVE FromValue(key, value) \in Seq(ClangArg)
      OBVIOUS
    <3>1. Combined(key, value) \in Text
      BY <2>1 DEF Combined, Text
    <3>2. ForClang(key, Combined(key, value)) \in ClangArg
      BY <3>1, ForClangTyped
    <3> QED
      BY <3>2 DEF FromValue
  <2>4. ValueArgs(i) \in [1..Len(values) -> Seq(ClangArg)]
    BY <2>2, <2>3 DEF ValueArgs, key, values
  <2>5. ValueArgs(i) \in Seq(Seq(ClangArg)) /\ Len(ValueArgs(i)) = Len(values)
    BY <2>2, <2>4, FunctionIsSeq
  <2> QED
    BY <2>2, <2>5 DEF values
<1>3. ASSUME NEW i \in 1..n
      PROVE  /\ FromOption(run.commandLine[i]) \in Seq(ClangArg)
             /\ run.commandLine[i].key # DashedExtraArg =>
                  FromOption(run.commandLine[i]) = FlattenSeq(ValueArgs(i))
  <2>1. run.commandLine[i].key # DashedExtraArg =>
          FromOption(run.commandLine[i]) = FlattenSeq(ValueArgs(i))
    BY DEF FromOption, ValueArgs
  <2>2. FlattenSeq(ValueArgs(i)) \in Seq(ClangArg)
    BY <1>2, FlattenSeqTyped
  <2>3. run.commandLine[i].key = DashedExtraArg => FromOption(run.commandLine[i]) = <<>>
    BY DEF FromOption
  <2> QED
    BY <2>1, <2>2, <2>3, EmptySeq
<1>4. OptionArgs \in [1..n -> Seq(ClangArg)] /\ \A i \in 1..n : OptionArgs[i] = FromOption(run.commandLine[i])
  BY <1>1, <1>3 DEF OptionArgs
<1>5. OptionArgs \in Seq(Seq(ClangArg)) /\ Len(OptionArgs) = n
  BY <1>1, <1>4, FunctionIsSeq
<1> QED
  BY <1>1, <1>2, <1>3, <1>4, <1>5

LEMMA ExpectedParts ==
  ASSUME TypeOK
  PROVE  /\ DefaultClangArgs(run.buildPathExists) \in Seq(ClangArg)
         /\ FlattenSeq(OptionArgs) \in Seq(ClangArg)
         /\ (IF run.help THEN <<HelpFlag>> ELSE <<>>) \in Seq(ClangArg)
         /\ ExpectedClangArgs = (DefaultClangArgs(run.buildPathExists) \o FlattenSeq(OptionArgs))
                                \o (IF run.help THEN <<HelpFlag>> ELSE <<>>)
<1>1. DefaultClangArgs(run.buildPathExists) \in Seq(ClangArg)
  BY ToolArgsTyped DEF TypeOK, Run
<1>2. FlattenSeq(OptionArgs) \in Seq(ClangArg)
  BY ContributionsTyped, FlattenSeqTyped
<1>3. (IF run.help THEN <<HelpFlag>> ELSE <<>>) \in Seq(ClangArg)
  BY ToolArgsTyped, EmptySeq
<1> QED
  BY <1>1, <1>2, <1>3 DEF ExpectedClangArgs, FromUser, OptionArgs

\* The options from the first, and of the next one what begins its contribution,
\* begin the list that is expected in the end.
LEMMA BeginsExpected ==
  ASSUME TypeOK, NEW n \in 0..Len(run.commandLine), NEW part \in Seq(ClangArg),
         part = <<>> \/ /\ n + 1 <= Len(run.commandLine)
                        /\ Begins(part, FromOption(run.commandLine[n + 1]), ClangArg)
  PROVE  Begins(DefaultClangArgs(run.buildPathExists) \o (FlattenTo(OptionArgs, n) \o part),
                ExpectedClangArgs, ClangArg)
<1> DEFINE D == DefaultClangArgs(run.buildPathExists)
           O == FlattenTo(OptionArgs, n)
           U == FlattenSeq(OptionArgs)
           H == IF run.help THEN <<HelpFlag>> ELSE <<>>
<1>1. D \in Seq(ClangArg) /\ U \in Seq(ClangArg) /\ H \in Seq(ClangArg)
      /\ ExpectedClangArgs = (D \o U) \o H
  BY ExpectedParts
<1>2. O \in Seq(ClangArg) /\ Begins(O, U, ClangArg)
  BY ContributionsTyped, FlattenTyped, FlattenPrefix
<1>3. ASSUME n + 1 <= Len(run.commandLine)
      PROVE  Begins(O \o OptionArgs[n + 1], U, ClangArg)
  <2>1. n + 1 \in 0..Len(OptionArgs) /\ n \in Nat
    BY <1>3, ContributionsTyped
  <2>2. FlattenTo(OptionArgs, n + 1) = O \o OptionArgs[n + 1]
    BY <1>3, <2>1, ContributionsTyped, FlattenNext
  <2> QED
    BY <2>1, <2>2, ContributionsTyped, FlattenPrefix
<1> HIDE DEF D, O, U, H
<1>4. Begins(O \o part, U, ClangArg)
  <2>1. CASE part = <<>>
    BY <1>2, <2>1, ConcatEmptySeq
  <2>2. CASE n + 1 <= Len(run.commandLine) /\ Begins(part, FromOption(run.commandLine[n + 1]), ClangArg)
    <3>1. Begins(part, OptionArgs[n + 1], ClangArg)
      BY <2>2, ContributionsTyped
    <3>2. Begins(O \o part, O \o OptionArgs[n + 1], ClangArg)
      BY <1>2, <3>1, BeginsBehind
    <3>3. O \o part \in Seq(ClangArg)
      BY <1>2, ConcatProperties
    <3> QED
      BY <1>3, <2>2, <3>2, <3>3, BeginsTransitive
  <2> QED
    BY <2>1, <2>2
<1>5. /\ O \o part \in Seq(ClangArg) /\ D \o (O \o part) \in Seq(ClangArg)
      /\ D \o U \in Seq(ClangArg)
  <2>1. O \o part \in Seq(ClangArg)
    BY <1>2, ConcatProperties
  <2> QED
    BY <1>1, <2>1, ConcatProperties
<1>6. Begins(D \o (O \o part), D \o U, ClangArg)
  BY <1>1, <1>4, <1>5, BeginsBehind
<1>7. Begins(D \o U, (D \o U) \o H, ClangArg)
  BY <1>1, <1>5, BeginsConcat
<1>8. Begins(D \o (O \o part), ExpectedClangArgs, ClangArg)
  BY <1>1, <1>5, <1>6, <1>7, BeginsTransitive
<1> QED
  BY <1>8 DEF D, O

\* What the loops have taken from the option at hand begins its contribution.
LEMMA OptionBegins ==
  ASSUME TypeOK, NEW i \in 1..Len(run.commandLine),
         NEW j \in 0..Len(run.commandLine[i].values),
         run.commandLine[i].key # DashedExtraArg \/ j = 0
  PROVE  /\ FlattenTo(ValueArgs(i), j) \in Seq(ClangArg)
         /\ Begins(FlattenTo(ValueArgs(i), j), FromOption(run.commandLine[i]), ClangArg)
<1>1. FlattenTo(ValueArgs(i), j) \in Seq(ClangArg)
  BY ContributionsTyped, FlattenTyped
<1>2. CASE run.commandLine[i].key # DashedExtraArg
  BY <1>1, <1>2, ContributionsTyped, FlattenPrefix
<1>3. CASE run.commandLine[i].key = DashedExtraArg
  <2>1. FlattenTo(ValueArgs(i), j) = <<>> /\ FromOption(run.commandLine[i]) = <<>>
    BY <1>3, FlattenNone DEF FromOption
  <2> QED
    BY <1>1, <2>1, EmptySeq, ConcatEmptySeq DEF Begins
<1> QED
  BY <1>2, <1>3

LEMMA ClangInit == Init => ClangInv
<1> SUFFICES ASSUME Init PROVE ClangInv
  OBVIOUS
<1>1. pc = "clang_defaults" /\ args_storage = <<>> /\ opt = 1 /\ val = 1
  BY DEF Init
<1>2. Begins(<<>>, ExpectedClangArgs, ClangArg)
  <2>1. ExpectedClangArgs \in Seq(ClangArg)
    <3>1. \A s, t \in Seq(ClangArg) : s \o t \in Seq(ClangArg)
      BY ConcatProperties
    <3> QED
      BY <3>1, TypeOKInit, ExpectedParts
  <2> QED
    BY <2>1, ConcatEmptySeq DEF Begins
<1> QED
  BY <1>1, <1>2 DEF ClangInv

\* The contributions depend on the inputs alone.
LEMMA ContributionsStay ==
  ASSUME UNCHANGED run
  PROVE  /\ OptionArgs' = OptionArgs
         /\ ExpectedClangArgs' = ExpectedClangArgs
         /\ OfOption' = IF opt' <= Len(run.commandLine)
                        THEN FlattenTo(ValueArgs(opt'), val' - 1) ELSE <<>>
BY DEF OptionArgs, ExpectedClangArgs, FromUser, OfOption, ValueArgs, FromOption, FromValue,
       Acceptable, isAllowedClangArgument

\* An iteration of the inner loop: what it has from the option at hand grows by
\* what the value at hand gives.
LEMMA ValueStep ==
  ASSUME TypeOK, InValues, pc = "forward", LoopBounds
  PROVE  /\ opt \in 1..Len(run.commandLine) /\ val \in 1..Len(Values) /\ Len(Values) \in Nat
         /\ OfOption \in Seq(ClangArg)
         /\ FlattenTo(ValueArgs(opt), val) = OfOption \o FromValue(Key, Values[val])
<1>1. /\ opt \in 1..Len(run.commandLine) /\ val \in Nat /\ val >= 1
      /\ OfOption = FlattenTo(ValueArgs(opt), val - 1)
  BY ContributionsTyped DEF TypeOK, InValues, InOptions, OfOption
<1>2. /\ ValueArgs(opt) \in Seq(Seq(ClangArg)) /\ Len(ValueArgs(opt)) = Len(Values)
      /\ Len(Values) \in Nat
  BY <1>1, ContributionsTyped DEF Values
<1>3. val \in 1..Len(Values)
  BY <1>1, <1>2 DEF InValues, ValuesUsedUp
<1>4. val - 1 \in Nat /\ (val - 1) + 1 = val /\ val <= Len(ValueArgs(opt))
  BY <1>1, <1>2, <1>3
<1>5. ValueArgs(opt)[val] = FromValue(Key, Values[val])
  <2>1. DOMAIN run.commandLine[opt].values = 1..Len(Values)
    BY <1>1, LineTyped, LenProperties DEF Values
  <2> QED
    BY <1>3, <2>1 DEF ValueArgs, Key, Values
<1>6. /\ FlattenTo(ValueArgs(opt), val - 1) \in Seq(ClangArg)
      /\ FlattenTo(ValueArgs(opt), val) = FlattenTo(ValueArgs(opt), val - 1) \o ValueArgs(opt)[val]
  BY <1>2, <1>4, FlattenNext
<1> QED
  BY <1>1, <1>2, <1>3, <1>5, <1>6

\* Past a value the list is what it was, and what the value gives.
LEMMA PastValue ==
  ASSUME TypeOK, ClangInv, InValues, pc = "forward", UNCHANGED <<run, opt>>,
         args_storage' = args_storage \o FromValue(Key, Values[val])
  PROVE  /\ Begins(args_storage', ExpectedClangArgs', ClangArg)
         /\ val' = val + 1 => LoopBounds' /\ Built'
<1> DEFINE D == DefaultClangArgs(run.buildPathExists)
           O == FlattenTo(OptionArgs, opt - 1)
           V == OfOption
           W == FlattenTo(ValueArgs(opt), val)
           x == FromValue(Key, Values[val])
<1>1. /\ LoopBounds /\ args_storage = D \o (O \o V)
  BY DEF ClangInv, Built
<1>2. /\ opt \in 1..Len(run.commandLine) /\ val \in 1..Len(Values) /\ Len(Values) \in Nat
      /\ V \in Seq(ClangArg) /\ W = V \o x /\ Len(run.commandLine) \in Nat
  BY <1>1, ValueStep, ContributionsTyped
<1>3. opt - 1 \in 0..Len(run.commandLine) /\ (opt - 1) + 1 = opt
  BY <1>2
<1>4. D \in Seq(ClangArg) /\ O \in Seq(ClangArg)
  BY <1>3, ExpectedParts, ContributionsTyped, FlattenTyped
<1>5. x \in Seq(ClangArg)
  <2>1. Current \in Text
    BY CurrentTyped
  <2>2. ForClang(Key, Current) \in ClangArg
    BY <2>1, ForClangTyped
  <2> QED
    BY <2>2 DEF FromValue, Current
<1>6. /\ W \in Seq(ClangArg)
      /\ Begins(W, FromOption(run.commandLine[opt]), ClangArg)
  <2>1. val \in 0..Len(run.commandLine[opt].values)
        /\ run.commandLine[opt].key # DashedExtraArg
    BY <1>2 DEF Values, InValues, Key
  <2> QED
    BY <1>2, <2>1, OptionBegins
<1>7. Begins(D \o (O \o W), ExpectedClangArgs, ClangArg)
  <2>1. /\ (opt - 1) + 1 <= Len(run.commandLine)
        /\ Begins(W, FromOption(run.commandLine[(opt - 1) + 1]), ClangArg)
    BY <1>2, <1>3, <1>6
  <2> HIDE DEF W
  <2> QED
    BY <1>3, <1>6, <2>1, BeginsExpected
<1>8. args_storage' = D \o (O \o W)
  <2> DEFINE ov == O \o V
  <2>1. /\ D \in Seq(ClangArg) /\ O \in Seq(ClangArg) /\ V \in Seq(ClangArg)
        /\ x \in Seq(ClangArg)
    BY <1>2, <1>4, <1>5
  <2>2. W = V \o x /\ args_storage' = (D \o ov) \o x
    BY <1>1, <1>2
  <2> HIDE DEF D, O, V, W, x
  <2>3. ov \in Seq(ClangArg)
    BY <2>1, ConcatProperties
  <2>4. ov \o x = O \o (V \o x)
    BY <2>1, ConcatAssociative
  <2> HIDE DEF ov
  <2>5. (D \o ov) \o x = D \o (ov \o x)
    BY <2>1, <2>3, ConcatAssociative
  <2> QED
    BY <2>2, <2>4, <2>5
<1>9. ExpectedClangArgs' = ExpectedClangArgs /\ OptionArgs' = OptionArgs
  BY ContributionsStay
<1>10. ASSUME val' = val + 1 PROVE LoopBounds' /\ Built'
  <2>1. LoopBounds'
    BY <1>1, <1>2, <1>10 DEF LoopBounds, Key, Values, InValues
  <2>2. OfOption' = W
    <3>1. val' - 1 = val
      BY <1>2, <1>10
    <3> QED
      BY <1>2, <3>1, ContributionsStay
  <2> QED
    BY <1>8, <1>9, <2>1, <2>2 DEF Built
<1> QED
  BY <1>7, <1>8, <1>9, <1>10

\* An option that is used up, or skipped, is in the list with all it contributes.
LEMMA NextOptionBuilt == TypeOK /\ ClangInv /\ NextOption => LoopBounds' /\ Built'
<1> SUFFICES ASSUME TypeOK, ClangInv, NextOption PROVE LoopBounds' /\ Built'
  OBVIOUS
<1> DEFINE O == FlattenTo(OptionArgs, opt - 1)
<1>1. /\ LoopBounds /\ Built /\ opt \in 1..Len(run.commandLine) /\ Len(run.commandLine) \in Nat
      /\ opt' = opt + 1 /\ val' = 1 /\ UNCHANGED <<run, args_storage>>
      /\ val \in Nat /\ val >= 1
  BY ContributionsTyped DEF NextOption, InOptions, ClangInv, TypeOK, First
<1>2. O \in Seq(ClangArg) /\ FlattenTo(OptionArgs, opt) = O \o OptionArgs[opt]
  <2>1. opt - 1 \in Nat /\ (opt - 1) + 1 = opt /\ opt <= Len(OptionArgs)
    BY <1>1, ContributionsTyped
  <2> QED
    BY <2>1, ContributionsTyped, FlattenNext
<1>3. OfOption = OptionArgs[opt]
  <2>1. OfOption = FlattenTo(ValueArgs(opt), val - 1)
    BY <1>1 DEF OfOption
  <2>2. CASE Key = DashedExtraArg
    <3>1. val - 1 = 0
      BY <1>1, <2>2 DEF LoopBounds
    <3>2. OptionArgs[opt] = <<>>
      BY <1>1, <2>2, ContributionsTyped DEF FromOption, Key
    <3> QED
      BY <2>1, <3>1, <3>2, FlattenNone
  <2>3. CASE Key # DashedExtraArg
    <3>1. Len(Values) \in Nat /\ Len(ValueArgs(opt)) = Len(Values)
      BY <1>1, ContributionsTyped DEF Values
    <3>2. val - 1 = Len(ValueArgs(opt))
      BY <1>1, <2>3, <3>1 DEF NextOption, ValuesUsedUp, LoopBounds
    <3>3. OptionArgs[opt] = FlattenSeq(ValueArgs(opt)) /\ ValueArgs(opt) \in Seq(Seq(ClangArg))
      BY <1>1, <2>3, ContributionsTyped DEF Key
    <3> QED
      BY <2>1, <3>2, <3>3, FlattenAll
  <2> QED
    BY <2>2, <2>3
<1>4. OfOption' = <<>>
  <2>1. val' - 1 = 0
    BY <1>1
  <2> QED
    BY <1>1, <2>1, ContributionsStay, FlattenNone
<1>5. Built'
  <2>1. FlattenTo(OptionArgs, opt) \in Seq(ClangArg)
    BY <1>1, ContributionsTyped, FlattenTyped
  <2>2. FlattenTo(OptionArgs, opt) \o <<>> = O \o OfOption
    BY <1>2, <1>3, <2>1, ConcatEmptySeq
  <2>3. opt' - 1 = opt /\ OptionArgs' = OptionArgs
    BY <1>1, ContributionsStay
  <2> QED
    BY <1>1, <1>4, <2>2, <2>3 DEF Built
<1>6. LoopBounds'
  <2>1. \A i \in 1..Len(run.commandLine) : Len(run.commandLine[i].values) \in Nat
    BY ContributionsTyped
  <2> QED
    BY <1>1, <2>1 DEF LoopBounds, Key, Values
<1> QED
  BY <1>5, <1>6

LEMMA ClangNext == TypeOK /\ ClangInv /\ [Next]_vars => ClangInv'
<1> SUFFICES ASSUME TypeOK, ClangInv, [Next]_vars PROVE ClangInv'
  OBVIOUS
<1>0. /\ UNCHANGED run => ExpectedClangArgs' = ExpectedClangArgs
      /\ UNCHANGED <<run, args_storage>> => Begins(args_storage', ExpectedClangArgs', ClangArg)
  BY ContributionsStay DEF ClangInv
<1>1. CASE AddDefaultClangArgs
  <2>1. /\ pc' = "forward" /\ opt' = 1 /\ val' = 1 /\ UNCHANGED run
        /\ args_storage' = DefaultClangArgs(run.buildPathExists)
    BY <1>1 DEF AddDefaultClangArgs, ClangInv
  <2>2. OptionArgs' = OptionArgs /\ OfOption' = <<>> /\ FlattenTo(OptionArgs, 0) = <<>>
    <3>1. val' - 1 = 0
      BY <2>1
    <3> QED
      BY <2>1, <3>1, ContributionsStay, FlattenNone
  <2>3. /\ <<>> \in Seq(ClangArg) /\ <<>> \o <<>> = <<>>
        /\ DefaultClangArgs(run.buildPathExists) \in Seq(ClangArg)
        /\ DefaultClangArgs(run.buildPathExists) \o <<>> = DefaultClangArgs(run.buildPathExists)
    BY ExpectedParts, EmptySeq, ConcatEmptySeq
  <2>4. Built'
    <3>1. opt' - 1 = 0
      BY <2>1
    <3> QED
      BY <2>1, <2>2, <2>3, <3>1 DEF Built
  <2>5. LoopBounds'
    BY <2>1, ContributionsTyped DEF LoopBounds, Key, Values
  <2>6. Begins(args_storage', ExpectedClangArgs, ClangArg)
    <3>1. 0 \in 0..Len(run.commandLine)
      BY ContributionsTyped
    <3>2. Begins(DefaultClangArgs(run.buildPathExists) \o (FlattenTo(OptionArgs, 0) \o <<>>),
                 ExpectedClangArgs, ClangArg)
      BY <2>3, <3>1, BeginsExpected
    <3> QED
      BY <2>1, <2>2, <2>3, <3>2
  <2> QED
    BY <1>0, <2>1, <2>4, <2>5, <2>6 DEF ClangInv
<1>2. CASE ExePathUnknown
  BY <1>0, <1>2 DEF ExePathUnknown, Abort, ClangInv
<1>3. CASE NextOption
  <2>1. pc = "forward" /\ UNCHANGED <<run, pc, args_storage>>
    BY <1>3 DEF NextOption, InOptions
  <2> QED
    BY <1>0, <1>3, <2>1, NextOptionBuilt DEF ClangInv
<1>4. CASE EmptyArgument \/ RefuseValue \/ OverrunByDash
  <2>1. /\ InValues /\ pc = "forward" /\ UNCHANGED <<run, opt, args_storage>> /\ ~Acceptable(Current)
        /\ pc' = "aborted" \/ (pc' = "forward" /\ val' = val + 1)
    <3>1. PrefixTooLong(Current) => StartsWithDash(Current)
      <4>1. <<Dash>> # <<>> /\ Head(<<Dash>>) = Dash
        OBVIOUS
      <4> QED
        BY <4>1 DEF PrefixTooLong, StartsWithDash
    <3> QED
      BY <1>4, <3>1 DEF EmptyArgument, RefuseValue, OverrunByDash, InValues, InOptions,
                        Abort, Acceptable
  <2>2. args_storage' = args_storage \o FromValue(Key, Values[val])
    <3>1. FromValue(Key, Values[val]) = <<>>
      BY <2>1 DEF FromValue, Current
    <3>2. args_storage \in Seq(ClangArg)
      BY DEF TypeOK
    <3> QED
      BY <2>1, <3>1, <3>2, ConcatEmptySeq
  <2>3. /\ Begins(args_storage', ExpectedClangArgs', ClangArg)
        /\ val' = val + 1 => LoopBounds' /\ Built'
    BY <2>1, <2>2, PastValue
  <2> QED
    BY <2>1, <2>3 DEF ClangInv
<1>5. CASE ForwardValue
  <2>1. /\ InValues /\ pc = "forward" /\ UNCHANGED <<run, opt>> /\ Acceptable(Current)
        /\ args_storage' = Append(args_storage, ForClang(Key, Current))
        /\ pc' = "aborted" \/ (pc' = "forward" /\ val' = val + 1)
    BY <1>5 DEF ForwardValue, InValues, InOptions, PipelineToCling, Abort, Acceptable
  <2>2. args_storage' = args_storage \o FromValue(Key, Values[val])
    <3>1. FromValue(Key, Values[val]) = <<ForClang(Key, Current)>>
      BY <2>1 DEF FromValue, Current
    <3>2. args_storage \in Seq(ClangArg) /\ ForClang(Key, Current) \in ClangArg
      BY <2>1, CurrentTyped, ForClangTyped DEF TypeOK
    <3> QED
      BY <2>1, <3>1, <3>2, AppendIsConcat
  <2>3. /\ Begins(args_storage', ExpectedClangArgs', ClangArg)
        /\ val' = val + 1 => LoopBounds' /\ Built'
    BY <2>1, <2>2, PastValue
  <2> QED
    BY <2>1, <2>3 DEF ClangInv
<1>6. CASE FinishClangArgs
  <2> DEFINE D == DefaultClangArgs(run.buildPathExists)
             U == FlattenSeq(OptionArgs)
  <2>1. /\ pc = "forward" /\ opt > Len(run.commandLine) /\ UNCHANGED run
        /\ args_storage' = IF run.help THEN Append(args_storage, HelpFlag) ELSE args_storage
        /\ pc' \in {"cling_defaults", "ready"}
    BY <1>6 DEF FinishClangArgs
  <2>2. LoopBounds /\ Built
    BY <2>1 DEF ClangInv
  <2>3. opt - 1 = Len(OptionArgs) /\ ~(opt <= Len(run.commandLine))
    <3>1. opt \in Nat /\ opt <= Len(run.commandLine) + 1
      BY <2>2 DEF LoopBounds, TypeOK
    <3>2. Len(run.commandLine) \in Nat /\ Len(OptionArgs) = Len(run.commandLine)
      BY ContributionsTyped
    <3> QED
      BY <2>1, <3>1, <3>2
  <2>4. FlattenTo(OptionArgs, opt - 1) = U /\ OfOption = <<>>
    BY <2>3, ContributionsTyped, FlattenAll DEF OfOption
  <2>5. D \in Seq(ClangArg) /\ U \in Seq(ClangArg) /\ D \o U \in Seq(ClangArg)
    <3>1. D \in Seq(ClangArg) /\ U \in Seq(ClangArg)
      BY ExpectedParts
    <3> QED
      BY <3>1, ConcatProperties
  <2>6. args_storage = D \o U
    <3>1. U \o <<>> = U
      BY <2>5, ConcatEmptySeq
    <3> QED
      BY <2>2, <2>4, <3>1 DEF Built
  <2>7. args_storage' = (D \o U) \o (IF run.help THEN <<HelpFlag>> ELSE <<>>)
    <3> HIDE DEF D, U
    <3>1. CASE run.help
      BY <2>1, <2>5, <2>6, <3>1, ToolArgsTyped, AppendIsConcat
    <3>2. CASE ~run.help
      BY <2>1, <2>5, <2>6, <3>2, ConcatEmptySeq
    <3> QED
      BY <3>1, <3>2
  <2>8. args_storage' = ExpectedClangArgs
    BY <2>7, ExpectedParts
  <2>9. Begins(args_storage', ExpectedClangArgs, ClangArg)
    <3>1. args_storage' \in Seq(ClangArg)
      BY TypeOKNext DEF TypeOK
    <3> QED
      BY <2>8, <3>1, EmptySeq, ConcatEmptySeq DEF Begins
  <2> QED
    BY <1>0, <2>1, <2>8, <2>9 DEF ClangInv
<1>7. CASE AddDefaultClingArgs \/ FilterClingArg \/ FinishClingArgs
  <2>1. /\ pc \in {"cling_defaults", "cling_filter"} /\ UNCHANGED <<run, args_storage>>
        /\ pc' \in {"cling_filter", "ready", "aborted"}
    BY <1>7 DEF AddDefaultClingArgs, FilterClingArg, FinishClingArgs, Abort
  <2> QED
    BY <1>0, <2>1 DEF ClangInv
<1>8. CASE UNCHANGED vars
  <2>1. UNCHANGED <<run, pc, opt, val, args_storage>>
    BY <1>8 DEF vars
  <2>2. (LoopBounds' <=> LoopBounds) /\ (Built' <=> Built)
    <3>1. OfOption' = OfOption /\ OptionArgs' = OptionArgs
      BY <2>1, ContributionsStay DEF OfOption
    <3> QED
      BY <2>1, <3>1 DEF LoopBounds, Built, Key, Values
  <2> QED
    BY <1>0, <2>1, <2>2 DEF ClangInv
<1> QED
  BY <1>1, <1>2, <1>3, <1>4, <1>5, <1>6, <1>7, <1>8 DEF Next, Step, Finished

\* Whatever is typed, in the end clang gets the tool's own arguments, each
\* acceptable argument of the user once and in order, and `-help` if it was asked
\* for; and whenever the run ends, nothing is in the list that would not stay.
THEOREM ClangArgsAsSpecified == Spec => []ClangArgsComplete
<1>1. TypeOK /\ ClangInv => ClangArgsComplete
  BY BeginsPrefix DEF ClangInv, ClangArgsComplete, TypeOK
<1> QED
  BY <1>1, TypeOKInit, TypeOKNext, ClangInit, ClangNext, PTL DEF Spec

-----------------------------------------------------------------------------
(* What is in clang's list once it is ready: the arguments of the tool in  *)
(* front, and behind them what was typed and is acceptable, and nothing    *)
(* else but `-help`.                                                       *)

\* An argument made from an acceptable text under a key that counts.
FromTyped(arg) ==
  \E i \in DOMAIN run.commandLine :
    LET option == run.commandLine[i]
    IN /\ option.key # DashedExtraArg
       /\ \E j \in DOMAIN option.values :
            LET text == Combined(option.key, option.values[j])
            IN Acceptable(text) /\ arg = ForClang(option.key, text)

LEMMA UserArgsAre ==
  ASSUME TypeOK, NEW arg
  PROVE  Contains(FlattenSeq(OptionArgs), arg) <=> FromTyped(arg)
<1> DEFINE n == Len(run.commandLine)
<1>1. n \in Nat /\ DOMAIN run.commandLine = 1..n
  BY LineTyped, LenProperties
<1>2. /\ OptionArgs \in Seq(Seq(ClangArg)) /\ DOMAIN OptionArgs = 1..n
      /\ \A i \in 1..n :
           /\ ValueArgs(i) \in Seq(Seq(ClangArg))
           /\ DOMAIN ValueArgs(i) = DOMAIN run.commandLine[i].values
           /\ OptionArgs[i] = FromOption(run.commandLine[i])
           /\ run.commandLine[i].key # DashedExtraArg =>
                OptionArgs[i] = FlattenSeq(ValueArgs(i))
  BY <1>1, ContributionsTyped DEF ValueArgs, OptionArgs
<1>3. ASSUME NEW key, NEW value
      PROVE  Contains(FromValue(key, value), arg) <=>
               /\ Acceptable(Combined(key, value))
               /\ arg = ForClang(key, Combined(key, value))
  <2>1. \A x : Contains(<<x>>, arg) <=> arg = x
    BY DEF Contains
  <2>2. ~Contains(<<>>, arg)
    BY DEF Contains
  <2> QED
    BY <2>1, <2>2 DEF FromValue
<1>4. ASSUME NEW i \in 1..n
      PROVE  Contains(OptionArgs[i], arg) <=>
               /\ run.commandLine[i].key # DashedExtraArg
               /\ \E j \in DOMAIN run.commandLine[i].values :
                    LET text == Combined(run.commandLine[i].key, run.commandLine[i].values[j])
                    IN Acceptable(text) /\ arg = ForClang(run.commandLine[i].key, text)
  <2>1. CASE run.commandLine[i].key = DashedExtraArg
    <3>1. FromOption(run.commandLine[i]) = <<>>
      BY <2>1 DEF FromOption
    <3>2. ~Contains(<<>>, arg)
      BY DEF Contains
    <3>3. ~Contains(OptionArgs[i], arg)
      BY <1>2, <3>1, <3>2
    <3> QED
      BY <2>1, <3>3
  <2>2. CASE run.commandLine[i].key # DashedExtraArg
    <3>1. Contains(OptionArgs[i], arg) <=>
            \E j \in DOMAIN ValueArgs(i) : Contains(ValueArgs(i)[j], arg)
      BY <1>2, <2>2, FlattenContains
    <3>2. \A j \in DOMAIN run.commandLine[i].values :
            ValueArgs(i)[j] = FromValue(run.commandLine[i].key, run.commandLine[i].values[j])
      BY DEF ValueArgs
    <3> QED
      BY <1>2, <1>3, <2>2, <3>1, <3>2
  <2> QED
    BY <2>1, <2>2
<1>5. Contains(FlattenSeq(OptionArgs), arg) <=> \E i \in 1..n : Contains(OptionArgs[i], arg)
  BY <1>2, FlattenContains
<1> QED
  BY <1>1, <1>4, <1>5 DEF FromTyped

\* The places of the finished list: three for the tool's own arguments, then the
\* user's in some order, then `-help`.
LEMMA PlacesInTheEnd ==
  ASSUME TypeOK, ClangArgsComplete, pc = "ready", run.buildPathExists
  PROVE  /\ Len(args_storage) \in Nat /\ DOMAIN args_storage = 1..Len(args_storage)
         /\ Len(args_storage) >= 3
         /\ args_storage[1] = AppName /\ args_storage[2] = BuildPath
         /\ args_storage[3] = DefaultFlags
         /\ \A i \in DOMAIN args_storage : i > 3 =>
              FromTyped(args_storage[i]) \/ args_storage[i] = HelpFlag
         /\ \A arg : FromTyped(arg) => \E i \in DOMAIN args_storage : i > 3 /\ args_storage[i] = arg
<1> DEFINE D == DefaultClangArgs(run.buildPathExists)
           U == FlattenSeq(OptionArgs)
           H == IF run.help THEN <<HelpFlag>> ELSE <<>>
<1>1. D \in Seq(ClangArg) /\ U \in Seq(ClangArg) /\ H \in Seq(ClangArg)
      /\ args_storage = (D \o U) \o H
  BY ExpectedParts DEF ClangArgsComplete
<1>2. Len(D) = 3 /\ D[1] = AppName /\ D[2] = BuildPath /\ D[3] = DefaultFlags
  BY DEF DefaultClangArgs
<1>3. Len(H) \in Nat /\ \A i \in 1..Len(H) : H[i] = HelpFlag
  <2>1. CASE run.help
    BY <2>1
  <2>2. CASE ~run.help
    BY <2>2
  <2> QED
    BY <2>1, <2>2
<1>4. \A arg : Contains(U, arg) <=> FromTyped(arg)
  BY UserArgsAre
<1> HIDE DEF D, U, H
<1>5. Len(U) \in Nat /\ \A arg : Contains(U, arg) <=> \E i \in 1..Len(U) : U[i] = arg
  BY <1>1, LenProperties DEF Contains
<1>6. /\ D \o U \in Seq(ClangArg)
      /\ Len(D \o U) = 3 + Len(U)
      /\ \A i \in 1..(3 + Len(U)) : (D \o U)[i] = IF i <= 3 THEN D[i] ELSE U[i - 3]
  <2>1. D \in Seq(ClangArg) /\ U \in Seq(ClangArg)
    BY <1>1
  <2>2. /\ D \o U \in Seq(ClangArg)
        /\ Len(D \o U) = Len(D) + Len(U)
        /\ \A i \in 1..(Len(D) + Len(U)) :
             (D \o U)[i] = IF i <= Len(D) THEN D[i] ELSE U[i - Len(D)]
    BY <2>1, ConcatProperties
  <2> QED
    BY <1>2, <2>2
<1>7. /\ DOMAIN args_storage = 1..Len(args_storage)
      /\ Len(args_storage) = 3 + Len(U) + Len(H)
      /\ \A i \in 1..(3 + Len(U) + Len(H)) :
           args_storage[i] = IF i <= 3 + Len(U) THEN (D \o U)[i] ELSE H[i - (3 + Len(U))]
  <2> DEFINE front == D \o U
  <2>1. front \in Seq(ClangArg) /\ H \in Seq(ClangArg) /\ args_storage = front \o H
        /\ Len(front) = 3 + Len(U)
    BY <1>1, <1>6
  <2> HIDE DEF front
  <2>2. /\ front \o H \in Seq(ClangArg)
        /\ Len(front \o H) = Len(front) + Len(H)
        /\ \A i \in 1..(Len(front) + Len(H)) :
             (front \o H)[i] = IF i <= Len(front) THEN front[i] ELSE H[i - Len(front)]
    BY <2>1, ConcatProperties
  <2>3. DOMAIN args_storage = 1..Len(args_storage)
    BY <2>1, <2>2, LenProperties
  <2> QED
    BY <2>1, <2>2, <2>3 DEF front
<1>8. ASSUME NEW i \in DOMAIN args_storage, i > 3
      PROVE  FromTyped(args_storage[i]) \/ args_storage[i] = HelpFlag
  <2>1. CASE i <= 3 + Len(U)
    <3>1. i - 3 \in 1..Len(U) /\ args_storage[i] = U[i - 3]
      BY <1>3, <1>5, <1>6, <1>7, <1>8, <2>1
    <3> QED
      BY <1>4, <1>5, <3>1
  <2>2. CASE ~(i <= 3 + Len(U))
    <3>1. i - (3 + Len(U)) \in 1..Len(H) /\ args_storage[i] = H[i - (3 + Len(U))]
      BY <1>3, <1>5, <1>7, <1>8, <2>2
    <3> QED
      BY <1>3, <3>1
  <2> QED
    BY <1>7, <1>5, <2>1, <2>2
<1>9. ASSUME NEW arg, FromTyped(arg)
      PROVE  \E i \in DOMAIN args_storage : i > 3 /\ args_storage[i] = arg
  <2>1. PICK k \in 1..Len(U) : U[k] = arg
    BY <1>4, <1>5, <1>9
  <2>2. /\ k + 3 \in 1..(3 + Len(U)) /\ k + 3 \in DOMAIN args_storage
        /\ k + 3 > 3 /\ (k + 3) - 3 = k
    BY <1>3, <1>5, <1>7
  <2>3. args_storage[k + 3] = arg
    BY <1>3, <1>5, <1>6, <1>7, <2>1, <2>2
  <2> QED
    BY <2>2, <2>3
<1>10. args_storage[1] = AppName /\ args_storage[2] = BuildPath /\ args_storage[3] = DefaultFlags
  BY <1>2, <1>3, <1>5, <1>6, <1>7
<1> QED
  BY <1>3, <1>5, <1>7, <1>8, <1>9, <1>10

-----------------------------------------------------------------------------
(* The interpreter's arguments.                                            *)

LEMMA DashedInit == Init => InterpreterArgsDashed
BY DEF Init, InterpreterArgsDashed

LEMMA DashedNext ==
  TypeOK /\ InterpreterArgsDashed /\ [Next]_vars => InterpreterArgsDashed'
<1> SUFFICES ASSUME TypeOK, InterpreterArgsDashed, [Next]_vars
             PROVE  InterpreterArgsDashed'
  OBVIOUS
<1>1. CASE AddDefaultClingArgs
  <2>1. \A i \in 2..Len(DefaultClingArgs) : DefaultClingArgs[i].text = <<Dash>>
    BY ToolArgsTyped
  <2>2. clingInterpreterArgs' = DefaultClingArgs
    BY <1>1 DEF AddDefaultClingArgs
  <2>3. <<Dash>> # <<>> /\ <<Dash>>[1] = Dash
    OBVIOUS
  <2> QED
    BY <2>1, <2>2, <2>3 DEF InterpreterArgsDashed
<1>2. CASE FilterClingArg
  <2> DEFINE arg == cling_extra_args[fwd]
             new == [from |-> "user", text |-> arg]
  <2>1. arg \in Seq(Char)
    BY <1>2, ElementOfSeq DEF FilterClingArg, TypeOK
  <2>2. new \in ClingArg /\ clingInterpreterArgs \in Seq(ClingArg)
    BY <2>1 DEF ClingArg, TypeOK
  <2>3. CASE arg # <<>> /\ Head(arg) = Dash
    <3>1. clingInterpreterArgs' = Append(clingInterpreterArgs, new)
      BY <1>2, <2>3 DEF FilterClingArg
    <3>2. new.text # <<>> /\ new.text[1] = Dash
      BY <2>1, <2>3
    <3>3. ASSUME NEW i \in 2..Len(clingInterpreterArgs')
          PROVE  clingInterpreterArgs'[i].text # <<>> /\ clingInterpreterArgs'[i].text[1] = Dash
      <4>1. CASE i \in 2..Len(clingInterpreterArgs)
        BY <4>1, <3>1, <2>2 DEF InterpreterArgsDashed
      <4>2. CASE i = Len(clingInterpreterArgs) + 1
        <5>1. clingInterpreterArgs'[i] = new
          BY <4>2, <3>1, <2>2
        <5> QED
          BY <5>1, <3>2
      <4> QED
        BY <4>1, <4>2, <3>1, <2>2
    <3> QED
      BY <3>3 DEF InterpreterArgsDashed
  <2>4. CASE ~(arg # <<>> /\ Head(arg) = Dash)
    BY <1>2, <2>4 DEF FilterClingArg, InterpreterArgsDashed
  <2> QED
    BY <2>3, <2>4
<1>3. CASE UNCHANGED clingInterpreterArgs
  BY <1>3 DEF InterpreterArgsDashed
<1> QED
  BY <1>1, <1>2, <1>3
     DEF Next, Step, Finished, vars, AddDefaultClangArgs, ExePathUnknown, NextOption,
         EmptyArgument, OverrunByDash, RefuseValue, ForwardValue, FinishClangArgs, FinishClingArgs

\* Whatever is typed, the interpreter is only ever created with arguments that
\* start with a dash.
THEOREM InterpreterDashed == Spec => []InterpreterArgsDashed
BY TypeOKInit, TypeOKNext, DashedInit, DashedNext, PTL DEF Spec

-----------------------------------------------------------------------------
(* The correspondence of the two lists.  It is inductive once one knows    *)
(* that both are empty when add_default_clang_args fills the first.        *)

Untouched ==
  pc = "clang_defaults" => args_storage = <<>> /\ cling_extra_args = <<>>

MirrorInv == TypeOK /\ Untouched /\ ClingMirrorsClang

\* A clang argument that is not pipelined leaves the matching alone.
LEMMA MirrorAppendClang ==
  ASSUME TypeOK, ClingMirrorsClang, NEW a, ~SharedWithCling(a), UNCHANGED run,
         args_storage' = Append(args_storage, a), UNCHANGED cling_extra_args
  PROVE  ClingMirrorsClang'
<1>1. args_storage \in Seq(ClangArg) /\ cling_extra_args \in Seq(Seq(Char))
  BY DEF TypeOK
<1>2. PICK of \in [DOMAIN cling_extra_args -> DOMAIN args_storage] :
        /\ \A j, k \in DOMAIN cling_extra_args : j < k => of[j] < of[k]
        /\ \A j \in DOMAIN cling_extra_args :
             /\ SharedWithCling(args_storage[of[j]])
             /\ cling_extra_args[j] = AsClingArg(args_storage[of[j]])
        /\ \A i \in DOMAIN args_storage :
             SharedWithCling(args_storage[i]) => \E j \in DOMAIN cling_extra_args : of[j] = i
  BY DEF ClingMirrorsClang
<1>3. /\ DOMAIN args_storage' = DOMAIN args_storage \cup {Len(args_storage) + 1}
      /\ \A i \in DOMAIN args_storage : args_storage'[i] = args_storage[i]
      /\ args_storage'[Len(args_storage) + 1] = a
  BY <1>1
<1>4. of \in [DOMAIN cling_extra_args' -> DOMAIN args_storage']
  BY <1>2, <1>3
<1>5. \A b : SharedWithCling(b)' <=> SharedWithCling(b)
  BY DEF SharedWithCling
<1>6. \A j \in DOMAIN cling_extra_args' :
        /\ SharedWithCling(args_storage'[of[j]])
        /\ cling_extra_args'[j] = AsClingArg(args_storage'[of[j]])
  BY <1>2, <1>3
<1>7. \A i \in DOMAIN args_storage' :
        SharedWithCling(args_storage'[i]) => \E j \in DOMAIN cling_extra_args' : of[j] = i
  BY <1>2, <1>3
<1>8. \A j, k \in DOMAIN cling_extra_args' : j < k => of[j] < of[k]
  BY <1>2
<1> QED
  BY <1>4, <1>5, <1>6, <1>7, <1>8 DEF ClingMirrorsClang, SharedWithCling

\* A pipelined argument extends the matching by the pair of last elements.
LEMMA MirrorAppendBoth ==
  ASSUME TypeOK, ClingMirrorsClang, NEW a, SharedWithCling(a), UNCHANGED run,
         args_storage' = Append(args_storage, a),
         cling_extra_args' = Append(cling_extra_args, AsClingArg(a))
  PROVE  ClingMirrorsClang'
<1> DEFINE n == Len(cling_extra_args)
           m == Len(args_storage)
<1>1. /\ args_storage \in Seq(ClangArg) /\ cling_extra_args \in Seq(Seq(Char))
      /\ n \in Nat /\ m \in Nat
      /\ DOMAIN cling_extra_args = 1..n /\ DOMAIN args_storage = 1..m
  BY DEF TypeOK
<1>2. PICK of \in [DOMAIN cling_extra_args -> DOMAIN args_storage] :
        /\ \A j, k \in DOMAIN cling_extra_args : j < k => of[j] < of[k]
        /\ \A j \in DOMAIN cling_extra_args :
             /\ SharedWithCling(args_storage[of[j]])
             /\ cling_extra_args[j] = AsClingArg(args_storage[of[j]])
        /\ \A i \in DOMAIN args_storage :
             SharedWithCling(args_storage[i]) => \E j \in DOMAIN cling_extra_args : of[j] = i
  BY DEF ClingMirrorsClang
<1>3. /\ DOMAIN args_storage' = 1..(m + 1)
      /\ \A i \in 1..m : args_storage'[i] = args_storage[i]
      /\ args_storage'[m + 1] = a
  BY <1>1
<1>4. /\ DOMAIN cling_extra_args' = 1..(n + 1)
      /\ \A j \in 1..n : cling_extra_args'[j] = cling_extra_args[j]
      /\ cling_extra_args'[n + 1] = AsClingArg(a)
  BY <1>1
<1> DEFINE to == [j \in 1..(n + 1) |-> IF j = n + 1 THEN m + 1 ELSE of[j]]
<1>5. \A j \in 1..n : to[j] = of[j] /\ to[j] \in 1..m
  BY <1>1, <1>2
<1>6. to[n + 1] = m + 1
  BY <1>1
<1>7. \A j \in 1..(n + 1) : j \in 1..n \/ j = n + 1
  BY <1>1
<1>8. \A i \in 1..(m + 1) : i \in 1..m \/ i = m + 1
  BY <1>1
<1>9. to \in [DOMAIN cling_extra_args' -> DOMAIN args_storage']
  <2>1. \A j \in 1..(n + 1) : to[j] \in 1..(m + 1)
    BY <1>1, <1>5, <1>6, <1>7
  <2> QED
    BY <2>1, <1>3, <1>4
<1>10. \A b : SharedWithCling(b)' <=> SharedWithCling(b)
  BY DEF SharedWithCling
<1>11. \A j, k \in DOMAIN cling_extra_args' : j < k => to[j] < to[k]
  <2> SUFFICES ASSUME NEW j \in 1..(n + 1), NEW k \in 1..(n + 1), j < k
               PROVE  to[j] < to[k]
    BY <1>4
  <2>1. j \in 1..n
    BY <1>1
  <2>2. CASE k \in 1..n
    BY <2>1, <2>2, <1>1, <1>2, <1>5
  <2>3. CASE k = n + 1
    <3>1. of[j] \in 1..m /\ to[j] = of[j]
      BY <2>1, <1>5
    <3>2. to[k] = m + 1
      BY <2>3, <1>6
    <3> HIDE DEF to
    <3> QED
      BY <3>1, <3>2, <1>1
  <2> QED
    BY <2>2, <2>3, <1>7
<1>12. ASSUME NEW j \in DOMAIN cling_extra_args'
       PROVE  /\ SharedWithCling(args_storage'[to[j]])
              /\ cling_extra_args'[j] = AsClingArg(args_storage'[to[j]])
  <2> HIDE DEF to
  <2>1. CASE j \in 1..n
    <3>1. to[j] = of[j] /\ of[j] \in 1..m
      BY <2>1, <1>5
    <3>2. args_storage'[to[j]] = args_storage[of[j]]
      BY <3>1, <1>3
    <3> QED
      BY <2>1, <3>2, <1>1, <1>2, <1>4
  <2>2. CASE j = n + 1
    BY <2>2, <1>3, <1>4, <1>6
  <2> QED
    BY <2>1, <2>2, <1>4, <1>7
<1>13. ASSUME NEW i \in DOMAIN args_storage', SharedWithCling(args_storage'[i])
       PROVE  \E j \in DOMAIN cling_extra_args' : to[j] = i
  <2> HIDE DEF to
  <2>1. CASE i \in 1..m
    <3>1. PICK j \in 1..n : of[j] = i
      BY <2>1, <1>1, <1>2, <1>3, <1>13
    <3>2. j \in 1..(n + 1)
      BY <1>1
    <3> QED
      BY <3>1, <3>2, <1>4, <1>5
  <2>2. CASE i = m + 1
    <3>1. n + 1 \in 1..(n + 1)
      BY <1>1
    <3> QED
      BY <2>2, <3>1, <1>4, <1>6
  <2> QED
    BY <2>1, <2>2, <1>3, <1>8
<1> HIDE DEF to
<1> QED
  BY <1>9, <1>10, <1>11, <1>12, <1>13 DEF ClingMirrorsClang, SharedWithCling

LEMMA MirrorInit == Init => MirrorInv
<1> SUFFICES ASSUME Init PROVE MirrorInv
  OBVIOUS
<1>1. args_storage = <<>> /\ cling_extra_args = <<>>
  BY DEF Init
<1>2. DOMAIN args_storage = {} /\ DOMAIN cling_extra_args = {}
  BY <1>1
<1>3. [j \in {} |-> 0] \in [DOMAIN cling_extra_args -> DOMAIN args_storage]
  BY <1>2
<1>4. ClingMirrorsClang
  BY <1>2, <1>3 DEF ClingMirrorsClang
<1> QED
  BY <1>1, <1>4, TypeOKInit DEF MirrorInv, Untouched

LEMMA MirrorNext == MirrorInv /\ [Next]_vars => MirrorInv'
<1> SUFFICES ASSUME MirrorInv, [Next]_vars PROVE MirrorInv'
  OBVIOUS
<1> USE DEF MirrorInv
<1>1. TypeOK'
  BY TypeOKNext
<1>2. CASE AddDefaultClangArgs
  <2>1. /\ cling_extra_args' = <<>>
        /\ args_storage' = DefaultClangArgs(run.buildPathExists)
        /\ pc' # "clang_defaults"
    BY <1>2 DEF AddDefaultClangArgs, Untouched
  <2>2. \A i \in DOMAIN args_storage' : args_storage'[i].from = "tool"
    BY <2>1, ToolArgsTyped DEF TypeOK, Run
  <2>3. \A i \in DOMAIN args_storage' : ~(args_storage'[i].from = "user")
    BY <2>2
  <2>4. DOMAIN cling_extra_args' = {}
    BY <2>1
  <2>5. [j \in {} |-> 0] \in [DOMAIN cling_extra_args' -> DOMAIN args_storage']
    BY <2>4
  <2>6. ClingMirrorsClang'
    BY <2>3, <2>4, <2>5 DEF ClingMirrorsClang, SharedWithCling
  <2> QED
    BY <1>1, <2>1, <2>6 DEF Untouched
<1>3. CASE ForwardValue
  <2> DEFINE a == ForClang(Key, Current)
  <2>1. /\ pc' # "clang_defaults" /\ UNCHANGED run
        /\ args_storage' = Append(args_storage, a)
    BY <1>3 DEF ForwardValue, InValues, InOptions, PipelineToCling, Abort
  <2>2. SharedWithCling(a) <=> run.cling /\ Pipelined(Current)
    BY DEF SharedWithCling, ForClang, Pipelined, HasExtraArgPrefix
  <2>3. CASE run.cling /\ Pipelined(Current)
    <3>1. Current \in Text
      BY <1>3, CurrentTyped DEF ForwardValue
    <3>2. Len(Current.tail) \in Nat
      BY <3>1 DEF Text
    <3>3. cling_extra_args' = Append(cling_extra_args, ForCling(Key, Current))
      BY <1>3, <2>3, <3>2 DEF ForwardValue, PipelineToCling, Pipelined, NothingLeft
    <3>4. AsClingArg(a) = ForCling(Key, Current)
      BY DEF AsClingArg, ForClang, ForCling, WithoutPrefix
    <3> QED
      BY <1>1, <2>1, <2>2, <2>3, <3>3, <3>4, MirrorAppendBoth DEF Untouched
  <2>4. CASE ~(run.cling /\ Pipelined(Current))
    <3>1. UNCHANGED cling_extra_args
      BY <1>3, <2>4 DEF ForwardValue, PipelineToCling
    <3> QED
      BY <1>1, <2>1, <2>2, <2>4, <3>1, MirrorAppendClang DEF Untouched
  <2> QED
    BY <2>3, <2>4
<1>4. CASE FinishClangArgs
  <2>1. ~SharedWithCling(HelpFlag)
    BY DEF SharedWithCling, HelpFlag
  <2>2. pc' # "clang_defaults" /\ UNCHANGED <<run, cling_extra_args>>
    BY <1>4 DEF FinishClangArgs
  <2>3. CASE run.help
    BY <1>1, <1>4, <2>1, <2>2, <2>3, MirrorAppendClang DEF FinishClangArgs, Untouched
  <2>4. CASE ~run.help
    BY <1>1, <1>4, <2>2, <2>4 DEF FinishClangArgs, Untouched, ClingMirrorsClang, SharedWithCling
  <2> QED
    BY <2>3, <2>4
<1>5. CASE /\ UNCHANGED <<run, args_storage, cling_extra_args>>
           /\ pc' = "clang_defaults" => pc = "clang_defaults"
  BY <1>1, <1>5 DEF Untouched, ClingMirrorsClang, SharedWithCling
<1>6. CASE ExePathUnknown
  BY <1>5, <1>6 DEF ExePathUnknown, Abort
<1>7. CASE NextOption \/ RefuseValue
  BY <1>5, <1>7 DEF NextOption, RefuseValue
<1>8. CASE EmptyArgument \/ OverrunByDash
  BY <1>5, <1>8 DEF EmptyArgument, OverrunByDash, Abort
<1>9. CASE AddDefaultClingArgs
  BY <1>5, <1>9 DEF AddDefaultClingArgs, Abort
<1>10. CASE FilterClingArg
  BY <1>5, <1>10 DEF FilterClingArg, Abort
<1>11. CASE FinishClingArgs \/ UNCHANGED vars
  BY <1>5, <1>11 DEF FinishClingArgs, vars
<1> QED
  BY <1>2, <1>3, <1>4, <1>6, <1>7, <1>8, <1>9, <1>10, <1>11 DEF Next, Step, Finished

\* At every moment Cling's extra arguments are, in order and one for one, made
\* from the clang arguments with the extra-arg prefix.
THEOREM ClingMirrors == Spec => []ClingMirrorsClang
<1>1. MirrorInv => ClingMirrorsClang
  BY DEF MirrorInv
<1> QED
  BY <1>1, MirrorInit, MirrorNext, PTL DEF Spec

-----------------------------------------------------------------------------
(* From the command line to the interpreter.  The loop of                  *)
(* ScopedClingEnvironment::init has kept every dashed argument it passed,  *)
(* and has passed them all when the interpreter is created.                *)

Kept(k) ==
  cling_extra_args[k] # <<>> /\ Head(cling_extra_args[k]) = Dash =>
    \E j \in DOMAIN clingInterpreterArgs :
      clingInterpreterArgs[j] = [from |-> "user", text |-> cling_extra_args[k]]

FilterInv ==
  /\ pc \in {"clang_defaults", "forward", "cling_defaults"} => fwd = 1
  /\ pc = "cling_filter" => fwd <= Len(cling_extra_args) + 1
  /\ pc \in {"cling_filter", "ready"} =>
       \A k \in DOMAIN cling_extra_args : k < fwd => Kept(k)
  /\ pc = "ready" /\ run.cling => fwd > Len(cling_extra_args)

LEMMA FilterInit == Init => FilterInv
BY DEF Init, FilterInv

LEMMA FilterNext == TypeOK /\ FilterInv /\ [Next]_vars => FilterInv'
<1> SUFFICES ASSUME TypeOK, FilterInv, [Next]_vars PROVE FilterInv'
  OBVIOUS
<1>1. CASE FilterClingArg
  <2> DEFINE arg == cling_extra_args[fwd]
             new == [from |-> "user", text |-> arg]
  <2>1. /\ UNCHANGED <<run, cling_extra_args>>
        /\ pc = "cling_filter" /\ fwd \in DOMAIN cling_extra_args
    BY <1>1 DEF FilterClingArg, TypeOK
  <2>2. clingInterpreterArgs \in Seq(ClingArg) /\ fwd \in Nat
    BY DEF TypeOK
  <2>3. CASE UNCHANGED fwd
    <3>1. pc' = "aborted"
      BY <1>1, <2>2, <2>3 DEF FilterClingArg, Abort
    <3> QED
      BY <3>1 DEF FilterInv
  <2>4. CASE fwd' = fwd + 1 /\ UNCHANGED pc
    <3>1. \A k \in DOMAIN cling_extra_args : k < fwd' => k < fwd \/ k = fwd
      BY <2>2, <2>4 DEF TypeOK
    <3>2. CASE arg # <<>> /\ Head(arg) = Dash
      <4>1. clingInterpreterArgs' = Append(clingInterpreterArgs, new)
        BY <1>1, <3>2 DEF FilterClingArg
      <4>2. /\ \A j \in DOMAIN clingInterpreterArgs :
                 /\ j \in DOMAIN clingInterpreterArgs'
                 /\ clingInterpreterArgs'[j] = clingInterpreterArgs[j]
            /\ Len(clingInterpreterArgs) + 1 \in DOMAIN clingInterpreterArgs'
            /\ clingInterpreterArgs'[Len(clingInterpreterArgs) + 1] = new
        BY <4>1, <2>2
      <4>3. \A k \in DOMAIN cling_extra_args : Kept(k) => Kept(k)'
        BY <2>1, <4>2 DEF Kept
      <4>4. \A k : k = fwd => Kept(k)'
        BY <2>1, <4>2 DEF Kept
      <4> QED
        BY <2>1, <2>4, <3>1, <4>3, <4>4 DEF FilterInv
    <3>3. CASE ~(arg # <<>> /\ Head(arg) = Dash)
      <4>1. UNCHANGED clingInterpreterArgs
        BY <1>1, <3>3 DEF FilterClingArg
      <4>2. \A k : k = fwd => Kept(k)'
        BY <2>1, <3>3 DEF Kept
      <4>3. \A k : Kept(k) => Kept(k)'
        BY <2>1, <4>1 DEF Kept
      <4> QED
        BY <2>1, <2>4, <3>1, <4>2, <4>3 DEF FilterInv
    <3> QED
      BY <3>2, <3>3
  <2> QED
    BY <1>1, <2>3, <2>4 DEF FilterClingArg
<1>2. CASE AddDefaultClingArgs
  <2>1. fwd' = 1 /\ pc' \in {"cling_filter", "aborted"} /\ UNCHANGED cling_extra_args
    BY <1>2 DEF AddDefaultClingArgs, Abort, FilterInv
  <2>2. \A k \in DOMAIN cling_extra_args : ~(k < 1)
    BY DEF TypeOK
  <2> QED
    BY <2>1, <2>2 DEF FilterInv
<1>3. CASE FinishClangArgs
  <2>1. fwd' = 1 /\ UNCHANGED <<run, cling_extra_args>>
    BY <1>3 DEF FinishClangArgs, FilterInv
  <2>2. \A k \in DOMAIN cling_extra_args : ~(k < 1)
    BY DEF TypeOK
  <2> QED
    BY <1>3, <2>1, <2>2 DEF FinishClangArgs, FilterInv
<1>4. CASE FinishClingArgs
  BY <1>4 DEF FinishClingArgs, FilterInv, Kept
<1>5. CASE ForwardValue
  BY <1>5 DEF ForwardValue, PipelineToCling, Abort, InValues, InOptions, FilterInv
<1>6. CASE EmptyArgument \/ OverrunByDash
  BY <1>6 DEF EmptyArgument, OverrunByDash, Abort, InValues, InOptions, FilterInv
<1>7. CASE NextOption \/ RefuseValue
  BY <1>7 DEF NextOption, RefuseValue, InValues, InOptions, FilterInv
<1>8. CASE AddDefaultClangArgs \/ ExePathUnknown
  BY <1>8 DEF AddDefaultClangArgs, ExePathUnknown, Abort, FilterInv
<1>9. CASE UNCHANGED vars
  BY <1>9 DEF vars, FilterInv, Kept
<1> QED
  BY <1>1, <1>2, <1>3, <1>4, <1>5, <1>6, <1>7, <1>8, <1>9 DEF Next, Step, Finished

LEMMA FlagsFollow == MirrorInv /\ FilterInv => FlagsReachInterpreter
<1> SUFFICES ASSUME MirrorInv, FilterInv, pc = "ready",
                    NEW i \in DOMAIN args_storage,
                    SharedWithCling(args_storage[i]), args_storage[i].dash,
                    args_storage[i].text.tail[1] = Dash
             PROVE  \E j \in DOMAIN clingInterpreterArgs :
                      clingInterpreterArgs[j] =
                        [from |-> "user", text |-> args_storage[i].text.tail]
  BY DEF FlagsReachInterpreter
<1> DEFINE tail == args_storage[i].text.tail
<1>1. args_storage[i].text \in Text /\ Pipelined(args_storage[i].text) /\ run.cling
  <2>1. args_storage \in Seq(ClangArg)
    BY DEF MirrorInv, TypeOK
  <2>2. args_storage[i] \in ClangArg
    BY <2>1
  <2> QED
    BY <2>2 DEF ClangArg, SharedWithCling, Pipelined, HasExtraArgPrefix
<1>2. PICK k \in DOMAIN cling_extra_args :
        cling_extra_args[k] = AsClingArg(args_storage[i])
  BY DEF MirrorInv, ClingMirrorsClang
<1>3. AsClingArg(args_storage[i]) = tail
  BY <1>1, FlagRestored DEF AsClingArg, ForCling, WithoutPrefix, ExtraArg, NoKey
<1>4. tail # <<>> /\ Head(tail) = Dash
  BY <1>1 DEF Text, Pipelined
<1>5. k < fwd
  BY <1>1 DEF FilterInv, MirrorInv, TypeOK
<1>6. Kept(k)
  BY <1>5 DEF FilterInv
<1> QED
  BY <1>2, <1>3, <1>4, <1>6 DEF Kept

\* Every `--extra-arg=-flag` that clang gets is an argument of the interpreter,
\* letter for letter, although two functions take it apart and rebuild it.
THEOREM FlagsReach == Spec => []FlagsReachInterpreter
<1>1. MirrorInv => TypeOK
  BY DEF MirrorInv
<1> QED
  BY <1>1, MirrorInit, MirrorNext, FilterInit, FilterNext, FlagsFollow, PTL DEF Spec

=============================================================================
