---------------------- MODULE ArgForwardingAbortProofs ----------------------
(***************************************************************************)
(* Which command lines the fatal checks end: a proof, for every alphabet,  *)
(* every set of command lines and every disk, that FatalCommandLine, which *)
(* looks at the options alone, tells the runs that abort from those that   *)
(* come through.                                                           *)
(***************************************************************************)
EXTENDS ArgForwardingProofs

USE DEF Acceptable

-----------------------------------------------------------------------------
(* The offers by position, and those the two loops have behind them.       *)

IsOffered(i, j) ==
  /\ i \in DOMAIN run.commandLine
  /\ run.commandLine[i].key # DashedExtraArg
  /\ j \in DOMAIN run.commandLine[i].values

Offer(i, j) ==
  [key |-> run.commandLine[i].key,
   text |-> Combined(run.commandLine[i].key, run.commandLine[i].values[j])]

Behind(i, j) == IsOffered(i, j) /\ (i < opt \/ (i = opt /\ j < val))

Passes(o) == Acceptable(o.text)

\* An offer that ends the run in the loop, and one that leaves the pipeline.
Fatal(o) ==
  \/ run.dcheck /\ IsEmpty(o.text)
  \/ PrefixTooLong(o.text)
  \/ run.cling /\ Passes(o) /\ NothingLeft(o.text)
Piped(o) == run.cling /\ Passes(o) /\ Pipelined(o.text)

LEMMA OfferedByPosition ==
  \A o : o \in Offered <=> \E i, j : IsOffered(i, j) /\ o = Offer(i, j)
BY DEF Offered, IsOffered, Offer

LEMMA AcceptedByPosition ==
  \A o : o \in Accepted <=> \E i, j : IsOffered(i, j) /\ o = Offer(i, j) /\ Passes(o)
BY OfferedByPosition DEF Accepted, Passes

\* The offer at hand is the one at the loops' indices; the step past it adds
\* just that one to those behind.
LEMMA AtHand ==
  ASSUME TypeOK, InValues
  PROVE  IsOffered(opt, val) /\ Offer(opt, val) = [key |-> Key, text |-> Current]
<1>1. /\ Len(run.commandLine) \in Nat
      /\ DOMAIN run.commandLine = 1..Len(run.commandLine)
  BY LineTyped, LenProperties
<1>2. opt \in DOMAIN run.commandLine
  BY <1>1 DEF InValues, InOptions, TypeOK
<1>3. Values \in Seq(Text)
  BY <1>2, LineTyped DEF Values
<1>4. Len(Values) \in Nat /\ DOMAIN Values = 1..Len(Values)
  BY <1>3, LenProperties
<1>5. val \in DOMAIN Values
  BY <1>4 DEF InValues, ValuesUsedUp, TypeOK
<1> QED
  BY <1>2, <1>5 DEF InValues, IsOffered, Offer, Key, Values, Current

LEMMA PastOffer ==
  ASSUME TypeOK, InValues, UNCHANGED <<run, opt>>, val' = val + 1
  PROVE  \A i, j : Behind(i, j)' <=> Behind(i, j) \/ (i = opt /\ j = val)
<1> SUFFICES ASSUME NEW i, NEW j
             PROVE  Behind(i, j)' <=> Behind(i, j) \/ (i = opt /\ j = val)
  OBVIOUS
<1>1. IsOffered(i, j)' <=> IsOffered(i, j)
  BY DEF IsOffered
<1>2. IsOffered(opt, val)
  BY AtHand
<1>3. IsOffered(i, j) => i \in Nat /\ j \in Nat
  BY LineTyped, LenProperties DEF IsOffered
<1>4. opt \in Nat /\ val \in Nat
  BY DEF TypeOK
<1>5. IsOffered(i, j) => (i = opt /\ j < val + 1 <=> i = opt /\ (j < val \/ j = val))
  BY <1>3, <1>4
<1> QED
  BY <1>1, <1>2, <1>5 DEF Behind

LEMMA PastOption ==
  ASSUME TypeOK, NextOption
  PROVE  \A i, j : Behind(i, j)' <=> Behind(i, j)
<1> SUFFICES ASSUME NEW i, NEW j
             PROVE  Behind(i, j)' <=> Behind(i, j)
  OBVIOUS
<1>1. IsOffered(i, j)' <=> IsOffered(i, j)
  BY DEF IsOffered, NextOption
<1>2. IsOffered(i, j) => i \in Nat /\ j \in Nat /\ j >= 1
  BY LineTyped, LenProperties DEF IsOffered
<1>3. opt \in Nat /\ val \in Nat /\ opt' = opt + 1 /\ val' = 1
  BY DEF TypeOK, NextOption, First
<1>4. ASSUME IsOffered(i, j), i = opt PROVE j < val
  <2>1. ValuesUsedUp
    BY <1>4 DEF NextOption, IsOffered, Key
  <2>2. Values \in Seq(Text) /\ j \in DOMAIN Values
    BY <1>4, LineTyped DEF IsOffered, Values
  <2>3. Len(Values) \in Nat /\ DOMAIN Values = 1..Len(Values)
    BY <2>2, LenProperties
  <2> QED
    BY <1>3, <2>1, <2>2, <2>3 DEF ValuesUsedUp
<1>5. IsOffered(i, j) => (i < opt + 1 <=> i < opt \/ i = opt)
  BY <1>2, <1>3
<1>6. ~(IsOffered(i, j) /\ j < 1)
  BY <1>2
<1> QED
  BY <1>1, <1>3, <1>4, <1>5, <1>6 DEF Behind

\* At the end of the command line all offers are behind.
LEMMA AllBehind ==
  ASSUME TypeOK, opt > Len(run.commandLine)
  PROVE  \A i, j : IsOffered(i, j) <=> Behind(i, j)
<1> SUFFICES ASSUME NEW i, NEW j, IsOffered(i, j) PROVE i < opt
  BY DEF Behind
<1>1. i \in 1..Len(run.commandLine) /\ Len(run.commandLine) \in Nat
  BY LineTyped, LenProperties DEF IsOffered
<1> QED
  BY <1>1 DEF TypeOK

LEMMA OfferTyped ==
  ASSUME TypeOK, NEW i, NEW j, IsOffered(i, j)
  PROVE  Offer(i, j).key \in Heads /\ Offer(i, j).text \in Text
<1>1. run.commandLine[i] \in Option
  BY LineTyped, ElementOfSeq, LenProperties DEF IsOffered
<1>2. run.commandLine[i].key \in Heads /\ run.commandLine[i].values \in Seq(Text)
  BY <1>1 DEF Option
<1>3. run.commandLine[i].values[j] \in Text
  BY <1>2, ElementOfSeq, LenProperties DEF IsOffered
<1>4. \A key \in Heads, value \in Text : Combined(key, value) \in Text
  BY DEF Combined, Text
<1> QED
  BY <1>2, <1>3, <1>4 DEF Offer

\* The filter of ScopedClingEnvironment::init sees whether there was a key.
LEMMA DashedByKey ==
  ASSUME NEW key, NEW text \in Text, Pipelined(text)
  PROVE  HasClingPrefix(ForCling(key, text)) <=> key # NoKey
<1> DEFINE rest == Tail(text.tail)
<1>1. text.tail \in Seq(Char) /\ Len(text.tail) >= 2 /\ text.tail[2] # Dash
  BY DEF Pipelined, Text
<1>2. /\ rest \in Seq(Char) /\ Len(rest) = Len(text.tail) - 1
      /\ rest[1] = text.tail[2]
  <2>1. Len(text.tail) \in Nat /\ text.tail # <<>>
    BY <1>1, LenProperties
  <2> QED
    BY <1>1, <2>1, HeadTailProperties
<1> HIDE DEF rest
<1>3. Len(rest) >= 1 /\ rest # <<>> /\ Head(rest) = rest[1]
  <2>1. Len(text.tail) \in Nat
    BY <1>1, LenProperties
  <2>2. Len(rest) >= 1
    BY <1>1, <1>2, <2>1
  <2>3. rest # <<>>
    BY <1>2, <2>2, EmptySeq
  <2> QED
    BY <1>2, <2>2, <2>3, HeadTailProperties
<1>4. CASE key = NoKey
  <2>1. ForCling(key, text) = <<>> \o rest
    BY <1>4 DEF ForCling, WithoutPrefix, rest
  <2>2. <<>> \o rest = rest
    BY <1>2, ConcatEmptySeq
  <2> QED
    BY <1>1, <1>2, <1>3, <1>4, <2>1, <2>2 DEF HasClingPrefix
<1>5. CASE key # NoKey
  <2>1. ForCling(key, text) = <<Dash>> \o rest
    BY <1>5 DEF ForCling, WithoutPrefix, rest
  <2>2. <<Dash>> \in Seq(Char) /\ Len(<<Dash>>) = 1 /\ <<Dash>>[1] = Dash
    BY DashIsChar
  <2>3. /\ Len(<<Dash>> \o rest) = 1 + Len(rest)
        /\ (<<Dash>> \o rest)[1] = Dash
        /\ <<Dash>> \o rest \in Seq(Char)
    <3>1. 1 \in 1..(Len(<<Dash>>) + Len(rest))
      BY <1>2, <1>3, <2>2, LenProperties
    <3> QED
      BY <1>2, <2>2, <3>1, ConcatProperties
  <2>4. <<Dash>> \o rest # <<>> /\ Head(<<Dash>> \o rest) = Dash
    BY <1>2, <1>3, <2>3, LenProperties
  <2> QED
    BY <1>5, <2>1, <2>4 DEF HasClingPrefix
<1> QED
  BY <1>4, <1>5

-----------------------------------------------------------------------------
(* While the loops run, nothing behind them is fatal, and Cling's extra    *)
(* arguments are those of what is behind; the later checks look at these.  *)

Extra(o) == ForCling(o.key, o.text)

AbortInv ==
  /\ pc \in {"cling_defaults", "cling_filter"} => run.cling
  /\ pc \in {"cling_defaults", "cling_filter", "ready"} => opt > Len(run.commandLine)
  /\ pc \in {"clang_defaults", "forward", "cling_defaults"} => fwd = 1
  /\ pc \notin {"failed", "aborted"} => \A i, j : Behind(i, j) => ~Fatal(Offer(i, j))
  /\ pc \notin {"failed", "aborted"} =>
       \A k \in DOMAIN cling_extra_args :
         \E i, j : /\ Behind(i, j) /\ Piped(Offer(i, j))
                   /\ cling_extra_args[k] = Extra(Offer(i, j))
  /\ pc \notin {"failed", "aborted"} =>
       \A i, j : Behind(i, j) /\ Piped(Offer(i, j)) =>
         \E k \in DOMAIN cling_extra_args : cling_extra_args[k] = Extra(Offer(i, j))
  /\ pc \in {"cling_filter", "ready"} /\ run.cling /\ run.dcheck =>
       /\ cling_extra_args # <<>>
       /\ \A k \in DOMAIN cling_extra_args : k < fwd => HasClingPrefix(cling_extra_args[k])
  /\ pc = "ready" /\ run.cling => fwd > Len(cling_extra_args)
  /\ pc = "aborted" /\ cause # "exe_path_unknown" => FatalCommandLine

LEMMA AbortInit == Init => AbortInv
<1> SUFFICES ASSUME Init PROVE AbortInv
  OBVIOUS
<1>1. \A i, j : ~Behind(i, j)
  <2> SUFFICES ASSUME NEW i, NEW j, IsOffered(i, j) PROVE ~(i < 1 \/ (i = 1 /\ j < 1))
    BY DEF Behind, Init, First
  <2>1. i \in Nat /\ i >= 1 /\ j \in Nat /\ j >= 1
    BY TypeOKInit, LineTyped, LenProperties DEF IsOffered
  <2> QED
    BY <2>1
<1> QED
  BY <1>1 DEF Init, AbortInv, First

\* What depends on the command line and the build alone does not change.
LEMMA InputsStay ==
  ASSUME UNCHANGED run
  PROVE  /\ \A i, j : (IsOffered(i, j)' <=> IsOffered(i, j)) /\ Offer(i, j)' = Offer(i, j)
         /\ \A o : /\ Passes(o)' <=> Passes(o)
                   /\ Fatal(o)' <=> Fatal(o)
                   /\ Piped(o)' <=> Piped(o)
         /\ FatalCommandLine' <=> FatalCommandLine
<1>1. /\ \A i, j : (IsOffered(i, j)' <=> IsOffered(i, j)) /\ Offer(i, j)' = Offer(i, j)
      /\ \A o : Passes(o)' <=> Passes(o)
  BY DEF IsOffered, Offer, Passes, isAllowedClangArgument
<1>2. \A o : (Fatal(o)' <=> Fatal(o)) /\ (Piped(o)' <=> Piped(o))
  BY <1>1 DEF Fatal, Piped, PrefixTooLong
<1>3. Offered' = Offered
  BY DEF Offered
<1>4. Accepted' = Accepted
  BY <1>3 DEF Accepted, isAllowedClangArgument
<1> QED
  BY <1>1, <1>2, <1>3, <1>4 DEF FatalCommandLine

\* An iteration that hands nothing on adds nothing to what is piped.
LEMMA PastHarmless ==
  ASSUME TypeOK, AbortInv, InValues, pc = "forward",
         UNCHANGED <<run, opt, pc, cling_extra_args, fwd>>, val' = val + 1,
         ~Fatal(Offer(opt, val)), ~Piped(Offer(opt, val))
  PROVE  AbortInv'
<1>1. \A i, j : Behind(i, j)' <=> Behind(i, j) \/ (i = opt /\ j = val)
  BY PastOffer
<1>2. /\ \A i, j : Offer(i, j)' = Offer(i, j)
      /\ \A o : (Fatal(o)' <=> Fatal(o)) /\ (Piped(o)' <=> Piped(o))
  BY InputsStay
<1>3. \A i, j : Fatal(Offer(i, j))' <=> Fatal(Offer(i, j))
  BY DEF Fatal, PrefixTooLong, Offer, Passes, isAllowedClangArgument
<1>4. \A i, j : Piped(Offer(i, j))' <=> Piped(Offer(i, j))
  BY DEF Piped, Offer, Passes, isAllowedClangArgument
<1>5. \A i, j : Behind(i, j)' => ~Fatal(Offer(i, j))'
  BY <1>1, <1>3 DEF AbortInv
<1>6. \A k \in DOMAIN cling_extra_args :
        \E i, j : /\ Behind(i, j)' /\ Piped(Offer(i, j))'
                  /\ cling_extra_args[k] = Extra(Offer(i, j))'
  BY <1>1, <1>2, <1>4 DEF AbortInv, Extra
<1>7. \A i, j : Behind(i, j)' /\ Piped(Offer(i, j))' =>
        \E k \in DOMAIN cling_extra_args : cling_extra_args[k] = Extra(Offer(i, j))'
  BY <1>1, <1>2, <1>4 DEF AbortInv, Extra
<1> QED
  BY <1>5, <1>6, <1>7 DEF AbortInv

\* A step outside the loop that leaves Cling's extra arguments alone.
LEMMA PastLoop ==
  ASSUME TypeOK, AbortInv, UNCHANGED <<run, opt, val, cling_extra_args>>
  PROVE  pc \notin {"failed", "aborted"} =>
           /\ \A i, j : Behind(i, j)' => ~Fatal(Offer(i, j))'
           /\ \A k \in DOMAIN cling_extra_args' :
                \E i, j : /\ Behind(i, j)' /\ Piped(Offer(i, j))'
                          /\ cling_extra_args'[k] = Extra(Offer(i, j))'
           /\ \A i, j : Behind(i, j)' /\ Piped(Offer(i, j))' =>
                \E k \in DOMAIN cling_extra_args' :
                  cling_extra_args'[k] = Extra(Offer(i, j))'
<1>1. \A i, j : /\ Behind(i, j)' <=> Behind(i, j)
                /\ Fatal(Offer(i, j))' <=> Fatal(Offer(i, j))
                /\ Piped(Offer(i, j))' <=> Piped(Offer(i, j))
                /\ Extra(Offer(i, j))' = Extra(Offer(i, j))
  BY DEF Behind, IsOffered, Offer, Fatal, PrefixTooLong, Piped, Passes, isAllowedClangArgument, Extra
<1> QED
  BY <1>1 DEF AbortInv

\* The same for the step from an option to the next.
LEMMA NextOptionKeeps == TypeOK /\ AbortInv /\ NextOption => AbortInv'
<1> SUFFICES ASSUME TypeOK, AbortInv, NextOption PROVE AbortInv'
  OBVIOUS
<1>1. UNCHANGED <<run, pc, cling_extra_args, fwd>> /\ pc = "forward"
  BY DEF NextOption, InOptions
<1>2. \A i, j : /\ Behind(i, j)' <=> Behind(i, j)
                /\ Fatal(Offer(i, j))' <=> Fatal(Offer(i, j))
                /\ Piped(Offer(i, j))' <=> Piped(Offer(i, j))
                /\ Extra(Offer(i, j))' = Extra(Offer(i, j))
  <2>1. \A i, j : Behind(i, j)' <=> Behind(i, j)
    BY PastOption
  <2> QED
    BY <1>1, <2>1 DEF Offer, Fatal, PrefixTooLong, Piped, Passes, isAllowedClangArgument, Extra
<1> QED
  BY <1>1, <1>2 DEF AbortInv

\* What overruns starts with a dash.
LEMMA DashedHead == <<Dash>> # <<>> /\ Head(<<Dash>>) = Dash
OBVIOUS

LEMMA EmptyArgumentKeeps == TypeOK /\ AbortInv /\ EmptyArgument => AbortInv'
<1> SUFFICES ASSUME TypeOK, AbortInv, EmptyArgument PROVE AbortInv'
  OBVIOUS
<1>1. /\ InValues /\ IsEmpty(Current) /\ pc = "forward"
      /\ UNCHANGED <<run, opt, cling_extra_args, fwd>>
  BY DEF EmptyArgument, InValues, InOptions
<1>2. IsOffered(opt, val) /\ Offer(opt, val).text = Current
  BY <1>1, AtHand
<1>3. CASE run.dcheck
  <2>1. FatalCommandLine
    BY <1>1, <1>2, <1>3, OfferedByPosition DEF FatalCommandLine
  <2>2. pc' = "aborted" /\ FatalCommandLine'
    BY <1>1, <1>3, <2>1, InputsStay DEF EmptyArgument, Abort
  <2> QED
    BY <2>2 DEF AbortInv
<1>4. CASE ~run.dcheck
  <2>1. val' = val + 1 /\ UNCHANGED pc
    BY <1>4 DEF EmptyArgument
  <2>2. ~Fatal(Offer(opt, val)) /\ ~Piped(Offer(opt, val))
    BY <1>1, <1>2, <1>4, DashedHead DEF Fatal, Piped, Passes, Acceptable, IsEmpty, PrefixTooLong
  <2> QED
    BY <1>1, <2>1, <2>2, PastHarmless
<1> QED
  BY <1>3, <1>4

LEMMA OverrunByDashKeeps == TypeOK /\ AbortInv /\ OverrunByDash => AbortInv'
<1> SUFFICES ASSUME TypeOK, AbortInv, OverrunByDash PROVE AbortInv'
  OBVIOUS
<1>1. /\ InValues /\ PrefixTooLong(Current) /\ UNCHANGED run
      /\ pc' = "aborted"
  BY DEF OverrunByDash, Abort
<1>2. IsOffered(opt, val) /\ Offer(opt, val).text = Current
  BY <1>1, AtHand
<1>3. FatalCommandLine
  BY <1>1, <1>2, OfferedByPosition DEF FatalCommandLine, PrefixTooLong
<1> QED
  BY <1>1, <1>3, InputsStay DEF AbortInv

LEMMA RefuseValueKeeps == TypeOK /\ AbortInv /\ RefuseValue => AbortInv'
<1> SUFFICES ASSUME TypeOK, AbortInv, RefuseValue PROVE AbortInv'
  OBVIOUS
<1>1. /\ InValues /\ ~IsEmpty(Current) /\ ~PrefixTooLong(Current)
      /\ pc = "forward" /\ val' = val + 1
      /\ ~isAllowedClangArgument(Current) \/ StartsWithDash(Current)
      /\ UNCHANGED <<run, opt, pc, cling_extra_args, fwd>>
  BY DEF RefuseValue, InValues, InOptions
<1>2. Offer(opt, val).text = Current
  BY <1>1, AtHand
<1>3. ~Fatal(Offer(opt, val)) /\ ~Piped(Offer(opt, val))
  BY <1>1, <1>2 DEF Fatal, Piped, Passes
<1> QED
  BY <1>1, <1>3, PastHarmless

\* An argument that is pipelined extends Cling's list by just what it is.
LEMMA PipedValueKeeps ==
  ASSUME TypeOK, AbortInv, InValues, pc = "forward",
         UNCHANGED <<run, opt, pc, fwd>>, val' = val + 1,
         ~Fatal(Offer(opt, val)), Piped(Offer(opt, val)),
         cling_extra_args' = Append(cling_extra_args, Extra(Offer(opt, val)))
  PROVE  AbortInv'
<1> DEFINE n == Len(cling_extra_args)
<1>1. \A i, j : Behind(i, j)' <=> Behind(i, j) \/ (i = opt /\ j = val)
  BY PastOffer
<1>2. \A i, j : /\ Fatal(Offer(i, j))' <=> Fatal(Offer(i, j))
                /\ Piped(Offer(i, j))' <=> Piped(Offer(i, j))
                /\ Extra(Offer(i, j))' = Extra(Offer(i, j))
  BY DEF Offer, Fatal, PrefixTooLong, Piped, Passes, isAllowedClangArgument, Extra
<1>3. /\ n \in Nat /\ DOMAIN cling_extra_args = 1..n
      /\ DOMAIN cling_extra_args' = 1..(n + 1)
      /\ \A k \in 1..n : cling_extra_args'[k] = cling_extra_args[k]
      /\ cling_extra_args'[n + 1] = Extra(Offer(opt, val))
  <2>1. cling_extra_args \in Seq(Seq(Char))
    BY DEF TypeOK
  <2>2. n \in Nat /\ DOMAIN cling_extra_args = 1..n
    BY <2>1, LenProperties
  <2> QED
    BY <2>1, <2>2, AppendProperties
<1> HIDE DEF n
<1>4. \A i, j : Behind(i, j)' => ~Fatal(Offer(i, j))'
  BY <1>1, <1>2 DEF AbortInv
<1>5. ASSUME NEW k \in DOMAIN cling_extra_args'
      PROVE  \E i, j : /\ Behind(i, j)' /\ Piped(Offer(i, j))'
                       /\ cling_extra_args'[k] = Extra(Offer(i, j))'
  <2>1. CASE k \in 1..n
    <3>1. PICK i, j : /\ Behind(i, j) /\ Piped(Offer(i, j))
                      /\ cling_extra_args[k] = Extra(Offer(i, j))
      BY <1>3, <2>1 DEF AbortInv
    <3> QED
      BY <1>1, <1>2, <1>3, <2>1, <3>1
  <2>2. CASE k = n + 1
    BY <1>1, <1>2, <1>3, <2>2
  <2> QED
    BY <1>3, <2>1, <2>2
<1>6. ASSUME NEW i, NEW j, Behind(i, j)', Piped(Offer(i, j))'
      PROVE  \E k \in DOMAIN cling_extra_args' : cling_extra_args'[k] = Extra(Offer(i, j))'
  <2>1. CASE Behind(i, j)
    <3>1. PICK k \in DOMAIN cling_extra_args : cling_extra_args[k] = Extra(Offer(i, j))
      BY <1>2, <1>6, <2>1 DEF AbortInv
    <3>2. k \in DOMAIN cling_extra_args' /\ cling_extra_args'[k] = cling_extra_args[k]
      BY <1>3, <3>1
    <3> QED
      BY <1>2, <3>1, <3>2
  <2>2. CASE i = opt /\ j = val
    <3>1. n + 1 \in DOMAIN cling_extra_args'
      BY <1>3
    <3> QED
      BY <1>2, <1>3, <2>2, <3>1
  <2> QED
    BY <1>1, <1>6, <2>1, <2>2
<1> QED
  BY <1>4, <1>5, <1>6 DEF AbortInv

LEMMA ForwardValueKeeps == TypeOK /\ AbortInv /\ ForwardValue => AbortInv'
<1> SUFFICES ASSUME TypeOK, AbortInv, ForwardValue PROVE AbortInv'
  OBVIOUS
<1>1. /\ InValues /\ pc = "forward" /\ UNCHANGED <<run, opt, fwd>>
      /\ ~IsEmpty(Current) /\ isAllowedClangArgument(Current) /\ ~StartsWithDash(Current)
      /\ PipelineToCling(Key, Current)
  BY DEF ForwardValue, InValues, InOptions
<1>2. /\ IsOffered(opt, val) /\ Offer(opt, val).text = Current /\ Offer(opt, val).key = Key
      /\ Passes(Offer(opt, val))
  BY <1>1, AtHand DEF Passes
<1>3. CASE run.cling /\ NothingLeft(Current)
  <2>1. pc' = "aborted"
    BY <1>1, <1>3 DEF PipelineToCling, Abort
  <2>2. Offer(opt, val) \in Accepted
    BY <1>2, AcceptedByPosition
  <2>3. FatalCommandLine
    BY <1>2, <1>3, <2>2 DEF FatalCommandLine, NothingLeft, HasExtraArgPrefix
  <2> QED
    BY <1>1, <2>1, <2>3, InputsStay DEF AbortInv
<1>4. CASE ~(run.cling /\ NothingLeft(Current))
  <2>1. /\ val' = val + 1 /\ UNCHANGED pc
        /\ cling_extra_args' = IF run.cling /\ Pipelined(Current)
                               THEN Append(cling_extra_args, ForCling(Key, Current))
                               ELSE cling_extra_args
    BY <1>1, <1>4 DEF PipelineToCling
  <2>2. ~Fatal(Offer(opt, val))
    BY <1>1, <1>2, <1>4, DashedHead DEF Fatal, PrefixTooLong, StartsWithDash
  <2>3. Piped(Offer(opt, val)) <=> run.cling /\ Pipelined(Current)
    BY <1>2 DEF Piped
  <2>4. CASE run.cling /\ Pipelined(Current)
    <3>1. cling_extra_args' = Append(cling_extra_args, Extra(Offer(opt, val)))
      BY <1>2, <2>1, <2>4 DEF Extra
    <3> QED
      BY <1>1, <2>1, <2>2, <2>3, <2>4, <3>1, PipedValueKeeps
  <2>5. CASE ~(run.cling /\ Pipelined(Current))
    BY <1>1, <2>1, <2>2, <2>3, <2>5, PastHarmless
  <2> QED
    BY <2>4, <2>5
<1> QED
  BY <1>3, <1>4

LEMMA AddDefaultClingArgsKeeps == TypeOK /\ AbortInv /\ AddDefaultClingArgs => AbortInv'
<1> SUFFICES ASSUME TypeOK, AbortInv, AddDefaultClingArgs PROVE AbortInv'
  OBVIOUS
<1>1. /\ pc = "cling_defaults" /\ run.cling /\ fwd = 1 /\ opt > Len(run.commandLine)
      /\ UNCHANGED <<run, opt, val, fwd, cling_extra_args>>
  BY DEF AddDefaultClingArgs, AbortInv
<1>2. CASE run.dcheck /\ cling_extra_args = <<>>
  <2>1. pc' = "aborted"
    BY <1>2 DEF AddDefaultClingArgs, Abort
  <2>2. ASSUME NEW o \in Accepted, Pipelined(o.text) PROVE FALSE
    <3>1. PICK i, j : IsOffered(i, j) /\ o = Offer(i, j) /\ Passes(o)
      BY AcceptedByPosition
    <3>2. Behind(i, j) /\ Piped(Offer(i, j))
      BY <1>1, <2>2, <3>1, AllBehind DEF Piped
    <3>3. DOMAIN cling_extra_args = {}
      BY <1>2
    <3> QED
      BY <1>1, <3>2, <3>3 DEF AbortInv
  <2>3. FatalCommandLine
    BY <1>1, <1>2, <2>2 DEF FatalCommandLine
  <2> QED
    BY <1>1, <2>1, <2>3, InputsStay DEF AbortInv
<1>3. CASE ~(run.dcheck /\ cling_extra_args = <<>>)
  <2>1. pc' = "cling_filter"
    BY <1>3 DEF AddDefaultClingArgs
  <2>2. \A k \in DOMAIN cling_extra_args : ~(k < 1)
    BY LenProperties DEF TypeOK
  <2> QED
    BY <1>1, <1>3, <2>1, <2>2, PastLoop DEF AbortInv
<1> QED
  BY <1>2, <1>3

LEMMA FilterClingArgKeeps == TypeOK /\ AbortInv /\ FilterClingArg => AbortInv'
<1> SUFFICES ASSUME TypeOK, AbortInv, FilterClingArg PROVE AbortInv'
  OBVIOUS
<1>1. /\ pc = "cling_filter" /\ run.cling /\ fwd <= Len(cling_extra_args)
      /\ UNCHANGED <<run, opt, val, cling_extra_args>>
  BY DEF FilterClingArg, AbortInv
<1>2. /\ fwd \in DOMAIN cling_extra_args
      /\ \A k \in DOMAIN cling_extra_args : k < fwd + 1 => k < fwd \/ k = fwd
  BY <1>1, LenProperties DEF TypeOK
<1>3. CASE ~HasClingPrefix(cling_extra_args[fwd]) /\ run.dcheck
  <2>1. pc' = "aborted"
    BY <1>3 DEF FilterClingArg, Abort
  <2>2. PICK i, j : /\ Behind(i, j) /\ Piped(Offer(i, j))
                    /\ cling_extra_args[fwd] = Extra(Offer(i, j))
    BY <1>1, <1>2 DEF AbortInv
  <2>3. IsOffered(i, j) /\ Passes(Offer(i, j)) /\ Pipelined(Offer(i, j).text)
    BY <2>2 DEF Behind, Piped
  <2>4. Offer(i, j).key = NoKey
    BY <1>3, <2>2, <2>3, OfferTyped, DashedByKey DEF Extra
  <2>5. Offer(i, j) \in Accepted
    BY <2>3, AcceptedByPosition
  <2>6. FatalCommandLine
    BY <1>1, <1>3, <2>3, <2>4, <2>5 DEF FatalCommandLine
  <2> QED
    BY <1>1, <2>1, <2>6, InputsStay DEF AbortInv
<1>4. CASE ~(~HasClingPrefix(cling_extra_args[fwd]) /\ run.dcheck)
  <2>1. fwd' = fwd + 1 /\ UNCHANGED pc
    BY <1>4 DEF FilterClingArg
  <2> QED
    BY <1>1, <1>2, <1>4, <2>1, PastLoop DEF AbortInv
<1> QED
  BY <1>3, <1>4

LEMMA AbortNext == TypeOK /\ AbortInv /\ [Next]_vars => AbortInv'
<1> SUFFICES ASSUME TypeOK, AbortInv, [Next]_vars PROVE AbortInv'
  OBVIOUS
<1>1. CASE AddDefaultClangArgs
  <2>1. pc = "clang_defaults" /\ pc' = "forward"
        /\ UNCHANGED <<run, opt, val, fwd, cling_extra_args>>
    BY <1>1 DEF AddDefaultClangArgs
  <2> QED
    BY <2>1, PastLoop DEF AbortInv
<1>2. CASE ExePathUnknown
  <2>1. \/ pc' = "aborted" /\ cause' = "exe_path_unknown"
        \/ pc' = "failed"
    BY <1>2 DEF ExePathUnknown, Abort
  <2> QED
    BY <2>1 DEF AbortInv
<1>3. CASE NextOption
  BY <1>3, NextOptionKeeps
<1>4. CASE EmptyArgument
  BY <1>4, EmptyArgumentKeeps
<1>5. CASE RefuseValue
  BY <1>5, RefuseValueKeeps
<1>12. CASE OverrunByDash
  BY <1>12, OverrunByDashKeeps
<1>6. CASE ForwardValue
  BY <1>6, ForwardValueKeeps
<1>7. CASE FinishClangArgs
  <2>1. /\ pc = "forward" /\ opt > Len(run.commandLine)
        /\ pc' = IF run.cling THEN "cling_defaults" ELSE "ready"
        /\ UNCHANGED <<run, opt, val, fwd, cling_extra_args>>
    BY <1>7 DEF FinishClangArgs
  <2> QED
    BY <2>1, PastLoop DEF AbortInv
<1>8. CASE AddDefaultClingArgs
  BY <1>8, AddDefaultClingArgsKeeps
<1>9. CASE FilterClingArg
  BY <1>9, FilterClingArgKeeps
<1>10. CASE FinishClingArgs
  <2>1. /\ pc = "cling_filter" /\ pc' = "ready" /\ fwd > Len(cling_extra_args)
        /\ UNCHANGED <<run, opt, val, fwd, cling_extra_args>>
    BY <1>10 DEF FinishClingArgs
  <2> QED
    BY <2>1, PastLoop DEF AbortInv
<1>11. CASE UNCHANGED vars
  <2>1. UNCHANGED <<run, pc, opt, val, fwd, cling_extra_args, cause>>
    BY <1>11 DEF vars
  <2> QED
    BY <2>1, PastLoop, InputsStay DEF AbortInv
<1> QED
  BY <1>1, <1>2, <1>3, <1>4, <1>5, <1>6, <1>7, <1>8, <1>9, <1>10, <1>11, <1>12
     DEF Next, Step, Finished

-----------------------------------------------------------------------------
(* A run that is through has passed each check of FatalCommandLine.        *)

LEMMA ReadyIsNotFatal == TypeOK /\ AbortInv /\ pc = "ready" => ~FatalCommandLine
<1> SUFFICES ASSUME TypeOK, AbortInv, pc = "ready" PROVE ~FatalCommandLine
  OBVIOUS
<1>1. \A i, j : IsOffered(i, j) => Behind(i, j) /\ ~Fatal(Offer(i, j))
  BY AllBehind DEF AbortInv
<1>2. ~(run.cling /\ \E o \in Accepted : o.text.head = ExtraArg /\ Len(o.text.tail) < 2)
  BY <1>1, AcceptedByPosition DEF Fatal, NothingLeft, HasExtraArgPrefix
<1>3. ~(run.dcheck /\ \E o \in Offered : IsEmpty(o.text))
  BY <1>1, OfferedByPosition DEF Fatal
<1>4. ASSUME run.dcheck, run.cling PROVE \E o \in Accepted : Pipelined(o.text)
  <2>1. cling_extra_args # <<>> /\ cling_extra_args \in Seq(Seq(Char))
    BY <1>4 DEF AbortInv, TypeOK
  <2>2. 1 \in DOMAIN cling_extra_args
    BY <2>1, LenProperties, EmptySeq
  <2>3. PICK i, j : Behind(i, j) /\ Piped(Offer(i, j))
    BY <2>2 DEF AbortInv
  <2> QED
    BY <2>3, AcceptedByPosition DEF Behind, Piped
<1>5. ASSUME run.dcheck, run.cling, NEW o \in Accepted, Pipelined(o.text)
      PROVE  o.key # NoKey
  <2>1. PICK i, j : IsOffered(i, j) /\ o = Offer(i, j) /\ Passes(o)
    BY AcceptedByPosition
  <2>2. Behind(i, j) /\ Piped(Offer(i, j))
    BY <1>1, <1>5, <2>1 DEF Piped
  <2>3. PICK k \in DOMAIN cling_extra_args : cling_extra_args[k] = Extra(Offer(i, j))
    BY <2>2 DEF AbortInv
  <2>4. k < fwd
    BY <1>5, LenProperties DEF AbortInv, TypeOK
  <2>5. HasClingPrefix(Extra(Offer(i, j)))
    BY <1>5, <2>3, <2>4 DEF AbortInv
  <2> QED
    BY <1>5, <2>1, <2>5, OfferTyped, DashedByKey DEF Extra
<1>6. ~(/\ run.prefixChecked
        /\ \E o \in Offered : o.text.head = NoKey /\ o.text.tail = <<Dash>>)
  BY <1>1, OfferedByPosition DEF Fatal, PrefixTooLong
<1> QED
  BY <1>2, <1>3, <1>4, <1>5, <1>6 DEF FatalCommandLine

\* The fatal checks of four functions and two kinds of build, one after the
\* other, end exactly the command lines that FatalCommandLine names.
THEOREM AbortsAsSpecified == Spec => []AbortsExactlyOnFatal
<1>1. TypeOK /\ AbortInv => AbortsExactlyOnFatal
  <2> SUFFICES ASSUME TypeOK, AbortInv, pc \in Final, pc # "failed", cause # "exe_path_unknown"
               PROVE  pc = "aborted" <=> FatalCommandLine
    BY DEF AbortsExactlyOnFatal
  <2>1. pc = "aborted" => FatalCommandLine
    BY DEF AbortInv
  <2>2. pc = "ready" \/ pc = "aborted"
    BY DEF Final
  <2> QED
    BY <2>1, <2>2, ReadyIsNotFatal
<1> QED
  BY <1>1, TypeOKInit, TypeOKNext, AbortInit, AbortNext, PTL DEF Spec

=============================================================================
