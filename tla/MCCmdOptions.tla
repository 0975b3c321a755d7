---------------------------- MODULE MCCmdOptions ----------------------------
(* Command lines for TLC: up to two kinds of path options; numbers of      *)
(* threads on and beyond every boundary with or without --outdir and one   *)
(* other key; up to two other keys; options without a value, typed twice,  *)
(* flags with a value.                                                     *)
EXTENDS CmdOptions, FiniteSets

MCName == {"sub"}
MCMinInt == -1000
MCMaxInt == 1000

Here == [absolute |-> FALSE, names |-> <<>>]
Sub == [absolute |-> FALSE, names |-> <<"sub">>]
Elsewhere == [absolute |-> TRUE, names |-> <<"sub">>]

\* Typed once with each kind of path, typed twice, typed without a value; and,
\* where many values are taken, two values at once.
Once == {<< <<path>> >> : path \in {Here, Sub, Elsewhere}}
Bare == << <<>> >>
PathsOf(key) ==
  Once \cup {<< <<Sub>>, <<Elsewhere>> >>, Bare}
  \cup (IF key \in MultiPath THEN {<< <<Sub, Elsewhere>> >>} ELSE {})

Keys == SinglePath \cup MultiPath
NoPaths == [key \in Keys |-> <<>>]
OnePath == UNION {{[NoPaths EXCEPT ![key] = v] : v \in PathsOf(key)} : key \in Keys}
TwoPaths ==
  UNION {{[NoPaths EXCEPT ![k1] = v1, ![k2] = v2] : v1 \in Once, v2 \in PathsOf(k2)} :
         k1 \in {"outdir", "plugins_dir"}, k2 \in Keys}

Threads ==
  {<< <<n>> >> : n \in {-1001, -1000, 0, 1, 7, 100, 101, 1001}}
  \cup {<<>>, Bare, << <<3>>, <<4>> >>}

\* A word, no word, and each of them twice.
Valued == << <<"word">> >>
Twice == << <<"word">>, <<"word">> >>
BareTwice == << <<>>, <<>> >>

NoOthers == [key \in {} |-> <<>>]
Other ==
  [{"help", "version"} -> {Bare}]
  \cup UNION {[{key} -> {Bare, Valued, Twice, BareTwice}] :
                key \in {"help", "v", "disable-usb-keyboard-detect", "disable-dev-shm-usage",
                         "extra-arg"}}
  \cup UNION {[{key} -> {Valued}] : key \in {"tracing_categories", "p", ""}}
  \cup [{"start_tracing"} -> {Bare}]

TwoOthers ==
  {[key \in {"help", other} |-> IF key = "help" THEN Bare ELSE Valued] :
     other \in {"v", "p", "extra-arg", "", "disable-usb-keyboard-detect"}}

MCCommandLines ==
  [threads: {<<>>}, paths: {NoPaths} \cup OnePath \cup TwoPaths, others: {NoOthers},
   malformed: {FALSE}]
  \cup [threads: Threads, paths: {NoPaths, [NoPaths EXCEPT !["outdir"] = << <<Sub>> >>]},
        others: {NoOthers} \cup Other, malformed: {FALSE}]
  \cup [threads: {<<>>}, paths: {NoPaths}, others: Other \cup TwoOthers, malformed: BOOLEAN]

=============================================================================
