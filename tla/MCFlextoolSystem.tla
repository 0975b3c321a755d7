-------------------------- MODULE MCFlextoolSystem --------------------------
(* Command lines for TLC, of up to two options that make a difference to   *)
(* the parts behind the one that reads them.                               *)
EXTENDS FlextoolSystem

CONSTANT MaxOptions  \* the longest command line

MCChar == {"-", "x"}

NoKey == ""  \* Args!NoKey

Plain(tail) == [head |-> NoKey, tail |-> tail]

\* A file with an extension, one without, and one in a directory below with the
\* name of the first.
SourceName == Plain(<<"x", "x">>)
PlainName == Plain(<<"x">>)
SameNameBelow == Plain(<<"x", "x", "x">>)

MCFolderOf(text, dir) == IF text = SameNameBelow THEN dir \o "/below" ELSE dir
MCNameOf(text) ==
  CASE text \in {SourceName, SameNameBelow} -> "source.cc"
    [] text = PlainName -> "plain"
    [] OTHER -> "option"

MCPathSets == {{SourceName, PlainName, SameNameBelow}, {SameNameBelow}}
MCNoExtension == {"plain", "option"}

\* The three files, --extra-arg=-x, -p, and extra-arg=-x without dashes.
Options ==
  {[key |-> NoKey, values |-> <<SourceName>>],
   [key |-> NoKey, values |-> <<PlainName>>],
   [key |-> NoKey, values |-> <<SameNameBelow>>],
   [key |-> "extra-arg", values |-> <<Plain(<<"-", "x">>)>>],
   [key |-> "p", values |-> <<PlainName>>],
   [key |-> NoKey, values |-> <<[head |-> "extra-arg", tail |-> <<"-", "x">>]>>]}

MCCommandLines == BoundedSeq(Options, MaxOptions)

=============================================================================
