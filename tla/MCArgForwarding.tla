--------------------------- MODULE MCArgForwarding ---------------------------
(* Bounds for model-checking ArgForwarding.                                *)
EXTENDS ArgForwarding

CONSTANT MaxOptions  \* the longest command line

Plain(tail) == [head |-> NoKey, tail |-> tail]
Headed(head, tail) == [head |-> head, tail |-> tail]

MCChar == {Dash, "x"}

\* Two paths, one of them a file name that begins with a dash; or an empty disk.
MCPathSets == {{Plain(<<"x", "x">>), Plain(<<Dash, "x">>)}, {}}

\* --extra-arg=V for a flag, a double-dash flag, a bare word, one character;
\* an option with two values, one without; keys clang does not know.
KeyedOptions ==
  {[key |-> ExtraArg, values |-> <<Plain(v)>>] :
     v \in {<<Dash, "x">>, <<Dash, Dash, "x">>, <<"x", "x">>, <<"x">>}}
  \cup {[key |-> ExtraArg, values |-> <<Plain(<<Dash, "x">>), Plain(<<"x", "x">>)>>],
        [key |-> DashedExtraArg, values |-> <<Plain(<<Dash, "x">>)>>],
        [key |-> "help-list", values |-> <<>>],
        [key |-> "extra-arg-before", values |-> <<Plain(<<Dash, "x">>)>>],
        [key |-> "other", values |-> <<Plain(<<"x">>)>>]}

\* A source, a path that is not there, "", "-", a dashed file after `--`, and the
\* extra-arg texts typed without, and after `--` with, their dashes.
PositionalOptions ==
  {[key |-> NoKey, values |-> <<text>>] :
     text \in {Plain(<<"x", "x">>), Plain(<<"x">>), Plain(<<>>), Plain(<<Dash>>), Plain(<<Dash, "x">>),
               Headed(ExtraArg, <<Dash, "x">>), Headed(ExtraArg, <<>>),
               Headed(DashedExtraArg, <<Dash, "x">>)}}

MCCommandLines == BoundedSeq(KeyedOptions \cup PositionalOptions, MaxOptions)

=============================================================================
