-------------------------- MODULE MCGeneratedFiles --------------------------
(* Small command lines for TLC: two directories, one name with an extension *)
(* and one without, and a generated file that may be named as a source.    *)
EXTENDS GeneratedFiles

MCDir == {"d1", "d2"}
MCName == {"a.cc", "Makefile"}
MCNoExtension == {"Makefile"}

HandWrittenFiles == {[dir |-> "d1", name |-> "a.cc", generated |-> 0],
                     [dir |-> "d2", name |-> "a.cc", generated |-> 0],
                     [dir |-> "d1", name |-> "Makefile", generated |-> 0]}
GeneratedFile == [dir |-> "d1", name |-> "a.cc", generated |-> 1]
MCFiles == HandWrittenFiles \cup {GeneratedFile}

\* One or two sources: the same twice, the same name in two directories, a
\* generated file before or after the source it is made from.
MCSourceLists == UNION {[1..n -> MCFiles] : n \in 1..2}

\* All sources there, the generated one written by hand; or one of each kind missing.
MCInitialFiles == {MCFiles, MCFiles \ {GeneratedFile},
                   HandWrittenFiles \ {[dir |-> "d2", name |-> "a.cc", generated |-> 0]}}
=============================================================================
