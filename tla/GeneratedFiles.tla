--------------------------- MODULE GeneratedFiles ---------------------------
(***************************************************************************)
(* The files flextool leaves behind: clang_util::FileSaveHandler::saveFile *)
(* as libtooling reaches it once per source, and what it finds on disk     *)
(* when the tool is run again after a run that failed or was killed.       *)
(*                                                                         *)
(* libtooling and llvm::raw_fd_ostream are external: sources are handled   *)
(* in the order of the command line, a source that cannot be read is       *)
(* skipped, opening truncates, and a stream that still has an error when   *)
(* it is destroyed ends the process with exit(1).                          *)
(*                                                                         *)
(* A file is its directory, its name, and how many times ".generated" and  *)
(* the extension were appended to that name.  A content is the file it was *)
(* first written as and how many times it went through the rewriter since. *)
(*                                                                         *)
(* Operators named Mutant_X are plausible bugs in X, not part of the       *)
(* model: with X replaced by Mutant_X a property of the runs must fail.    *)
(***************************************************************************)
EXTENDS Naturals, Sequences

CONSTANTS
  Dir, Name,
  NoExtension,   \* the names without a dot
  SourceLists,   \* the sources a command line may name, in order
  InitialFiles,  \* what may be on disk before the first run
  MaxRuns        \* bound on the number of runs

File == [dir: Dir, name: Name, generated: Nat]
Content == [origin: File, rewrites: Nat]

ASSUME SourceListsTyped == SourceLists \subseteq Seq(File)
ASSUME InitialFilesTyped == InitialFiles \subseteq SUBSET File
ASSUME MaxRunsTyped == MaxRuns \in Nat

Run == [sources: SourceLists, outDir: Dir, dcheck: BOOLEAN]

VARIABLES
  run,      \* the inputs of this run: change only when the tool is run again
  pc,
  source,   \* index of the source at hand
  disk,     \* the files that exist, and what they hold
  torn,     \* files of which only a part, or nothing, was written
  saved,    \* files this run has logged as saved
  runs

vars == <<run, pc, source, disk, torn, saved, runs>>

Final == {"done", "failed", "missing_source", "not_absolute", "killed"}

HandWritten(file) == [origin |-> file, rewrites |-> 0]
Rewritten(content) == [content EXCEPT !.rewrites = @ + 1]

\* The suffix forgotten.
Mutant_Generated(file, dir) == [file EXCEPT !.dir = dir]

\* outDir.Append(filename + ".generated" + originalFileExtention)
Generated(file, dir) ==
  [dir |-> dir, name |-> file.name, generated |-> file.generated + 1]

\* The three early returns: a path, an extension and a name are needed.  A
\* generated name has the extension of the name it was made from.
Savable(file) == file.name \notin NoExtension

Current == run.sources[source]
out_path == Generated(Current, run.outDir)

\* What the rewriter holds of the source; nothing but this process changes files
\* between reading one and saving what became of it.
edit_buffer == Rewritten(disk[Current])

Init ==
  /\ run \in Run
  /\ pc = "list"
  /\ source = 1
  /\ \E files \in InitialFiles : disk = [file \in files |-> HandWritten(file)]
  /\ torn = {}
  /\ saved = {}
  /\ runs = 1

-----------------------------------------------------------------------------
\* logSourcePathList, before anything is read: a debug build aborts if a source
\* has no absolute path, which is so when it does not exist.
ListSources ==
  /\ pc = "list"
  /\ pc' = IF run.dcheck /\ \E i \in DOMAIN run.sources : run.sources[i] \notin DOMAIN disk
           THEN "missing_source" ELSE "next"
  /\ UNCHANGED <<run, source, disk, torn, saved, runs>>

InSources == pc = "next" /\ source <= Len(run.sources)

\* libtooling reports a source it cannot read and goes on.
SkipSource ==
  /\ InSources
  /\ Current \notin DOMAIN disk
  /\ source' = source + 1
  /\ UNCHANGED <<run, pc, disk, torn, saved, runs>>

\* libtooling reads and parses a source; the annotations rewrite it in memory.
RewriteSource ==
  /\ InSources
  /\ Current \in DOMAIN disk
  /\ pc' = "save"
  /\ UNCHANGED <<run, source, disk, torn, saved, runs>>

\* saveFile returns early with a warning.
RefuseToSave ==
  /\ pc = "save"
  /\ ~Savable(Current)
  /\ source' = source + 1
  /\ pc' = "next"
  /\ UNCHANGED <<run, disk, torn, saved, runs>>

\* error_code is not looked at: every file is announced as saved.
Mutant_OpenFails ==
  /\ pc = "save"
  /\ Savable(Current)
  /\ pc' = IF run.dcheck /\ out_path \notin DOMAIN disk THEN "not_absolute" ELSE "failed"
  /\ saved' = saved \cup {out_path}
  /\ UNCHANGED <<run, source, disk, torn, runs>>

\* "Could not save file" is logged; a debug build then aborts unless the file
\* is there anyhow, and any other build exits where the stream is destroyed.
OpenFails ==
  /\ pc = "save"
  /\ Savable(Current)
  /\ pc' = IF run.dcheck /\ out_path \notin DOMAIN disk THEN "not_absolute" ELSE "failed"
  /\ UNCHANGED <<run, source, disk, torn, saved, runs>>

\* A file that is there is left alone.
Mutant_OpenFile ==
  /\ pc = "save"
  /\ Savable(Current)
  /\ IF out_path \in DOMAIN disk
     THEN pc' = "next" /\ source' = source + 1 /\ UNCHANGED <<disk, torn>>
     ELSE /\ pc' = "write" /\ UNCHANGED source
          /\ disk' = [file \in DOMAIN disk \cup {out_path} |->
                        IF file = out_path THEN edit_buffer ELSE disk[file]]
          /\ torn' = torn \cup {out_path}
  /\ UNCHANGED <<run, saved, runs>>

\* The file is created, or truncated, under its final name.
OpenFile ==
  /\ pc = "save"
  /\ Savable(Current)
  /\ disk' = [file \in DOMAIN disk \cup {out_path} |->
                IF file = out_path THEN edit_buffer ELSE disk[file]]
  /\ torn' = torn \cup {out_path}
  /\ pc' = "write"
  /\ UNCHANGED <<run, source, saved, runs>>

WriteFile ==
  /\ pc = "write"
  /\ torn' = torn \ {out_path}
  /\ saved' = saved \cup {out_path}
  /\ source' = source + 1
  /\ pc' = "next"
  /\ UNCHANGED <<run, disk, runs>>

\* The error is taken for one that was reported already.
Mutant_WriteFails ==
  /\ pc = "write"
  /\ saved' = saved \cup {out_path}
  /\ source' = source + 1
  /\ pc' = "next"
  /\ UNCHANGED <<run, disk, torn, runs>>

\* Only the constructor of the stream sets error_code: a write that fails is
\* logged as "Saved file" too, and ends the process where the stream is destroyed.
WriteFails ==
  /\ pc = "write"
  /\ saved' = saved \cup {out_path}
  /\ pc' = "failed"
  /\ UNCHANGED <<run, source, disk, torn, runs>>

FinishRun ==
  /\ pc = "next"
  /\ source > Len(run.sources)
  /\ pc' = "done"
  /\ UNCHANGED <<run, source, disk, torn, saved, runs>>

\* The user, or the build, interrupts the process.
Kill ==
  /\ pc \notin Final
  /\ pc' = "killed"
  /\ UNCHANGED <<run, source, disk, torn, saved, runs>>

\* Another run, with other sources and another directory perhaps, on what is left.
RunAgain ==
  /\ pc \in Final
  /\ runs < MaxRuns
  /\ run' \in Run
  /\ pc' = "list"
  /\ source' = 1
  /\ saved' = {}
  /\ runs' = runs + 1
  /\ UNCHANGED <<disk, torn>>

Step ==
  \/ ListSources
  \/ SkipSource
  \/ RewriteSource
  \/ RefuseToSave
  \/ OpenFails
  \/ OpenFile
  \/ WriteFile
  \/ WriteFails
  \/ FinishRun

Finished == pc \in Final /\ runs = MaxRuns /\ UNCHANGED vars

Next == Step \/ Kill \/ RunAgain \/ Finished

\* It may stop anywhere: what is said of it is said of what it leaves, not of its end.
Spec == Init /\ [][Next]_vars

-----------------------------------------------------------------------------
(* Properties.                                                             *)

\* The types of the variables; a file that is torn or saved exists.
TypeOK ==
  /\ run \in Run
  /\ pc \in {"list", "next", "save", "write"} \cup Final
  /\ source \in 1..Len(run.sources) + 1
  /\ DOMAIN disk \subseteq File
  /\ \A file \in DOMAIN disk : disk[file] \in Content
  /\ torn \subseteq DOMAIN disk
  /\ saved \subseteq DOMAIN disk
  /\ runs \in Nat

\* A file's name tells what happened to its content: as many suffixes as the name
\* has, the content of a file of the same name went through the rewriter, or
\* there were that many when it was written by hand.  So whatever is run, in
\* whatever order and however it ends, no hand-written file without a suffix is
\* ever overwritten, also where the output directory holds the sources.
NameTellsProvenance ==
  \A file \in DOMAIN disk :
    /\ disk[file].origin.name = file.name
    /\ disk[file].origin.generated + disk[file].rewrites = file.generated
    /\ disk[file].rewrites = 0 => disk[file].origin = file

\* "Saved file" on the log is true for as long as the tool works on: no file it
\* has announced is incomplete, although a failed write announces one too.
SavedIsWhole ==
  pc \in {"list", "next", "save", "done"} => torn \cap saved = {}

\* Sources that this run may itself write.
Feedback ==
  \E i, j \in DOMAIN run.sources :
    run.sources[i] = Generated(run.sources[j], run.outDir)

\* The sources that get as far as being saved.
Used(i) == run.sources[i] \in DOMAIN disk /\ Savable(run.sources[i])

\* A run that completes leaves the same files whatever earlier runs left, failed
\* or killed halfway as they may have been: every usable source has a whole
\* generated file, made from what the source is now.  Of sources with the same
\* file name the last one wins.
Reproducible ==
  pc = "done" /\ ~Feedback =>
    \A i \in DOMAIN run.sources :
      LET out == Generated(run.sources[i], run.outDir)
          rivals == {j \in DOMAIN run.sources :
                       Used(j) /\ Generated(run.sources[j], run.outDir) = out}
      IN Used(i) =>
           /\ out \in DOMAIN disk \ torn
           /\ \E j \in rivals :
                /\ \A k \in rivals : k <= j
                /\ disk[out] = Rewritten(disk[run.sources[j]])

-----------------------------------------------------------------------------
(* What assertions of the code say, and the runs refute.                   *)

\* clang_util.cc:656, a DCHECK: the generated file is found at its absolute path,
\* whether or not it could be saved.
FoundAtAbsolutePath == pc # "not_absolute"

\* clang_tool.cc:42, a DCHECK: each source is found at its absolute path.
SourcesFound == pc # "missing_source"

=============================================================================
