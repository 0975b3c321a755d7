------------------------ MODULE GeneratedFilesProofs ------------------------
(***************************************************************************)
(* Proofs about GeneratedFiles for any directories, names, source lists,   *)
(* initial files and number of runs: the type invariant, that a file's     *)
(* name tells what became of its content, that a "Saved file" line is true *)
(* while the tool works on, and that completed runs are reproducible.      *)
(* Each invariant is inductive together with the type invariant; in the    *)
(* middle of saving, two more facts are needed, that the source at hand    *)
(* exists and that its file is open.                                       *)
(***************************************************************************)
EXTENDS GeneratedFiles, TLAPS

\* Between reading a source and finishing with it, the index is one of the list,
\* the source exists, and once the file is opened it exists too.
AtHand ==
  /\ pc \in {"save", "write"} => source \in DOMAIN run.sources /\ Current \in DOMAIN disk
  /\ pc = "write" => out_path \in DOMAIN disk

\* The output path of a file is a file.
LEMMA GeneratedType ==
  ASSUME NEW file \in File, NEW dir \in Dir
  PROVE  /\ Generated(file, dir) \in File
         /\ Generated(file, dir).name = file.name
         /\ Generated(file, dir).generated = file.generated + 1
  BY DEF Generated, File

\* A rewritten content is a content of the same origin.
LEMMA RewrittenType ==
  ASSUME NEW content \in Content
  PROVE  /\ Rewritten(content) \in Content
         /\ Rewritten(content).origin = content.origin
         /\ Rewritten(content).rewrites = content.rewrites + 1
  BY DEF Rewritten, Content

\* The source at hand is a file.
LEMMA CurrentType ==
  ASSUME TypeOK, source \in DOMAIN run.sources
  PROVE  /\ Current \in File
         /\ run.outDir \in Dir
         /\ out_path \in File
         /\ source + 1 \in 1..Len(run.sources) + 1
<1>1. run.sources \in Seq(File) /\ run.outDir \in Dir
  BY SourceListsTyped DEF TypeOK, Run
<1>2. Current \in File
  BY <1>1 DEF Current
<1>3. QED
  BY <1>1, <1>2, GeneratedType DEF out_path

IInv == TypeOK /\ AtHand

LEMMA InitInv == Init => IInv
<1> SUFFICES ASSUME Init PROVE IInv
  OBVIOUS
<1>1. PICK files \in InitialFiles : disk = [file \in files |-> HandWritten(file)]
  BY DEF Init
<1>2. files \subseteq File
  BY InitialFilesTyped
<1>3. run.sources \in Seq(File)
  BY SourceListsTyped DEF Init, Run
<1>4. source \in 1..Len(run.sources) + 1
  BY <1>3 DEF Init
<1>5. \A file \in DOMAIN disk : disk[file] \in Content
  BY <1>1, <1>2 DEF HandWritten, Content
<1>6. TypeOK
  BY <1>1, <1>2, <1>4, <1>5 DEF Init, TypeOK, Final
<1>7. AtHand
  BY DEF Init, AtHand
<1>8. QED
  BY <1>6, <1>7 DEF IInv

LEMMA StepInv == IInv /\ [Next]_vars => IInv'
<1> SUFFICES ASSUME IInv, [Next]_vars PROVE IInv'
  OBVIOUS
<1> USE DEF IInv
<1>0. run.sources \in Seq(File) /\ Len(run.sources) \in Nat
  BY SourceListsTyped DEF TypeOK, Run
<1>1. CASE SkipSource
  BY <1>0, <1>1 DEF SkipSource, InSources, TypeOK, AtHand, Final, Current, out_path
<1>2. CASE RewriteSource
  BY <1>0, <1>2 DEF RewriteSource, InSources, TypeOK, AtHand, Final, Current, out_path
<1>3. CASE RefuseToSave
  BY <1>0, <1>3, CurrentType DEF RefuseToSave, TypeOK, AtHand, Final, Current, out_path
<1>4. CASE OpenFails
  BY <1>4 DEF OpenFails, TypeOK, AtHand, Final, Current, out_path
<1>5. CASE OpenFile
  <2>1. source \in DOMAIN run.sources /\ Current \in DOMAIN disk
    BY <1>5 DEF OpenFile, AtHand
  <2>2. out_path \in File
    BY <2>1, CurrentType
  <2>3. edit_buffer \in Content
    BY <2>1, RewrittenType DEF edit_buffer, TypeOK
  <2>4. \A file \in DOMAIN disk' : disk'[file] \in Content
    BY <1>5, <2>3 DEF OpenFile, TypeOK
  <2>5. DOMAIN disk' = DOMAIN disk \cup {out_path}
    BY <1>5 DEF OpenFile
  <2>6. TypeOK'
    BY <1>5, <2>2, <2>4, <2>5 DEF OpenFile, TypeOK, Final
  <2>7. out_path' = out_path /\ Current' = Current
    BY <1>5 DEF OpenFile, out_path, Current
  <2>8. AtHand'
    BY <1>5, <2>1, <2>5, <2>7 DEF OpenFile, AtHand
  <2>9. QED
    BY <2>6, <2>8
<1>6. CASE WriteFile
  BY <1>0, <1>6, CurrentType DEF WriteFile, TypeOK, AtHand, Final
<1>7. CASE WriteFails
  BY <1>7 DEF WriteFails, TypeOK, AtHand, Final
<1>8. CASE FinishRun
  BY <1>8 DEF FinishRun, TypeOK, AtHand, Final
<1>9. CASE Kill
  BY <1>9 DEF Kill, TypeOK, AtHand, Final
<1>10. CASE RunAgain
  <2>1. run' \in Run /\ Len(run'.sources) \in Nat
    BY <1>10, SourceListsTyped DEF RunAgain, Run
  <2>2. QED
    BY <1>10, <2>1 DEF RunAgain, TypeOK, AtHand, Final
<1>11. CASE ListSources
  BY <1>11 DEF ListSources, TypeOK, AtHand, Final
<1>12. CASE UNCHANGED vars
  BY <1>12 DEF vars, TypeOK, AtHand, Current, out_path
<1>13. QED
  BY <1>1, <1>2, <1>3, <1>4, <1>5, <1>6, <1>7, <1>8, <1>9, <1>10, <1>11, <1>12
  DEF Next, Step, Finished

\* The variables keep their types, and a file that is torn or was announced as
\* saved exists, through any number of runs however they end.
THEOREM TypeCorrect == Spec => []TypeOK
<1>1. IInv => TypeOK
  BY DEF IInv
<1>2. QED
  BY InitInv, StepInv, <1>1, PTL DEF Spec

LEMMA SpecInv == Spec => []IInv
  BY InitInv, StepInv, PTL DEF Spec

LEMMA ProvenanceInit == Init => NameTellsProvenance
<1> SUFFICES ASSUME Init PROVE NameTellsProvenance
  OBVIOUS
<1>1. PICK files \in InitialFiles : disk = [file \in files |-> HandWritten(file)]
  BY DEF Init
<1>2. files \subseteq File
  BY InitialFilesTyped
<1>3. QED
  BY <1>1, <1>2 DEF NameTellsProvenance, HandWritten, File

LEMMA ProvenanceStep ==
  IInv /\ NameTellsProvenance /\ [Next]_vars => NameTellsProvenance'
<1> SUFFICES ASSUME IInv, NameTellsProvenance, [Next]_vars PROVE NameTellsProvenance'
  OBVIOUS
<1>1. CASE OpenFile
  <2>1. source \in DOMAIN run.sources /\ Current \in DOMAIN disk
    BY <1>1 DEF OpenFile, AtHand, IInv
  <2>2. Current \in File /\ run.outDir \in Dir
    BY <2>1, CurrentType DEF IInv
  <2>3. /\ out_path.name = Current.name
        /\ out_path.generated = Current.generated + 1
    BY <2>2, GeneratedType DEF out_path
  <2>4. disk[Current] \in Content
    BY <2>1 DEF IInv, TypeOK
  <2>5. /\ edit_buffer.origin = disk[Current].origin
        /\ edit_buffer.rewrites = disk[Current].rewrites + 1
    BY <2>4, RewrittenType DEF edit_buffer
  <2>6. /\ disk[Current].origin.name = Current.name
        /\ disk[Current].origin.generated + disk[Current].rewrites = Current.generated
    BY <2>1 DEF NameTellsProvenance
  <2>7. /\ disk[Current].rewrites \in Nat
        /\ disk[Current].origin.generated \in Nat
        /\ Current.generated \in Nat
    BY <2>2, <2>4 DEF Content, File
  <2>8. /\ edit_buffer.origin.name = out_path.name
        /\ edit_buffer.origin.generated + edit_buffer.rewrites = out_path.generated
        /\ edit_buffer.rewrites # 0
    BY <2>3, <2>5, <2>6, <2>7
  <2>9. ASSUME NEW file \in DOMAIN disk'
        PROVE  /\ disk'[file].origin.name = file.name
               /\ disk'[file].origin.generated + disk'[file].rewrites = file.generated
               /\ disk'[file].rewrites = 0 => disk'[file].origin = file
    <3>1. disk' = [f \in DOMAIN disk \cup {out_path} |->
                     IF f = out_path THEN edit_buffer ELSE disk[f]]
      BY <1>1 DEF OpenFile
    <3>2. CASE file = out_path
      BY <2>8, <3>1, <3>2
    <3>3. CASE file # out_path
      BY <3>1, <3>3 DEF NameTellsProvenance
    <3>4. QED
      BY <3>2, <3>3
  <2>10. QED
    BY <2>9 DEF NameTellsProvenance
<1>2. CASE UNCHANGED disk
  BY <1>2 DEF NameTellsProvenance
<1>3. [Next]_vars => OpenFile \/ UNCHANGED disk
  BY DEF Next, Step, Finished, vars, ListSources, SkipSource, RewriteSource, RefuseToSave, OpenFails,
         WriteFile, WriteFails, FinishRun, Kill, RunAgain
<1>4. QED
  BY <1>1, <1>2, <1>3

\* Whatever is run, and however it ends, the number of suffixes of a file's name
\* is the number of times its content was rewritten, plus those it was written
\* with: hand-written files survive.
THEOREM ProvenanceKept == Spec => []NameTellsProvenance
  BY SpecInv, ProvenanceInit, ProvenanceStep, PTL DEF Spec

\* While a file is being written it may be torn and announced from an earlier
\* source of the same name, but no other file may.
SavedInv ==
  /\ SavedIsWhole
  /\ pc = "write" => torn \cap saved \subseteq {out_path}

LEMMA SavedInit == Init => SavedInv
  BY DEF Init, SavedInv, SavedIsWhole

LEMMA SavedStep == SavedInv /\ [Next]_vars => SavedInv'
<1> SUFFICES ASSUME SavedInv, [Next]_vars PROVE SavedInv'
  OBVIOUS
<1> USE DEF SavedInv, SavedIsWhole
<1>1. CASE SkipSource
  BY <1>1 DEF SkipSource, InSources
<1>2. CASE RewriteSource
  BY <1>2 DEF RewriteSource, InSources
<1>3. CASE RefuseToSave
  BY <1>3 DEF RefuseToSave
<1>4. CASE OpenFails
  BY <1>4 DEF OpenFails
<1>5. CASE OpenFile
  <2>1. out_path' = out_path
    BY <1>5 DEF OpenFile, out_path, Current
  <2>2. QED
    BY <1>5, <2>1 DEF OpenFile
<1>6. CASE WriteFile
  BY <1>6 DEF WriteFile
<1>7. CASE WriteFails
  BY <1>7 DEF WriteFails
<1>8. CASE FinishRun
  BY <1>8 DEF FinishRun
<1>9. CASE Kill
  BY <1>9 DEF Kill
<1>10. CASE RunAgain
  BY <1>10 DEF RunAgain
<1>11. CASE ListSources
  BY <1>11 DEF ListSources
<1>12. CASE UNCHANGED vars
  BY <1>12 DEF vars, Current, out_path
<1>13. QED
  BY <1>1, <1>2, <1>3, <1>4, <1>5, <1>6, <1>7, <1>8, <1>9, <1>10, <1>11, <1>12
  DEF Next, Step, Finished

\* No file announced as saved is incomplete for as long as the tool works on.
THEOREM SavedWhole == Spec => []SavedIsWhole
<1>1. SavedInv => SavedIsWhole
  BY DEF SavedInv
<1>2. QED
  BY SavedInit, SavedStep, <1>1, PTL DEF Spec

-----------------------------------------------------------------------------
(* A run that completes.  Of the sources it is through with, each usable   *)
(* one has its file, made from the last of those that share it; only the   *)
(* file that is open may be torn.  Nothing of what an earlier run left     *)
(* comes into it, and without feedback no source changes on the way.       *)

Out(i) == Generated(run.sources[i], run.outDir)

\* The source whose file is open counts.
Through == IF pc = "write" THEN source ELSE source - 1

Rival(i, j) == j \in 1..Through /\ Used(j) /\ Out(j) = Out(i)

MadeFrom(i, j) ==
  /\ Rival(i, j)
  /\ \A k : Rival(i, k) => k <= j
  /\ disk[Out(i)] = Rewritten(disk[run.sources[j]])

Working == pc \in {"next", "save", "write", "done"}

ThroughInv ==
  \A i \in 1..Through : Used(i) =>
    /\ Out(i) \in DOMAIN disk
    /\ Out(i) \in torn => pc = "write" /\ Out(i) = out_path
    /\ \E j : MadeFrom(i, j)

ReproInv ==
  /\ pc = "list" => source = 1
  /\ pc = "done" => source > Len(run.sources)
  /\ Working /\ ~Feedback => ThroughInv

LEMMA IndexKnown ==
  ASSUME TypeOK
  PROVE  /\ source \in Nat /\ source >= 1
         /\ Len(run.sources) \in Nat /\ DOMAIN run.sources = 1..Len(run.sources)
         /\ Through \in Nat
<1>1. run.sources \in Seq(File)
  BY SourceListsTyped DEF TypeOK, Run
<1>2. Len(run.sources) \in Nat /\ DOMAIN run.sources = 1..Len(run.sources)
  BY <1>1
<1> QED
  BY <1>2 DEF TypeOK, Through

LEMMA ReproInit == Init => ReproInv
BY DEF Init, ReproInv, Working

\* A step that changes no file and is through with one unusable source more.
LEMMA UnusableStep ==
  ASSUME TypeOK, ThroughInv, pc \in {"next", "save"}, pc' = "next",
         ~Used(source), source' = source + 1, UNCHANGED <<run, disk, torn>>
  PROVE  ThroughInv'
<1>1. Through = source - 1 /\ Through' = source /\ source \in Nat /\ source >= 1
  BY IndexKnown DEF Through
<1>2. \A i : i \in 1..source <=> i \in 1..(source - 1) \/ i = source
  BY <1>1
<1>3. \A i : /\ Used(i)' <=> Used(i)
             /\ Out(i)' = Out(i)
  BY DEF Used, Out
<1>4. \A i, j : Rival(i, j)' <=> Rival(i, j)
  BY <1>1, <1>2, <1>3 DEF Rival
<1>5. \A i, j : MadeFrom(i, j)' <=> MadeFrom(i, j)
  BY <1>3, <1>4 DEF MadeFrom
<1> QED
  BY <1>1, <1>2, <1>3, <1>5 DEF ThroughInv

\* A step that changes neither files nor the sources the run is through with.
LEMMA SameThrough ==
  ASSUME TypeOK, ThroughInv, UNCHANGED <<run, disk>>, Through' = Through,
         torn' = IF pc = "write" THEN torn \ {out_path} ELSE torn
  PROVE  ThroughInv'
<1>1. \A i : /\ Used(i)' <=> Used(i)
             /\ Out(i)' = Out(i)
  BY DEF Used, Out
<1>2. \A i, j : Rival(i, j)' <=> Rival(i, j)
  BY <1>1 DEF Rival
<1>3. \A i, j : MadeFrom(i, j)' <=> MadeFrom(i, j)
  BY <1>1, <1>2 DEF MadeFrom
<1>4. \A i \in 1..Through : Used(i) => Out(i) \notin torn'
  BY DEF ThroughInv
<1> QED
  BY <1>1, <1>3, <1>4 DEF ThroughInv

\* The source at hand gets its file, whatever was there before.
LEMMA OpenStep ==
  ASSUME TypeOK, AtHand, ThroughInv, ~Feedback, OpenFile
  PROVE  ThroughInv'
<1>1. /\ pc = "save" /\ pc' = "write" /\ UNCHANGED <<run, source>>
      /\ Used(source) /\ source \in DOMAIN run.sources
      /\ DOMAIN disk' = DOMAIN disk \cup {Out(source)}
      /\ disk'[Out(source)] = Rewritten(disk[run.sources[source]])
      /\ \A file \in DOMAIN disk : file # Out(source) => disk'[file] = disk[file]
      /\ torn' = torn \cup {Out(source)}
      /\ out_path' = Out(source)
  BY DEF OpenFile, AtHand, Used, Current, out_path, edit_buffer, Out
<1>2. Through = source - 1 /\ Through' = source /\ source \in Nat /\ source >= 1
  BY <1>1, IndexKnown DEF Through
<1>3. \A i : i \in 1..source <=> i \in 1..(source - 1) \/ i = source
  BY <1>2
<1>4. source \in 1..Len(run.sources) /\ Len(run.sources) \in Nat
      /\ DOMAIN run.sources = 1..Len(run.sources)
  BY <1>1, IndexKnown
<1>5. \A i \in 1..source : i \in DOMAIN run.sources
  BY <1>4
<1>6. \A i \in 1..source : run.sources[i] # Out(source)
  BY <1>1, <1>5 DEF Feedback, Out
<1>7. \A i : Out(i)' = Out(i)
  BY <1>1 DEF Out
<1>8. \A i \in 1..source : /\ Used(i)' <=> Used(i)
                           /\ Used(i) => disk'[run.sources[i]] = disk[run.sources[i]]
  BY <1>1, <1>6 DEF Used
<1>9. \A i, j : Rival(i, j)' <=> Rival(i, j) \/ (j = source /\ Out(source) = Out(i))
  BY <1>1, <1>2, <1>3, <1>7, <1>8 DEF Rival
<1>10. ASSUME NEW i \in 1..source, Used(i)'
       PROVE  /\ Out(i)' \in DOMAIN disk'
              /\ Out(i)' \in torn' => Out(i)' = out_path'
              /\ \E j : MadeFrom(i, j)'
  <2>1. CASE Out(i) = Out(source)
    <3>1. Rival(i, source)' /\ \A k : Rival(i, k)' => k <= source
      BY <1>1, <1>2, <1>3, <1>7, <1>8, <2>1 DEF Rival
    <3>2. disk'[Out(i)'] = Rewritten(disk'[run.sources[source]])
      BY <1>1, <1>2, <1>7, <1>8, <2>1
    <3>3. MadeFrom(i, source)'
      BY <1>1, <3>1, <3>2 DEF MadeFrom
    <3> QED
      BY <1>1, <1>7, <2>1, <3>3
  <2>2. CASE Out(i) # Out(source)
    <3>1. i \in 1..Through /\ Used(i)
      BY <1>2, <1>3, <1>8, <1>10, <2>2
    <3>2. Out(i) \in DOMAIN disk /\ Out(i) \notin torn
      BY <1>1, <3>1 DEF ThroughInv
    <3>3. PICK j : MadeFrom(i, j)
      BY <3>1 DEF ThroughInv
    <3>4. Rival(i, j)' /\ \A k : Rival(i, k)' => k <= j
      BY <1>9, <2>2, <3>3 DEF MadeFrom
    <3>5. j \in 1..source /\ Used(j)
      BY <1>2, <1>3, <3>3 DEF MadeFrom, Rival
    <3>6. disk'[Out(i)'] = Rewritten(disk'[run.sources[j]])
      BY <1>1, <1>7, <1>8, <2>2, <3>2, <3>3, <3>5 DEF MadeFrom
    <3>7. MadeFrom(i, j)'
      BY <1>1, <3>4, <3>6 DEF MadeFrom
    <3> QED
      BY <1>1, <1>7, <2>2, <3>2, <3>7
  <2> QED
    BY <2>1, <2>2
<1> QED
  BY <1>1, <1>2, <1>10 DEF ThroughInv

LEMMA ReproStep == IInv /\ ReproInv /\ [Next]_vars => ReproInv'
<1> SUFFICES ASSUME TypeOK, AtHand, ReproInv, [Next]_vars PROVE ReproInv'
  BY DEF IInv
<1>0. source \in Nat /\ source >= 1 /\ source + 1 - 1 = source
  BY IndexKnown
<1> USE DEF Final
<1>1. CASE ListSources
  <2>1. pc = "list" /\ pc' \in {"missing_source", "next"} /\ UNCHANGED <<run, source>>
    BY <1>1 DEF ListSources
  <2>2. pc' = "next" => Through' = 0
    BY <2>1 DEF ReproInv, Through
  <2>3. pc' = "next" => ThroughInv'
    BY <2>2 DEF ThroughInv
  <2> QED
    BY <2>1, <2>3 DEF ReproInv, Working
<1>2. CASE SkipSource \/ RefuseToSave
  <2>1. /\ pc \in {"next", "save"} /\ pc' = "next" /\ source' = source + 1
        /\ UNCHANGED <<run, disk, torn>> /\ ~Used(source)
    BY <1>2 DEF SkipSource, RefuseToSave, InSources, Used, Current
  <2>2. ~Feedback' => ~Feedback
    BY <2>1 DEF Feedback
  <2> QED
    BY <2>1, <2>2, UnusableStep DEF ReproInv, Working
<1>3. CASE RewriteSource \/ WriteFile \/ FinishRun
  <2>1. /\ UNCHANGED <<run, disk>> /\ Working /\ pc' \in {"next", "save", "done"}
        /\ torn' = IF pc = "write" THEN torn \ {out_path} ELSE torn
        /\ pc' = "done" => source' > Len(run'.sources)
    BY <1>3 DEF RewriteSource, WriteFile, FinishRun, InSources, Working
  <2>2. Through' = Through
    BY <1>0, <1>3 DEF RewriteSource, WriteFile, FinishRun, InSources, Through
  <2>3. ~Feedback' => ~Feedback
    BY <2>1 DEF Feedback
  <2> QED
    BY <2>1, <2>2, <2>3, SameThrough DEF ReproInv
<1>4. CASE OpenFile
  <2>1. pc = "save" /\ pc' = "write" /\ UNCHANGED run
    BY <1>4 DEF OpenFile
  <2>2. ~Feedback' => ~Feedback
    BY <2>1 DEF Feedback
  <2> QED
    BY <1>4, <2>1, <2>2, OpenStep DEF ReproInv, Working
<1>5. CASE OpenFails \/ WriteFails \/ Kill
  <2>1. pc' \in {"not_absolute", "failed", "killed"}
    BY <1>5 DEF OpenFails, WriteFails, Kill
  <2> QED
    BY <2>1 DEF ReproInv, Working
<1>6. CASE RunAgain
  BY <1>6 DEF RunAgain, ReproInv, Working
<1>7. CASE UNCHANGED vars
  <2>1. UNCHANGED <<run, pc, source, disk, torn>>
    BY <1>7 DEF vars
  <2>2. (Feedback' <=> Feedback) /\ (Working' <=> Working) /\ (ThroughInv' <=> ThroughInv)
    BY <2>1 DEF Feedback, Working, ThroughInv, MadeFrom, Rival, Used, Out, Through, out_path,
                Current
  <2> QED
    BY <2>1, <2>2 DEF ReproInv
<1> QED
  BY <1>1, <1>2, <1>3, <1>4, <1>5, <1>6, <1>7 DEF Next, Step, Finished

\* What a run that completes leaves depends on its sources alone, not on what
\* failed or killed runs before it have left.
THEOREM RunsReproducible == Spec => []Reproducible
<1>1. IInv /\ ReproInv => Reproducible
  <2> SUFFICES ASSUME IInv, ReproInv, pc = "done", ~Feedback,
                      NEW i \in DOMAIN run.sources, Used(i)
               PROVE  /\ Out(i) \in DOMAIN disk \ torn
                      /\ \E j \in {j \in DOMAIN run.sources : Used(j) /\ Out(j) = Out(i)} :
                           /\ \A k \in {k \in DOMAIN run.sources : Used(k) /\ Out(k) = Out(i)} :
                                k <= j
                           /\ disk[Out(i)] = Rewritten(disk[run.sources[j]])
    BY DEF Reproducible, Out
  <2>1. DOMAIN run.sources = 1..Through
    <3>1. source = Len(run.sources) + 1 /\ Len(run.sources) \in Nat
      BY IndexKnown DEF IInv, ReproInv, TypeOK
    <3> QED
      BY <3>1, IndexKnown DEF Through, IInv
  <2>2. ThroughInv
    BY DEF ReproInv, Working
  <2>3. PICK j : MadeFrom(i, j)
    BY <2>1, <2>2 DEF ThroughInv
  <2>4. Out(i) \in DOMAIN disk \ torn
    BY <2>1, <2>2 DEF ThroughInv
  <2> QED
    BY <2>1, <2>3, <2>4 DEF MadeFrom, Rival
<1> QED
  BY <1>1, InitInv, StepInv, ReproInit, ReproStep, PTL DEF Spec

=============================================================================
