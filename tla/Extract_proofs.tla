--------------------------- MODULE Extract_proofs ---------------------------
(***************************************************************************)
(* Proofs about module Extract, for any scans, recipes, proposals, sizes   *)
(* and interrupts: no extraction changes a file that is not its own, and   *)
(* the file that is reported is there.                                     *)
(***************************************************************************)
EXTENDS Extract, TLAPS

(***************************************************************************)
(* The inductive invariant.                                                *)
(***************************************************************************)

JobRecord ==
    [id : Nat, recipe : Recipes \cup {NoRecipe}, offset : Nat,
     name : Names \cup {NoName}, outfile : Names \cup {NoName}, size : Sizes \cup {None}]

Types ==
    /\ pc \in [Scans -> Places] /\ job \in [Scans -> JobRecord]
    /\ calls \in 0..MaxExtractions /\ spoilt \subseteq 1..calls /\ unmoved \subseteq 1..calls

DirTypes ==
    /\ DOMAIN dir \subseteq Names /\ \A n \in DOMAIN dir : dir[n] \in Entries

Renaming == {"rename", "rename_runs", "compose_new", "rename_file"}
Early == {"compose", "command", "command_runs", "check"} \cup Renaming
Late == Renaming \cup {"postextract", "postextract_runs", "report"}

\* The file of the extraction of s is there, under the name it has now unless the
\* renaming failed.
FileIsThere(s) ==
    /\ \E n \in DOMAIN dir : dir[n].by = job[s].id
    /\ job[s].id \notin unmoved =>
        /\ job[s].outfile \in DOMAIN dir
        /\ dir[job[s].outfile].by = job[s].id /\ dir[job[s].outfile].size = job[s].size

\* What s, from the choice of a name on, knows of the name: nobody else uses it.
NameIsOwn(s) ==
    /\ job[s].outfile \in Names /\ job[s].outfile.key = KeyOf(s, job[s].offset)
    /\ job[s].outfile \in DOMAIN dir => dir[job[s].outfile].by = job[s].id
    /\ pc[s] = "rename_file" => job[s].name \notin DOMAIN dir

ScanInv(s) ==
    pc[s] # "idle" =>
        /\ job[s].id \in 1..calls /\ job[s].recipe \in Recipes /\ job[s].offset \in Offsets
        /\ job[s].name \in Names /\ job[s].name.key = KeyOf(s, job[s].offset)
        /\ pc[s] # "compose" => NameIsOwn(s)
        /\ pc[s] \in Early => job[s].id \notin unmoved
        /\ pc[s] \notin {"postextract_runs", "report"} => job[s].id \notin spoilt
        /\ pc[s] \in Late => job[s].size \in Sizes /\ (job[s].id \notin spoilt => FileIsThere(s))

IdsDiffer == \A s, t \in Scans : pc[s] # "idle" /\ pc[t] # "idle" /\ job[s].id = job[t].id => s = t

ReportedInv ==
    \A r \in reported :
        /\ r.id \in 1..calls /\ r.name \in Names /\ r.size \in Sizes
        /\ \A s \in Scans : pc[s] # "idle" => job[s].id # r.id
        /\ r.id \notin spoilt => \E n \in DOMAIN dir : dir[n].by = r.id
        /\ r.id \notin spoilt \cup unmoved =>
            r.name \in DOMAIN dir /\ dir[r.name].by = r.id /\ dir[r.name].size = r.size

ExtractInv ==
    Types /\ DirTypes /\ (\A s \in Scans : ScanInv(s)) /\ IdsDiffer /\ ReportedInv

(***************************************************************************)
(* What a step of s may do to the rest.                                    *)
(***************************************************************************)

\* s changes its own files only, and makes files with names of its own only.
OwnFilesOnly(s) ==
    /\ \A n \in DOMAIN dir : dir[n].by # job[s].id => n \in DOMAIN dir' /\ dir'[n] = dir[n]
    /\ \A n \in DOMAIN dir' :
        \/ n \in DOMAIN dir /\ dir'[n] = dir[n]
        \/ dir'[n].by = job[s].id /\ n.key = KeyOf(s, job[s].offset)

StepOf(s) ==
    /\ \A t \in Scans \ {s} : pc'[t] = pc[t] /\ job'[t] = job[t]
    /\ calls' \in Nat /\ calls <= calls'
    /\ \/ UNCHANGED <<dir, spoilt, unmoved>>
       \/ /\ pc[s] # "idle" /\ OwnFilesOnly(s)
          /\ spoilt' \in {spoilt, spoilt \cup {job[s].id}}
          /\ unmoved' \in {unmoved, unmoved \cup {job[s].id}}

LEMMA OthersUntouched ==
    ASSUME ExtractInv, NEW s \in Scans, StepOf(s), NEW t \in Scans \ {s}
    PROVE  ScanInv(t)'
  <1> SUFFICES ASSUME pc[t] # "idle" PROVE ScanInv(t)'
    BY DEF StepOf, ScanInv
  <1>1. ScanInv(t) /\ ScanInv(s) /\ pc'[t] = pc[t] /\ job'[t] = job[t] /\ 1..calls \subseteq 1..calls'
    BY DEF ExtractInv, StepOf, Types
  <1>2. CASE UNCHANGED <<dir, spoilt, unmoved>>
    BY <1>1, <1>2 DEF ScanInv, NameIsOwn, FileIsThere
  <1>3. CASE /\ pc[s] # "idle" /\ OwnFilesOnly(s)
             /\ spoilt' \in {spoilt, spoilt \cup {job[s].id}}
             /\ unmoved' \in {unmoved, unmoved \cup {job[s].id}}
    <2>1. job[t].id # job[s].id
      BY <1>3 DEF ExtractInv, IdsDiffer
    <2>2. job[s].offset \in Offsets /\ job[t].offset \in Offsets
      BY <1>1, <1>3 DEF ScanInv
    <2>3. KeyOf(t, job[t].offset) # KeyOf(s, job[s].offset)
      BY <2>2, KeysAssumption
    <2>4. (job[t].id \in spoilt' <=> job[t].id \in spoilt) /\ (job[t].id \in unmoved' <=> job[t].id \in unmoved)
      BY <1>3, <2>1
    <2>5. \A n \in DOMAIN dir : dir[n].by = job[t].id => n \in DOMAIN dir' /\ dir'[n] = dir[n]
      BY <1>3, <2>1 DEF OwnFilesOnly
    <2>6. \A n \in DOMAIN dir' : n.key = KeyOf(t, job[t].offset) => n \in DOMAIN dir /\ dir'[n] = dir[n]
      BY <1>3, <2>3 DEF OwnFilesOnly
    <2>7. pc[t] # "compose" => NameIsOwn(t)'
      BY <1>1, <2>6 DEF ScanInv, NameIsOwn
    <2>8. FileIsThere(t) => FileIsThere(t)'
      BY <1>1, <2>4, <2>5 DEF FileIsThere
    <2> QED
      BY <1>1, <2>4, <2>7, <2>8 DEF ScanInv
  <1> QED
    BY <1>2, <1>3 DEF StepOf

LEMMA ReportsUntouched ==
    ASSUME ExtractInv, NEW s \in Scans, StepOf(s), NEW r \in reported
    PROVE  /\ r.id \in spoilt' <=> r.id \in spoilt
           /\ r.id \in unmoved' <=> r.id \in unmoved
           /\ \A n \in DOMAIN dir : dir[n].by = r.id => n \in DOMAIN dir' /\ dir'[n] = dir[n]
  <1>1. pc[s] # "idle" => job[s].id # r.id
    BY DEF ExtractInv, ReportedInv
  <1> QED
    BY <1>1 DEF StepOf, OwnFilesOnly

\* The whole invariant follows from what s does to its own part of the state.
LEMMA StepKeeps ==
    ASSUME ExtractInv, NEW s \in Scans, StepOf(s), Types', DirTypes', ScanInv(s)',
           pc'[s] # "idle" => pc[s] # "idle" /\ job'[s].id = job[s].id,
           reported' = reported
    PROVE  ExtractInv'
  <1>1. \A t \in Scans : ScanInv(t)'
    BY OthersUntouched
  <1>2. IdsDiffer'
    BY DEF ExtractInv, IdsDiffer, StepOf
  <1>3. ReportedInv'
    <2> SUFFICES ASSUME NEW r \in reported
                 PROVE  /\ r.id \in 1..calls' /\ r.name \in Names /\ r.size \in Sizes
                        /\ \A t \in Scans : pc'[t] # "idle" => job'[t].id # r.id
                        /\ r.id \notin spoilt' => \E n \in DOMAIN dir' : dir'[n].by = r.id
                        /\ r.id \notin spoilt' \cup unmoved' =>
                            r.name \in DOMAIN dir' /\ dir'[r.name].by = r.id /\ dir'[r.name].size = r.size
      BY DEF ReportedInv
    <2>1. /\ r.id \in 1..calls /\ r.name \in Names /\ r.size \in Sizes
          /\ \A t \in Scans : pc[t] # "idle" => job[t].id # r.id
          /\ r.id \notin spoilt => \E n \in DOMAIN dir : dir[n].by = r.id
          /\ r.id \notin spoilt \cup unmoved =>
              r.name \in DOMAIN dir /\ dir[r.name].by = r.id /\ dir[r.name].size = r.size
      BY DEF ExtractInv, ReportedInv
    <2>2. /\ r.id \in spoilt' <=> r.id \in spoilt
          /\ r.id \in unmoved' <=> r.id \in unmoved
          /\ \A n \in DOMAIN dir : dir[n].by = r.id => n \in DOMAIN dir' /\ dir'[n] = dir[n]
      BY ReportsUntouched
    <2>3. r.id \in 1..calls'
      BY <2>1 DEF StepOf, ExtractInv, Types
    <2>4. \A t \in Scans : pc'[t] # "idle" => job'[t].id # r.id
      BY <2>1 DEF StepOf
    <2> QED
      BY <2>1, <2>2, <2>3, <2>4
  <1> QED
    BY <1>1, <1>2, <1>3 DEF ExtractInv

(***************************************************************************)
(* Steps that leave the directory alone.                                   *)
(***************************************************************************)

LEMMA InitHolds == Init => ExtractInv
  <1> SUFFICES ASSUME Init PROVE ExtractInv
    OBVIOUS
  <1>1. NoJob \in JobRecord
    BY DEF NoJob, JobRecord
  <1>2. Types
    BY <1>1, SizesAssumption DEF Init, Types, Places
  <1>3. DirTypes
    BY LeftoversAssumption DEF Init, DirTypes
  <1> QED
    BY <1>2, <1>3 DEF Init, ExtractInv, ScanInv, IdsDiffer, ReportedInv

LEMMA PlainStep ==
    ASSUME ExtractInv, NEW s \in Scans, pc[s] # "idle",
           NEW place \in Places, Goes(s, place),
           NEW j \in JobRecord, job' = [job EXCEPT ![s] = j],
           UNCHANGED <<dir, calls, reported, spoilt, unmoved>>,
           place # "idle" => j.id = job[s].id,
           ScanInv(s)'
    PROVE  ExtractInv'
  <1>1. pc'[s] = place /\ job'[s] = j
    BY DEF Goes, ExtractInv, Types
  <1>2. StepOf(s)
    BY DEF StepOf, Goes, ExtractInv, Types
  <1>3. Types'
    BY DEF Goes, ExtractInv, Types
  <1>4. DirTypes'
    BY DEF ExtractInv, DirTypes
  <1> QED
    BY <1>1, <1>2, <1>3, <1>4, StepKeeps

LEMMA ReturnKeeps ==
    ASSUME ExtractInv, NEW s \in Scans, pc[s] # "idle", Returns(s), UNCHANGED <<dir, calls, reported, spoilt, unmoved>>
    PROVE  ExtractInv'
  <1>1. NoJob \in JobRecord /\ "idle" \in Places
    BY DEF NoJob, JobRecord, Places
  <1>2. pc'[s] = "idle"
    BY DEF Returns, Goes, ExtractInv, Types
  <1>3. ScanInv(s)'
    BY <1>2 DEF ScanInv
  <1> QED
    BY <1>1, <1>3, PlainStep DEF Returns, ExtractInv, Types

\* A step that leaves the job alone, too.
LEMMA GoKeeps ==
    ASSUME ExtractInv, NEW s \in Scans, pc[s] # "idle", NEW place \in Places \ {"idle"}, Goes(s, place),
           UNCHANGED <<job, dir, calls, reported, spoilt, unmoved>>,
           place # "compose",
           pc[s] # "compose",
           place \in Early => pc[s] \in Early,
           place = "rename_file" => job[s].name \notin DOMAIN dir,
           pc[s] \in {"postextract_runs", "report"} => place \in {"postextract_runs", "report"},
           place \in Late => pc[s] \in Late
    PROVE  ExtractInv'
  <1>1. job[s] \in JobRecord /\ job = [job EXCEPT ![s] = job[s]]
    BY DEF ExtractInv, Types
  <1>2. pc'[s] = place
    BY DEF Goes, ExtractInv, Types
  <1>3. ScanInv(s)
    BY DEF ExtractInv
  <1>4. NameIsOwn(s)'
    BY <1>2, <1>3 DEF ScanInv, NameIsOwn
  <1>5. FileIsThere(s) => FileIsThere(s)'
    BY DEF FileIsThere
  <1>6. ScanInv(s)'
    BY <1>2, <1>3, <1>4, <1>5 DEF ScanInv
  <1> QED
    BY <1>1, <1>6, PlainStep

\* The steps of GoKeeps.
LEMMA RunsKeep ==
    ASSUME ExtractInv, NEW s \in Scans,
           \/ RunCommand(s) \/ CommandEnds(s) \/ RunRename(s) \/ RunRenameFails(s) \/ RenameSilent(s)
           \/ NewNameChosen(s) \/ RunPostextract(s) \/ RunPostextractFails(s) \/ PostextractEnds(s)
    PROVE  ExtractInv'
  <1>1. job \in [Scans -> JobRecord] /\ pc \in [Scans -> Places] /\ ScanInv(s)
    BY DEF ExtractInv, Types
  <1>4. CASE RunCommand(s)
    BY <1>1, <1>4, GoKeeps DEF RunCommand, StartChild, Places, Renaming, Early, Late
  <1>5. CASE CommandEnds(s)
    BY <1>1, <1>5, GoKeeps DEF CommandEnds, Places, Renaming, Early, Late
  <1>6. CASE RunRename(s)
    BY <1>1, <1>6, GoKeeps DEF RunRename, StartChild, Places, Renaming, Early, Late
  <1>7. AfterRename(s) \in {"postextract", "report"}
    BY DEF AfterRename
  <1>8. CASE RunRenameFails(s)
    BY <1>1, <1>7, <1>8, GoKeeps DEF RunRenameFails, Places, Renaming, Early, Late
  <1>9. CASE RenameSilent(s)
    BY <1>1, <1>7, <1>9, GoKeeps DEF RenameSilent, Places, Renaming, Early, Late
  <1>10. CASE NewNameChosen(s)
    BY <1>1, <1>10, GoKeeps DEF NewNameChosen, Taken, Places, Renaming, Early, Late
  <1>11. CASE RunPostextract(s)
    BY <1>1, <1>11, GoKeeps DEF RunPostextract, StartChild, Places, Renaming, Early, Late
  <1>12. CASE RunPostextractFails(s)
    BY <1>1, <1>12, GoKeeps DEF RunPostextractFails, Places, Renaming, Early, Late
  <1>13. CASE PostextractEnds(s)
    BY <1>1, <1>13, GoKeeps DEF PostextractEnds, Places, Renaming, Early, Late
  <1> QED
    BY <1>4, <1>5, <1>6, <1>8, <1>9, <1>10, <1>11, <1>12, <1>13

(***************************************************************************)
(* Steps that choose names or see the size.                                *)
(***************************************************************************)

LEMMA NamesAre ==
    ASSUME NEW s \in Scans, NEW o \in Offsets, NEW ext \in Extensions
    PROVE  FirstName(s, o, ext) \in Names /\ FirstName(s, o, ext).key = KeyOf(s, o)
           /\ FirstName(s, o, ext).ext = ext
  <1>1. KeyOf(s, o) \in Keys
    BY DEF Keys
  <1> QED
    BY <1>1 DEF Names, FirstName

LEMMA TryNextKeeps ==
    ASSUME ExtractInv, NEW s \in Scans, TryNext(s)
    PROVE  ExtractInv'
  <1> DEFINE j == [job[s] EXCEPT !.name = NextName(@)]
  <1>1. job \in [Scans -> JobRecord] /\ pc \in [Scans -> Places] /\ ScanInv(s)
    BY DEF ExtractInv, Types
  <1>2. pc[s] \in {"compose", "compose_new"} /\ job[s].name \in Names
    BY <1>1 DEF TryNext, ScanInv
  <1>3. /\ NextName(job[s].name) \in Names /\ NextName(job[s].name).key = job[s].name.key
        /\ NextName(job[s].name).ext = job[s].name.ext
    BY <1>2 DEF Names, NextName
  <1>4. /\ j \in JobRecord /\ j.id = job[s].id /\ j.recipe = job[s].recipe /\ j.offset = job[s].offset
        /\ j.name = NextName(job[s].name) /\ j.outfile = job[s].outfile /\ j.size = job[s].size
    BY <1>1, <1>3 DEF JobRecord
  <1>5. job' = [job EXCEPT ![s] = j] /\ Goes(s, pc[s]) /\ job'[s] = j /\ pc'[s] = pc[s]
    BY <1>1 DEF TryNext, Goes
  <1> HIDE DEF j
  <1>6. NameIsOwn(s) => NameIsOwn(s)'
    BY <1>2, <1>4, <1>5 DEF NameIsOwn, TryNext
  <1>7. FileIsThere(s) => FileIsThere(s)'
    BY <1>4, <1>5 DEF FileIsThere, TryNext
  <1>8. ScanInv(s)'
    BY <1>1, <1>2, <1>3, <1>4, <1>5, <1>6, <1>7 DEF ScanInv, TryNext
  <1> QED
    BY <1>1, <1>2, <1>4, <1>5, <1>8, PlainStep DEF TryNext

LEMMA NameChosenKeeps ==
    ASSUME ExtractInv, NEW s \in Scans, NameChosen(s)
    PROVE  ExtractInv'
  <1> DEFINE j == [job[s] EXCEPT !.outfile = job[s].name]
  <1>1. job \in [Scans -> JobRecord] /\ pc \in [Scans -> Places] /\ ScanInv(s)
    BY DEF ExtractInv, Types
  <1>2. pc[s] = "compose" /\ job[s].name \in Names /\ job[s].name \notin DOMAIN dir
    BY <1>1 DEF NameChosen, ScanInv, Taken
  <1>3. /\ j \in JobRecord /\ j.id = job[s].id /\ j.recipe = job[s].recipe /\ j.offset = job[s].offset
        /\ j.name = job[s].name /\ j.outfile = job[s].name /\ j.size = job[s].size
    BY <1>1, <1>2 DEF JobRecord
  <1>4. job' = [job EXCEPT ![s] = j] /\ job'[s] = j /\ pc'[s] = "command"
    BY <1>1 DEF NameChosen, Goes
  <1> HIDE DEF j
  <1>5. ScanInv(s)'
    BY <1>1, <1>2, <1>3, <1>4 DEF ScanInv, NameIsOwn, NameChosen, Early, Late, Renaming
  <1> QED
    BY <1>1, <1>2, <1>3, <1>4, <1>5, PlainStep DEF NameChosen, Places

LEMMA RenameProposesKeeps ==
    ASSUME ExtractInv, NEW s \in Scans, RenameProposes(s)
    PROVE  ExtractInv'
  <1>1. job \in [Scans -> JobRecord] /\ pc \in [Scans -> Places] /\ ScanInv(s)
    BY DEF ExtractInv, Types
  <1>2. pc[s] = "rename_runs" /\ job[s].offset \in Offsets
    BY <1>1 DEF RenameProposes, ScanInv
  <1>3. PICK ext \in Proposals : job' = [job EXCEPT ![s].name = FirstName(s, job[s].offset, ext)]
    BY DEF RenameProposes
  <1> DEFINE j == [job[s] EXCEPT !.name = FirstName(s, job[s].offset, ext)]
  <1>4. FirstName(s, job[s].offset, ext) \in Names /\ FirstName(s, job[s].offset, ext).key = KeyOf(s, job[s].offset)
    BY <1>2, NamesAre DEF Extensions
  <1>5. /\ j \in JobRecord /\ j.id = job[s].id /\ j.recipe = job[s].recipe /\ j.offset = job[s].offset
        /\ j.name = FirstName(s, job[s].offset, ext) /\ j.outfile = job[s].outfile /\ j.size = job[s].size
    BY <1>1, <1>4 DEF JobRecord
  <1>6. job' = [job EXCEPT ![s] = j] /\ job'[s] = j /\ pc'[s] = "compose_new"
    BY <1>1, <1>3 DEF RenameProposes, Goes
  <1> HIDE DEF j
  <1>7. NameIsOwn(s)'
    BY <1>1, <1>2, <1>5, <1>6 DEF ScanInv, NameIsOwn, RenameProposes, Renaming
  <1>8. FileIsThere(s) => FileIsThere(s)'
    BY <1>5, <1>6 DEF FileIsThere, RenameProposes
  <1>9. ScanInv(s)'
    BY <1>1, <1>2, <1>4, <1>5, <1>6, <1>7, <1>8 DEF ScanInv, RenameProposes, Early, Late, Renaming
  <1> QED
    BY <1>1, <1>2, <1>5, <1>6, <1>9, PlainStep DEF RenameProposes, Places

LEMMA OutputFoundKeeps ==
    ASSUME ExtractInv, NEW s \in Scans, OutputFound(s)
    PROVE  ExtractInv'
  <1> DEFINE size == dir[job[s].outfile].size
             j == [job[s] EXCEPT !.size = size]
  <1>1. job \in [Scans -> JobRecord] /\ pc \in [Scans -> Places] /\ ScanInv(s)
    BY DEF ExtractInv, Types
  <1>2. pc[s] = "check" /\ job[s].outfile \in DOMAIN dir
    BY DEF OutputFound, StatSucceeds
  <1>3. dir[job[s].outfile].by = job[s].id /\ job[s].id \notin unmoved
    BY <1>1, <1>2 DEF ScanInv, NameIsOwn, Early
  <1>4. size \in Sizes
    BY <1>2 DEF ExtractInv, DirTypes, Entries
  <1>5. /\ j \in JobRecord /\ j.id = job[s].id /\ j.recipe = job[s].recipe /\ j.offset = job[s].offset
        /\ j.name = job[s].name /\ j.outfile = job[s].outfile /\ j.size = size
    BY <1>1, <1>4 DEF JobRecord
  <1>6. AfterCheck(s) \in {"rename", "postextract", "report"}
    BY DEF AfterCheck, AfterRename
  <1>7. job' = [job EXCEPT ![s] = j] /\ job'[s] = j /\ pc'[s] = AfterCheck(s)
    BY <1>1 DEF OutputFound, Goes
  <1> HIDE DEF j
  <1>8. FileIsThere(s)'
    BY <1>2, <1>3, <1>5, <1>7 DEF FileIsThere, OutputFound
  <1>9. NameIsOwn(s)'
    BY <1>1, <1>2, <1>3, <1>5, <1>6, <1>7 DEF ScanInv, NameIsOwn, OutputFound
  <1>10. ScanInv(s)'
    BY <1>1, <1>2, <1>3, <1>4, <1>5, <1>6, <1>7, <1>8, <1>9 DEF ScanInv, OutputFound
  <1> QED
    BY <1>1, <1>2, <1>5, <1>6, <1>7, <1>10, PlainStep DEF OutputFound, Places

(***************************************************************************)
(* Steps that change the directory.                                        *)
(***************************************************************************)

LEMMA ResizeFacts ==
    ASSUME NEW n \in DOMAIN dir, NEW size \in Sizes, DirTypes, dir' = [dir EXCEPT ![n].size = size]
    PROVE  /\ DirTypes' /\ DOMAIN dir' = DOMAIN dir
           /\ \A x \in DOMAIN dir \ {n} : dir'[x] = dir[x]
           /\ dir'[n].by = dir[n].by
  <1>1. DOMAIN dir' = DOMAIN dir /\ \A x \in DOMAIN dir \ {n} : dir'[x] = dir[x]
    OBVIOUS
  <1>2. dir[n] \in Entries /\ dir'[n] = [dir[n] EXCEPT !.size = size]
    BY DEF DirTypes
  <1>3. dir'[n] \in Entries /\ dir'[n].by = dir[n].by
    BY <1>2 DEF Entries
  <1> QED
    BY <1>1, <1>3 DEF DirTypes

LEMMA DirStep ==
    ASSUME ExtractInv, NEW s \in Scans, pc[s] # "idle",
           NEW place \in Places, Goes(s, place), NEW j \in JobRecord, job' = [job EXCEPT ![s] = j],
           OwnFilesOnly(s), spoilt' \in {spoilt, spoilt \cup {job[s].id}},
           unmoved' \in {unmoved, unmoved \cup {job[s].id}},
           calls' = calls, reported' = reported,
           place # "idle" => j.id = job[s].id,
           DirTypes', ScanInv(s)'
    PROVE  ExtractInv'
  <1>1. pc'[s] = place /\ job'[s] = j
    BY DEF Goes, ExtractInv, Types
  <1>2. StepOf(s)
    BY DEF StepOf, Goes, ExtractInv, Types
  <1>3. job[s].id \in 1..calls
    BY DEF ExtractInv, ScanInv
  <1>4. Types'
    BY <1>3 DEF Goes, ExtractInv, Types
  <1> QED
    BY <1>1, <1>2, <1>4, StepKeeps

LEMMA CommandWritesOwn ==
    ASSUME ExtractInv, NEW s \in Scans, CommandWrites(s)
    PROVE  OwnFilesOnly(s) /\ DirTypes' /\ job[s].outfile \in DOMAIN dir' /\ dir'[job[s].outfile].by = job[s].id
  <1> DEFINE o == job[s].outfile
  <1>1. DirTypes /\ ScanInv(s) /\ pc[s] = "command_runs"
    BY DEF ExtractInv, CommandWrites
  <1>2. o \in Names /\ o.key = KeyOf(s, job[s].offset) /\ job[s].id \in Nat
        /\ (o \in DOMAIN dir => dir[o].by = job[s].id)
    BY <1>1 DEF ScanInv, NameIsOwn, ExtractInv, Types
  <1>3. PICK size \in Sizes :
            dir' = IF Taken(o) THEN [dir EXCEPT ![o].size = size]
                   ELSE With(dir, o, [by |-> job[s].id, kind |-> "file", size |-> size])
    BY DEF CommandWrites
  <1> HIDE DEF o
  <1>4. CASE o \in DOMAIN dir
    BY <1>1, <1>2, <1>3, <1>4, ResizeFacts DEF Taken, OwnFilesOnly, o
  <1>5. CASE o \notin DOMAIN dir
    <2> DEFINE e == [by |-> job[s].id, kind |-> "file", size |-> size]
    <2>1. e \in Entries /\ e.by = job[s].id
      BY <1>2 DEF Entries, Kinds
    <2> HIDE DEF e
    <2>2. dir' = With(dir, o, e)
      BY <1>3, <1>5 DEF Taken, e
    <2>3. DOMAIN dir' = DOMAIN dir \cup {o} /\ dir'[o] = e /\ \A x \in DOMAIN dir : dir'[x] = dir[x]
      BY <1>5, <2>2 DEF With
    <2> QED
      BY <1>1, <1>2, <1>5, <2>1, <2>3 DEF OwnFilesOnly, DirTypes, o
  <1> QED
    BY <1>4, <1>5

LEMMA CommandWritesKeeps ==
    ASSUME ExtractInv, NEW s \in Scans, CommandWrites(s)
    PROVE  ExtractInv'
  <1>1. job \in [Scans -> JobRecord] /\ pc \in [Scans -> Places] /\ ScanInv(s) /\ pc[s] = "command_runs"
    BY DEF ExtractInv, Types, CommandWrites
  <1>2. job[s] \in JobRecord /\ job' = [job EXCEPT ![s] = job[s]] /\ Goes(s, pc[s])
    BY <1>1 DEF CommandWrites, Goes
  <1>3. ScanInv(s)'
    BY <1>1, CommandWritesOwn DEF CommandWrites, ScanInv, NameIsOwn, Early, Late, Renaming
  <1> QED
    BY <1>1, <1>2, <1>3, CommandWritesOwn, DirStep DEF CommandWrites

LEMMA RemovesOwn ==
    ASSUME ExtractInv, NEW s \in Scans, pc[s] # "idle", NEW n \in DOMAIN dir, dir[n].by = job[s].id,
           dir' = Without(dir, n)
    PROVE  OwnFilesOnly(s) /\ DirTypes'
  <1>1. DirTypes
    BY DEF ExtractInv
  <1>2. DOMAIN dir' = DOMAIN dir \ {n} /\ \A x \in DOMAIN dir' : dir'[x] = dir[x]
    BY DEF Without
  <1> QED
    BY <1>1, <1>2 DEF OwnFilesOnly, DirTypes

LEMMA OutputTooSmallOwn ==
    ASSUME ExtractInv, NEW s \in Scans, OutputTooSmall(s)
    PROVE  OwnFilesOnly(s) /\ DirTypes'
  <1>1. pc[s] = "check" /\ ScanInv(s) /\ job[s].outfile \in DOMAIN dir /\ dir' = Without(dir, job[s].outfile)
    BY DEF OutputTooSmall, StatSucceeds, ExtractInv
  <1>2. dir[job[s].outfile].by = job[s].id
    BY <1>1 DEF ScanInv, NameIsOwn
  <1> QED
    BY <1>1, <1>2, RemovesOwn

LEMMA OutputTooSmallKeeps ==
    ASSUME ExtractInv, NEW s \in Scans, OutputTooSmall(s)
    PROVE  ExtractInv'
  <1>1. pc \in [Scans -> Places] /\ pc[s] = "check" /\ Returns(s)
    BY DEF OutputTooSmall, ExtractInv, Types
  <1>2. NoJob \in JobRecord /\ "idle" \in Places
    BY DEF NoJob, JobRecord, Places
  <1>3. ScanInv(s)'
    BY <1>1 DEF ScanInv, Returns, Goes
  <1> QED
    BY <1>1, <1>2, <1>3, OutputTooSmallOwn, DirStep DEF OutputTooSmall, Returns

LEMMA RenameFileOwn ==
    ASSUME ExtractInv, NEW s \in Scans, RenameFile(s)
    PROVE  /\ OwnFilesOnly(s) /\ DirTypes'
           /\ \E n \in DOMAIN dir' : dir'[n].by = job[s].id
           /\ job[s].name \in DOMAIN dir' => dir'[job[s].name].by = job[s].id
           /\ unmoved' \in {unmoved, unmoved \cup {job[s].id}}
           /\ job[s].id \notin unmoved' =>
               job[s].name \in DOMAIN dir' /\ dir'[job[s].name].size = job[s].size
  <1> DEFINE o == job[s].outfile
             n == job[s].name
             w == Without(dir, o)
  <1>1. pc[s] = "rename_file" /\ ScanInv(s) /\ DirTypes
    BY DEF RenameFile, ExtractInv
  <1>2. /\ o \in DOMAIN dir /\ dir[o].by = job[s].id /\ dir[o].size = job[s].size
        /\ n \notin DOMAIN dir /\ n \in Names /\ n.key = KeyOf(s, job[s].offset)
    BY <1>1 DEF ScanInv, NameIsOwn, FileIsThere, Early, Late, Renaming
  <1>3. CASE dir' = dir /\ unmoved' = unmoved \cup {job[s].id}
    BY <1>1, <1>2, <1>3 DEF OwnFilesOnly, DirTypes
  <1>4. CASE dir' = With(w, n, dir[o]) /\ unmoved' = unmoved
    <2>1. dir' = With(w, n, dir[o])
      BY <1>4
    <2>2. DOMAIN w = DOMAIN dir \ {o} /\ \A x \in DOMAIN w : w[x] = dir[x]
      BY DEF Without
    <2> HIDE DEF w
    <2>3. DOMAIN dir' = (DOMAIN dir \ {o}) \cup {n} /\ dir'[n] = dir[o]
          /\ \A x \in DOMAIN w \ {n} : dir'[x] = w[x]
      BY <2>1, <2>2 DEF With
    <2>4. \A x \in DOMAIN dir \ {o} : dir'[x] = dir[x]
      BY <1>2, <2>2, <2>3
    <2>5. OwnFilesOnly(s)
      BY <1>2, <2>3, <2>4 DEF OwnFilesOnly
    <2>6. DirTypes'
      BY <1>1, <1>2, <2>3, <2>4 DEF DirTypes
    <2> QED
      BY <1>2, <1>4, <2>3, <2>5, <2>6
  <1> QED
    BY <1>3, <1>4 DEF RenameFile, Renamed

LEMMA RenameFileKeeps ==
    ASSUME ExtractInv, NEW s \in Scans, RenameFile(s)
    PROVE  ExtractInv'
  <1> DEFINE j == [job[s] EXCEPT !.outfile = job[s].name]
  <1>1. job \in [Scans -> JobRecord] /\ pc \in [Scans -> Places] /\ ScanInv(s) /\ pc[s] = "rename_file"
    BY DEF ExtractInv, Types, RenameFile
  <1>2. job[s].name \in Names
    BY <1>1 DEF ScanInv
  <1>3. /\ j \in JobRecord /\ j.id = job[s].id /\ j.recipe = job[s].recipe /\ j.offset = job[s].offset
        /\ j.name = job[s].name /\ j.outfile = job[s].name /\ j.size = job[s].size
    BY <1>1, <1>2 DEF JobRecord
  <1>4. AfterRename(s) \in {"postextract", "report"}
    BY DEF AfterRename
  <1>5. job' = [job EXCEPT ![s] = j] /\ job'[s] = j /\ pc'[s] = AfterRename(s)
    BY <1>1 DEF RenameFile, BecomesNewName, Goes
  <1> HIDE DEF j
  <1>6. NameIsOwn(s)'
    BY <1>1, <1>2, <1>3, <1>4, <1>5, RenameFileOwn DEF ScanInv, NameIsOwn, Renaming
  <1>7. FileIsThere(s)'
    BY <1>3, <1>5, RenameFileOwn DEF FileIsThere
  <1>8. ScanInv(s)'
    BY <1>1, <1>2, <1>3, <1>4, <1>5, <1>6, <1>7 DEF ScanInv, RenameFile, Early, Late, Renaming
  <1> QED
    BY <1>1, <1>3, <1>4, <1>5, <1>8, RenameFileOwn, DirStep DEF RenameFile, Places

LEMMA PostextractChangesOwn ==
    ASSUME ExtractInv, NEW s \in Scans, PostextractChanges(s)
    PROVE  /\ OwnFilesOnly(s) /\ DirTypes'
           /\ job[s].outfile \in DOMAIN dir' => dir'[job[s].outfile].by = job[s].id
  <1> DEFINE o == job[s].outfile
  <1>1. pc[s] = "postextract_runs" /\ ScanInv(s) /\ o \in DOMAIN dir /\ DirTypes
    BY DEF PostextractChanges, Taken, ExtractInv
  <1>2. dir[o].by = job[s].id /\ o.key = KeyOf(s, job[s].offset)
    BY <1>1 DEF ScanInv, NameIsOwn
  <1>3. CASE dir' = Without(dir, o)
    <2>1. job[s].outfile \notin DOMAIN dir'
      BY <1>3 DEF Without
    <2> QED
      BY <1>1, <1>2, <1>3, <2>1, RemovesOwn
  <1>4. CASE \E size \in Sizes : dir' = [dir EXCEPT ![o].size = size]
    BY <1>1, <1>2, <1>4, ResizeFacts DEF OwnFilesOnly
  <1> QED
    BY <1>3, <1>4 DEF PostextractChanges

LEMMA PostextractChangesKeeps ==
    ASSUME ExtractInv, NEW s \in Scans, PostextractChanges(s)
    PROVE  ExtractInv'
  <1>1. job \in [Scans -> JobRecord] /\ pc \in [Scans -> Places] /\ ScanInv(s) /\ pc[s] = "postextract_runs"
    BY DEF ExtractInv, Types, PostextractChanges
  <1>2. job[s] \in JobRecord /\ job' = [job EXCEPT ![s] = job[s]] /\ Goes(s, pc[s])
    BY <1>1 DEF PostextractChanges, Goes
  <1>3. ScanInv(s)'
    BY <1>1, PostextractChangesOwn DEF PostextractChanges, ScanInv, NameIsOwn, Early, Renaming
  <1> QED
    BY <1>1, <1>2, <1>3, PostextractChangesOwn, DirStep DEF PostextractChanges

(***************************************************************************)
(* The first and the last step of an extraction.                           *)
(***************************************************************************)

LEMMA ExtractKeeps ==
    ASSUME ExtractInv, NEW s \in Scans, Extract(s)
    PROVE  ExtractInv'
  <1>1. job \in [Scans -> JobRecord] /\ pc \in [Scans -> Places] /\ pc[s] = "idle" /\ calls < MaxExtractions
        /\ calls \in Nat /\ calls' = calls + 1 /\ calls' \in 0..MaxExtractions
    BY SizesAssumption DEF ExtractInv, Types, Extract
  <1>2. PICK r \in Recipes, o \in Offsets :
            job' = [job EXCEPT ![s] =
                [id |-> calls + 1, recipe |-> r, offset |-> o,
                 name |-> FirstName(s, o, r.extension), outfile |-> NoName, size |-> None]]
    BY DEF Extract
  <1> DEFINE name == FirstName(s, o, r.extension)
             j == [id |-> calls + 1, recipe |-> r, offset |-> o,
                   name |-> name, outfile |-> NoName, size |-> None]
  <1>3. name \in Names /\ name.key = KeyOf(s, o) /\ name.ext = r.extension
    BY NamesAre DEF Extensions
  <1> HIDE DEF name
  <1>4. j \in JobRecord /\ j.id = calls + 1 /\ j.recipe = r /\ j.offset = o /\ j.name = name
    BY <1>1, <1>3, SizesAssumption DEF JobRecord
  <1> HIDE DEF j
  <1>5. job' = [job EXCEPT ![s] = j] /\ pc' = [pc EXCEPT ![s] = "compose"] /\ "compose" \in Places
    BY <1>2 DEF Extract, Goes, Places, j, name
  <1>6. job'[s] = j /\ pc'[s] = "compose" /\ \A t \in Scans \ {s} : job'[t] = job[t] /\ pc'[t] = pc[t]
    BY <1>1, <1>5
  <1>7. StepOf(s)
    BY <1>1, <1>6 DEF StepOf, Extract
  <1>8. \A t \in Scans : pc[t] # "idle" => job[t].id \in 1..calls
    BY DEF ExtractInv, ScanInv
  <1>9. spoilt \cup unmoved \subseteq 1..calls /\ calls + 1 \notin 1..calls /\ calls + 1 \in 1..(calls + 1)
    BY <1>1 DEF ExtractInv, Types
  <1>10. Types'
    BY <1>1, <1>4, <1>5, <1>9 DEF ExtractInv, Types, Extract
  <1>11. DirTypes'
    BY DEF ExtractInv, DirTypes, Extract
  <1>13. ScanInv(s)'
    BY <1>1, <1>3, <1>4, <1>6, <1>9 DEF ScanInv, Extract, Early, Late, Renaming
  <1>14. \A t \in Scans : ScanInv(t)'
    BY <1>7, <1>13, OthersUntouched
  <1>15. IdsDiffer'
    <2>1. \A t \in Scans \ {s} : pc[t] # "idle" => job[t].id # calls + 1
      BY <1>8, <1>9
    <2> QED
      BY <1>4, <1>6, <2>1 DEF ExtractInv, IdsDiffer
  <1>16. ReportedInv'
    <2>1. \A q \in reported : q.id \in 1..calls /\ q.id # calls + 1
      BY <1>9 DEF ExtractInv, ReportedInv
    <2>2. \A q \in reported : q.id \in 1..calls'
      BY <1>1, <2>1
    <2>3. \A q \in reported : \A t \in Scans : pc'[t] # "idle" => job'[t].id # q.id
      BY <1>4, <1>6, <2>1 DEF ExtractInv, ReportedInv
    <2> QED
      BY <2>2, <2>3 DEF ExtractInv, ReportedInv, Extract
  <1> QED
    BY <1>10, <1>11, <1>14, <1>15, <1>16 DEF ExtractInv

LEMMA ReportKeeps ==
    ASSUME ExtractInv, NEW s \in Scans, Report(s)
    PROVE  ExtractInv'
  <1> DEFINE new == [id |-> job[s].id, name |-> job[s].outfile, size |-> job[s].size]
  <1>1. job \in [Scans -> JobRecord] /\ pc \in [Scans -> Places] /\ pc[s] = "report" /\ ScanInv(s)
    BY DEF ExtractInv, Types, Report
  <1>2. NoJob \in JobRecord /\ "idle" \in Places
    BY DEF NoJob, JobRecord, Places
  <1>3. pc'[s] = "idle" /\ \A t \in Scans \ {s} : job'[t] = job[t] /\ pc'[t] = pc[t]
    BY <1>1 DEF Report, Returns, Goes
  <1>4. StepOf(s)
    BY <1>3 DEF StepOf, Report, ExtractInv, Types
  <1>5. Types'
    BY <1>2 DEF Report, Returns, Goes, ExtractInv, Types
  <1>6. DirTypes'
    BY DEF ExtractInv, DirTypes, Report
  <1>7. \A t \in Scans : ScanInv(t)'
    BY <1>3, <1>4, OthersUntouched DEF ScanInv
  <1>8. IdsDiffer'
    BY <1>3 DEF ExtractInv, IdsDiffer
  <1>9. /\ job[s].id \in 1..calls /\ job[s].outfile \in Names /\ job[s].size \in Sizes
        /\ job[s].id \notin spoilt => FileIsThere(s)
    BY <1>1 DEF ScanInv, NameIsOwn, Late
  <1>10. \A t \in Scans \ {s} : pc[t] # "idle" => job[t].id # job[s].id
    BY <1>1 DEF ExtractInv, IdsDiffer
  <1>11. ReportedInv'
    <2> SUFFICES ASSUME NEW r \in reported \cup {new}
                 PROVE  /\ r.id \in 1..calls /\ r.name \in Names /\ r.size \in Sizes
                        /\ \A t \in Scans : pc'[t] # "idle" => job'[t].id # r.id
                        /\ r.id \notin spoilt => \E n \in DOMAIN dir : dir[n].by = r.id
                        /\ r.id \notin spoilt \cup unmoved =>
                            r.name \in DOMAIN dir /\ dir[r.name].by = r.id /\ dir[r.name].size = r.size
      BY DEF Report, ReportedInv
    <2>1. CASE r \in reported
      BY <1>3, <2>1 DEF ExtractInv, ReportedInv
    <2>2. CASE r = new
      <3>1. r.id = job[s].id /\ r.name = job[s].outfile /\ r.size = job[s].size
        BY <2>2
      <3> QED
        BY <1>3, <1>9, <1>10, <3>1 DEF FileIsThere
    <2> QED
      BY <2>1, <2>2
  <1> QED
    BY <1>5, <1>6, <1>7, <1>8, <1>11 DEF ExtractInv

LEMMA NameTooLongKeeps ==
    ASSUME ExtractInv, NEW s \in Scans, NameTooLong(s)
    PROVE  ExtractInv'
  <1>1. CASE pc[s] = "compose"
    BY <1>1, ReturnKeeps DEF NameTooLong
  <1>2. CASE pc[s] = "compose_new"
    <2>1. AfterRename(s) \in {"postextract", "report"}
      BY DEF AfterRename
    <2> QED
      BY <1>2, <2>1, GoKeeps DEF NameTooLong, ExtractInv, Types, Places, Renaming, Early, Late
  <1> QED
    BY <1>1, <1>2 DEF NameTooLong

(***************************************************************************)
(* The theorems.                                                           *)
(***************************************************************************)

LEMMA NextKeeps == ExtractInv /\ [Next]_vars => ExtractInv'
  <1> SUFFICES ASSUME ExtractInv, [Next]_vars PROVE ExtractInv'
    OBVIOUS
  <1>1. CASE UNCHANGED vars
    BY <1>1 DEF vars, ExtractInv, Types, DirTypes, ScanInv, NameIsOwn, FileIsThere, IdsDiffer, ReportedInv
  <1>2. ASSUME NEW s \in Scans, Extract(s) \/ Step(s) \/ Child(s) \/ Interrupted(s)
        PROVE  ExtractInv'
    <2>1. CASE Extract(s)
      BY <2>1, ExtractKeeps
    <2>2. CASE \/ RunCommandFails(s) \/ NoOutput(s) \/ Interrupted(s)
      BY <2>2, ReturnKeeps DEF RunCommandFails, NoOutput, Interrupted
    <2>3. CASE \/ TryNext(s) \/ NameChosen(s) \/ NameTooLong(s) \/ RenameProposes(s) \/ OutputFound(s)
      BY <2>3, TryNextKeeps, NameChosenKeeps, NameTooLongKeeps, RenameProposesKeeps, OutputFoundKeeps
    <2>4. CASE \/ RunCommand(s) \/ CommandEnds(s) \/ RunRename(s) \/ RunRenameFails(s) \/ RenameSilent(s)
               \/ NewNameChosen(s) \/ RunPostextract(s) \/ RunPostextractFails(s) \/ PostextractEnds(s)
      BY <2>4, RunsKeep
    <2>5. CASE \/ CommandWrites(s) \/ OutputTooSmall(s) \/ RenameFile(s) \/ PostextractChanges(s)
      BY <2>5, CommandWritesKeeps, OutputTooSmallKeeps, RenameFileKeeps, PostextractChangesKeeps
    <2>6. CASE Report(s)
      BY <2>6, ReportKeeps
    <2> QED
      BY <1>2, <2>1, <2>2, <2>3, <2>4, <2>5, <2>6 DEF Step, Child
  <1> QED
    BY <1>1, <1>2 DEF Next

\* The invariant: every extraction knows which names are its own and where its
\* file is, and so does the report of one that is over.
THEOREM ExtractInvariant == Spec => []ExtractInv
  <1> QED
    BY InitHolds, NextKeeps, PTL DEF Spec

\* The variables of extract keep their types.
THEOREM ExtractTypes == Spec => []TypeOK
  <1>1. ExtractInv => TypeOK
    <2> SUFFICES ASSUME ExtractInv PROVE TypeOK
      OBVIOUS
    <2>1. \A s \in Scans : pc[s] # "idle" =>
            /\ job[s].id \in 1..calls /\ job[s].recipe \in Recipes /\ job[s].offset \in Offsets
            /\ job[s].name \in Names /\ (pc[s] # "compose" => job[s].outfile \in Names)
      BY DEF ExtractInv, ScanInv, NameIsOwn
    <2>2. \A r \in reported : r.id \in 1..calls /\ r.name \in Names /\ r.size \in Sizes
      BY DEF ExtractInv, ReportedInv
    <2>3. DOMAIN job = Scans /\ DOMAIN dir \subseteq Names /\ \A n \in DOMAIN dir : dir[n] \in Entries
      BY DEF ExtractInv, Types, DirTypes
    <2> QED
      BY <2>1, <2>2, <2>3 DEF TypeOK, ExtractInv, Types
  <1> QED
    BY <1>1, ExtractInvariant, PTL

\* A name that was reported leads to the file of that extraction, for good,
\* unless postextract changed the file or it could not be renamed.
THEOREM ReportedStays == Spec => []ReportedIsThere
  <1>1. ExtractInv => ReportedIsThere
    BY DEF ExtractInv, ReportedInv, ReportedIsThere, IsTheFileOf
  <1> QED
    BY <1>1, ExtractInvariant, PTL

\* The file of an extraction that was reported is in the directory.
THEOREM FileIsKept == Spec => []ExtractedIsKept
  <1>1. ExtractInv => ExtractedIsKept
    BY DEF ExtractInv, ReportedInv, ExtractedIsKept, IsTheFileOf
  <1> QED
    BY <1>1, ExtractInvariant, PTL

\* Nothing that is in the output directory, links that lead nowhere included,
\* is changed or removed by any but the extraction that made it.
THEOREM NeverOverwrites == Spec => NothingOverwritten
  <1> DEFINE Untouched == \A n \in DOMAIN dir :
                 \/ n \in DOMAIN dir' /\ dir'[n] = dir[n]
                 \/ \E s \in Scans : pc[s] # "idle" /\ job[s].id = dir[n].by
  <1>1. ExtractInv /\ [Next]_vars => [Untouched]_vars
    <2> SUFFICES ASSUME ExtractInv, Next PROVE Untouched
      OBVIOUS
    <2>1. CASE dir' = dir
      BY <2>1
    <2>2. CASE dir' # dir
      <3>1. PICK s \in Scans :
                CommandWrites(s) \/ OutputTooSmall(s) \/ RenameFile(s) \/ PostextractChanges(s)
        BY <2>2 DEF Next, Step, Child, Interrupted, Extract, TryNext, NameChosen, NameTooLong, RunCommand,
             RunCommandFails, CommandEnds, NoOutput, OutputFound, RunRename, RunRenameFails, RenameProposes,
             RenameSilent, NewNameChosen, RunPostextract, RunPostextractFails, PostextractEnds, Report,
             StartChild
      <3>2. OwnFilesOnly(s)
        BY <3>1, CommandWritesOwn, OutputTooSmallOwn, RenameFileOwn, PostextractChangesOwn
      <3>3. pc[s] # "idle"
        BY <3>1 DEF CommandWrites, OutputTooSmall, RenameFile, PostextractChanges
      <3> QED
        BY <3>2, <3>3 DEF OwnFilesOnly
    <2> QED
      BY <2>1, <2>2
  <1>2. [][Untouched]_vars <=> NothingOverwritten
    BY PTL DEF NothingOverwritten
  <1> QED
    BY <1>1, <1>2, ExtractInvariant, PTL DEF Spec

=============================================================================
