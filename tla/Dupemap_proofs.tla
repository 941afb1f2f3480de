--------------------------- MODULE Dupemap_proofs ---------------------------
(***************************************************************************)
(* Proofs about module Dupemap, for any file system, command lines, faults *)
(* and signals: its walks are walks of module Recur, so that what          *)
(* Recur_proofs shows of them holds of its runs; its types; it leaves no   *)
(* temporary directory behind and at most one of each file; and, for       *)
(* commands whose arguments are apart from each other, the file that was   *)
(* recorded is not deleted.                                                *)
(***************************************************************************)
EXTENDS Dupemap, Recur_proofs

(***************************************************************************)
(* Every step is one of Recur's, or none of its business.                  *)
(***************************************************************************)

\* When scan_file returns, the walk goes on, or is not under way.
LEMMA ReturnMaps ==
    ASSUME ScanFileReturns, present' = present \/ \E n \in present : Unlink(n)
    PROVE  [WalkStep]_recurVars
  <1>1. CASE at = "item"
    <2>1. RecurCall
      BY <1>1 DEF ScanFileReturns, NextFile
    <2> QED
      BY <2>1 DEF WalkStep, Caller
  <1>2. CASE at # "item"
    <2>1. UNCHANGED walkVars
      BY <1>2 DEF ScanFileReturns, NextFile
    <2> QED
      BY <2>1 DEF WalkStep, Others, walkVars, recurVars
  <1> QED
    BY <1>1, <1>2

LEMMA StepMaps == ASSUME [Next]_vars PROVE [WalkStep]_recurVars
  <1>1. CASE Start \/ OpenDatabase \/ OpenDatabaseFails \/ OpenTempDatabase
                \/ OpenTempDatabaseFails \/ WalkFails \/ EndOfNames \/ Return \/ ExamineItem
                \/ ExamineName \/ IgnoreName
    BY <1>1 DEF Start, OpenDatabase, OpenDatabaseFails, OpenTempDatabase,
                OpenTempDatabaseFails, WalkFails, EndOfNames, Return, ExamineItem, ExamineName,
                IgnoreName
  <1>2. CASE BeginWalk
    <2>1. CASE cmd.paths # <<>>
      BY <1>2, <2>1 DEF BeginWalk, WalkStep, Caller
    <2>2. CASE cmd.paths = <<>>
      BY <1>2, <2>2 DEF BeginWalk, walkVars, recurVars
    <2> QED
      BY <2>1, <2>2
  <1>3. CASE Walk
    BY <1>3 DEF Walk, WalkStep
  <1>4. CASE EndOfWalk \/ IgnoreItem
    BY <1>4 DEF EndOfWalk, IgnoreItem, WalkStep, Caller
  <1>5. CASE RecordChecksum \/ NotInDatabase
    BY <1>5, ReturnMaps DEF RecordChecksum, NotInDatabase
  <1>6. CASE Duplicate
    <2>1. ScanFileReturns
      BY <1>6 DEF Duplicate
    <2>2. present' = present \/ \E n \in present : Unlink(n)
      BY <1>6 DEF Duplicate, Unlink
    <2> QED
      BY <2>1, <2>2, ReturnMaps
  <1>7. CASE Killed
    BY <1>7 DEF Killed, WalkStep, Caller, walkVars, recurVars
  <1>8. CASE OthersRemove
    BY <1>8 DEF OthersRemove, WalkStep, Others, walkVars
  <1>9. CASE Finished \/ UNCHANGED vars
    BY <1>9 DEF Finished, vars
  <1> QED
    BY <1>1, <1>2, <1>3, <1>4, <1>5, <1>6, <1>7, <1>8, <1>9 DEF Next, Step

\* The actions of dupemap are built on those of Recur, so its runs are runs of Recur, and
\* what is proved of all of these holds of them.
LEMMA WalkIsRecurs == Spec => RecurSpec
  <1>1. Init => RecurInit
    BY DEF Init
  <1> QED
    BY <1>1, StepMaps, PTL DEF Spec, RecurSpec, WalkStep

\* So no run of dupemap loses its way or misses a file, though it deletes files while it
\* walks.
THEOREM DupemapMissesNothing == Spec => [](PrefixNamesTheStack /\ NothingMissed)
  BY WalkIsRecurs, NamesAreRight, WalkIsComplete, PTL

(***************************************************************************)
(* Types.                                                                  *)
(***************************************************************************)

\* A name is returned with the item, and the file scan_file acts on is one it has examined.
DupeInv ==
    /\ TypeOK
    /\ at = "item" => name # <<>>
    /\ pc = "act" =>
        /\ file # <<>> /\ Last(file) \in visited
        /\ Follow(Last(file)) \in Nodes /\ sum \in Sums

LEMMA LastInSet == ASSUME NEW S, NEW s \in Seq(S), s # <<>> PROVE Last(s) \in S
  BY DEF Last

LEMMA NamedItem ==
    ASSUME at = "item" => name # <<>>, [WalkStep]_recurVars PROVE (at = "item" => name # <<>>)'
  <1>1. CASE OpenPath \/ PathMissing \/ PathsDone \/ DirectoryDone \/ SkipEntry
    BY <1>1 DEF OpenPath, PathMissing, PathsDone, DirectoryDone, SkipEntry, AtPath, Reading
  <1>2. CASE PathIsItem
    BY <1>2 DEF PathIsItem, Returns
  <1>3. CASE EnterDirectory \/ ReturnEntry
    <2>1. PICK e : name' = Append(prefix, e)
      BY <1>3 DEF EnterDirectory, ReturnEntry, Returns, FullName
    <2> QED
      BY <2>1
  <1>4. CASE Caller \/ Others \/ UNCHANGED recurVars
    BY <1>4 DEF Caller, Others, RecurOpen, RecurCall, RecurClose, recurVars
  <1> QED
    BY <1>1, <1>2, <1>3, <1>4 DEF WalkStep, RecurNext

\* Examine gives file and sum, and history a node.
LEMMA ExamineTypes ==
    ASSUME DupeInv, NEW path \in Seq(Nodes), path # <<>>, NEW st, Examine(path, st)
    PROVE  /\ file' \in Seq(Nodes) /\ file' # <<>> /\ sum' \in Sums
           /\ Follow(Last(file')) \in Nodes
           /\ visited' = visited \cup {Last(file')} /\ visited' \subseteq Nodes
  <1>1. Last(path) \in Nodes
    BY LastInSet
  <1>2. file' = path /\ sum' = Sum[Follow(Last(path))] /\ visited' = visited \cup {Last(path)}
    BY DEF Examine
  <1>3. Follow(Last(path)) \in Nodes
    BY DEF Examine, Readable, DupeInv, TypeOK, RecurTypeOK
  <1>4. Sum[Follow(Last(path))] \in Sums
    BY <1>3, SumAssumption
  <1> QED
    BY <1>1, <1>2, <1>3, <1>4 DEF DupeInv, TypeOK

LEMMA ModeTypes ==
    ASSUME NEW ops \in SUBSET Operations, NEW hasdb \in BOOLEAN
    PROVE  ModeOf(ops, hasdb) \subseteq Modes
  BY DEF ModeOf, Operations, Modes

LEMMA DupeTypeStep == ASSUME DupeInv, [Next]_vars PROVE DupeInv'
  <1>0. RecurTypeOK' /\ (at = "item" => name # <<>>)'
    BY StepMaps, TypeStep, NamedItem DEF DupeInv, TypeOK
  <1> USE <1>0, EnvironmentAssumption DEF DupeInv, TypeOK
  <1>1. CASE Start
    <2>1. cmd' \in CommandType
      BY <1>1, CommandsAssumption DEF Start
    <2>2. cmd'.ops \in SUBSET Operations /\ cmd'.hasdb \in BOOLEAN
      BY <2>1 DEF CommandType
    <2>3. mode' \subseteq Modes
      BY <1>1, <2>2, ModeTypes DEF Start
    <2>4. runs' \in 0..MaxRuns /\ pc' \in {"idle", "opening"} /\ handled' = FALSE
      BY <1>1 DEF Start
    <2>5. UNCHANGED <<recurVars, dbVars, names, file, sum, removals, dupeHistory>>
      BY <1>1 DEF Start
    <2> QED
      BY <2>1, <2>3, <2>4, <2>5 DEF dbVars, dupeHistory
  <1>2. CASE OpenDatabase \/ OpenDatabaseFails
    BY <1>2 DEF OpenDatabase, OpenDatabaseFails, dbVars, dupeHistory
  <1>3. CASE OpenTempDatabase
    <2>1. PICK i \in 0..(TakenDirs + MaxRuns) : tempdir' = i /\ tempdirs' = tempdirs \cup {i}
      BY <1>3 DEF OpenTempDatabase
    <2>2. tempdir' \in Nat /\ tempdirs' \subseteq Nat
      BY <2>1
    <2>3. known' \in [{"temp", "disk"} -> SUBSET Sums]
      BY <1>3 DEF OpenTempDatabase
    <2>4. /\ recorded' \subseteq recorded /\ deleted' \subseteq deleted /\ pc' = "opened"
          /\ UNCHANGED <<cmd, mode, handled, dbExists, names, file, sum, runs, removals,
                         visited, hit, unstored>>
      BY <1>3 DEF OpenTempDatabase
    <2> QED
      BY <2>2, <2>3, <2>4
  <1>4. CASE OpenTempDatabaseFails
    <2>1. tempdirs' \subseteq Nat
      <3>1. CASE UNCHANGED tempdirs
        BY <3>1
      <3>2. CASE \E i \in 0..(TakenDirs + MaxRuns) : FreeDir(i) /\ tempdirs' = tempdirs \cup {i}
        BY <3>2
      <3> QED
        BY <1>4, <3>1, <3>2 DEF OpenTempDatabaseFails
    <2>2. /\ pc' = "idle"
          /\ UNCHANGED <<cmd, mode, handled, known, dbExists, tempdir, names, file, sum, runs,
                         removals, dupeHistory>>
      BY <1>4 DEF OpenTempDatabaseFails
    <2> QED
      BY <2>1, <2>2 DEF dupeHistory
  <1>5. CASE BeginWalk
    <2>1. cmd.names \in Seq(Nodes)
      BY DEF CommandType
    <2> QED
      BY <1>5, <2>1 DEF BeginWalk, dbVars, dupeHistory
  <1>6. CASE Walk \/ EndOfWalk \/ IgnoreItem
    BY <1>6 DEF Walk, EndOfWalk, IgnoreItem, dbVars, dupeHistory
  <1>7. CASE WalkFails \/ EndOfNames
    BY <1>7 DEF WalkFails, EndOfNames, CloseDatabase, dupeHistory
  <1>8. CASE Return \/ Killed
    <2>1. ProcessEnds /\ tempdirs' \subseteq tempdirs
      BY <1>8 DEF Return, Killed, Handler, CloseDatabase, dbVars
    <2>2. UNCHANGED <<cmd, mode, handled, known, dbExists, tempdir, runs, removals, recorded,
                      deleted>>
      BY <1>8 DEF Return, Killed, dbVars
    <2>3. names' \in Seq(Nodes) /\ file' \in Seq(Nodes) /\ sum' = NoSum /\ pc' = "idle"
      BY <2>1 DEF ProcessEnds
    <2>4. visited' = {} /\ hit' = {} /\ unstored' = {}
      BY <2>1 DEF ProcessEnds
    <2> QED
      BY <2>1, <2>2, <2>3, <2>4
  <1>9. CASE ExamineItem
    BY <1>9, ExamineTypes DEF ExamineItem, dbVars, RecurTypeOK
  <1>10. CASE ExamineName \/ IgnoreName
    <2>1. names # <<>> /\ Head(names) \in Nodes /\ Tail(names) \in Seq(Nodes)
      BY <1>10 DEF ExamineName, IgnoreName, AtName
    <2>2. <<Head(names)>> \in Seq(Nodes) /\ <<Head(names)>> # <<>>
      BY <2>1
    <2>3. CASE ExamineName
      BY <2>1, <2>2, <2>3, ExamineTypes DEF ExamineName, dbVars
    <2>4. CASE IgnoreName
      BY <2>1, <2>4 DEF IgnoreName, dbVars, dupeHistory, AtName
    <2> QED
      BY <1>10, <2>3, <2>4
  <1>11. CASE RecordChecksum
    <2>1. pc' \in {"walk", "names"} /\ file' = <<>> /\ sum' = NoSum
      BY <1>11 DEF RecordChecksum, ScanFileReturns, NextFile
    <2>2. Db \in {"temp", "disk"}
      BY DEF Db
    <2>3. sum \in Sums /\ Follow(Last(file)) \in Nodes
      BY <1>11 DEF RecordChecksum
    <2>4. known' \in [{"temp", "disk"} -> SUBSET Sums]
      BY <1>11, <2>2, <2>3 DEF RecordChecksum
    <2>5. recorded' \subseteq [db : {"temp", "disk"}, node : Nodes] /\ unstored' \subseteq Sums
      BY <1>11, <2>2, <2>3 DEF RecordChecksum
    <2> QED
      BY <1>11, <2>1, <2>4, <2>5 DEF RecordChecksum
  <1>12. CASE Duplicate
    <2>1. pc' \in {"walk", "names"} /\ file' = <<>> /\ sum' = NoSum
      BY <1>12 DEF Duplicate, ScanFileReturns, NextFile
    <2>2. Db \in {"temp", "disk"}
      BY DEF Db
    <2>3. Last(file) \in visited /\ Last(file) \in Nodes
      BY <1>12 DEF Duplicate
    <2>4. deleted' \subseteq [db : {"temp", "disk"}, node : Nodes]
      BY <1>12, <2>2, <2>3 DEF Duplicate
    <2> QED
      BY <1>12, <2>1, <2>3, <2>4 DEF Duplicate, dbVars
  <1>13. CASE NotInDatabase
    BY <1>13 DEF NotInDatabase, ScanFileReturns, NextFile, dbVars, dupeHistory
  <1>14. CASE OthersRemove
    BY <1>14 DEF OthersRemove, dbVars, dupeHistory
  <1>15. CASE Finished \/ UNCHANGED vars
    BY <1>15 DEF Finished, vars, dbVars, dupeHistory
  <1> QED
    BY <1>1, <1>2, <1>3, <1>4, <1>5, <1>6, <1>7, <1>8, <1>9, <1>10, <1>11, <1>12, <1>13, <1>14,
       <1>15 DEF Next, Step

LEMMA DupeInit == ASSUME Init PROVE DupeInv
  <1>1. RecurTypeOK /\ at = "closed"
    BY DEF Init, RecurInit, RecurTypeOK
  <1>2. cmd \in CommandType /\ mode \subseteq Modes
    BY DEF Init, NoCommand, CommandType
  <1>3. /\ tempdirs \subseteq Nat /\ tempdir \in Nat
        /\ runs \in 0..MaxRuns /\ removals \in 0..MaxRemovals
    BY EnvironmentAssumption DEF Init
  <1>4. known \in [{"temp", "disk"} -> SUBSET Sums]
    BY DEF Init
  <1>5. /\ pc = "idle" /\ handled = FALSE /\ dbExists = FALSE
        /\ names \in Seq(Nodes) /\ file \in Seq(Nodes) /\ sum = NoSum
        /\ recorded = {} /\ deleted = {} /\ visited = {} /\ hit = {} /\ unstored = {}
    BY DEF Init
  <1> QED
    BY <1>1, <1>2, <1>3, <1>4, <1>5 DEF DupeInv, TypeOK

\* Every variable of dupemap keeps its type; in particular a file it acts on has been
\* examined, with a checksum, whatever vanishes meanwhile, and nothing else is taken for a
\* duplicate.
THEOREM DupemapTypes == Spec => []TypeOK
  <1>1. Init => DupeInv
    BY DupeInit
  <1>2. DupeInv => TypeOK
    BY DEF DupeInv
  <1> QED
    BY <1>1, <1>2, DupeTypeStep, PTL DEF Spec

(***************************************************************************)
(* The temporary directory.                                                *)
(***************************************************************************)

\* main closes the database before it returns, and the handlers are not installed before
\* there is a database to close.
TempDirInv ==
    /\ NoTempDirLeft
    /\ pc = "closed" /\ "tempdb" \in mode => tempdir \notin tempdirs
    /\ pc \in {"opening", "opened"} => handled = FALSE

LEMMA TempDirStep == ASSUME TempDirInv, [Next]_vars PROVE TempDirInv'
  <1> USE DEF TempDirInv, NoTempDirLeft
  <1>1. CASE Start
    BY <1>1 DEF Start, dbVars
  <1>2. CASE OpenDatabase \/ OpenDatabaseFails \/ OpenTempDatabase \/ OpenTempDatabaseFails
    BY <1>2 DEF OpenDatabase, OpenDatabaseFails, OpenTempDatabase, OpenTempDatabaseFails, dbVars
  <1>3. CASE WalkFails \/ EndOfNames
    BY <1>3 DEF WalkFails, EndOfNames, CloseDatabase
  <1>4. CASE Return
    BY <1>4 DEF Return, ProcessEnds, dbVars
  <1>5. CASE Killed
    BY <1>5 DEF Killed, Handler, InRun, CloseDatabase, ProcessEnds
  <1>6. CASE BeginWalk \/ Walk \/ EndOfWalk \/ ExamineItem \/ IgnoreItem \/ ExamineName
                \/ IgnoreName \/ RecordChecksum \/ Duplicate \/ NotInDatabase
    BY <1>6 DEF BeginWalk, Walk, EndOfWalk, ExamineItem, IgnoreItem, ExamineName, IgnoreName,
                RecordChecksum, Duplicate, NotInDatabase, ScanFileReturns, NextFile, dbVars
  <1>7. CASE OthersRemove \/ Finished \/ UNCHANGED vars
    BY <1>7 DEF OthersRemove, Finished, vars, dbVars
  <1> QED
    BY <1>1, <1>2, <1>3, <1>4, <1>5, <1>6, <1>7 DEF Next, Step

\* Once the handlers are installed a run removes its temporary directory, whichever way it
\* ends and whatever step a signal interrupts.
THEOREM TempDirRemoved == Spec => []NoTempDirLeft
  <1>1. Init => TempDirInv
    BY DEF Init, TempDirInv, NoTempDirLeft
  <1>2. TempDirInv => NoTempDirLeft
    BY DEF TempDirInv
  <1> QED
    BY <1>1, <1>2, TempDirStep, PTL DEF Spec

(***************************************************************************)
(* One of each.                                                            *)
(***************************************************************************)

\* n counts as kept: dupemap has examined it and not taken it for a duplicate.
Kept == visited \ hit
UnderWay(n) == pc = "act" /\ n = Last(file)
Stored(n) == Sum[Follow(n)] \in known.temp \/ Sum[Follow(n)] \in unstored

\* With a temporary database, the checksum of each kept file is in it or was not stored,
\* and no two kept files have the same one, but for the file scan_file is at.
StoredInv == \A n \in Kept : UnderWay(n) \/ Stored(n)
DistinctInv ==
    \A n, m \in Kept :
        n = m \/ UnderWay(n) \/ UnderWay(m)
        \/ Sum[Follow(n)] # Sum[Follow(m)] \/ Sum[Follow(n)] \in unstored

\* How the rest of the state is when a file is examined.
RunInv ==
    /\ known = [d \in {"temp", "disk"} |-> known[d]]
    /\ "tempdb" \in mode => "readdb" \notin mode
    /\ pc \in {"idle", "opening", "opened"} => visited = {}
    /\ pc = "act" => sum = Sum[Follow(Last(file))]

KeptInv == RunInv /\ ("tempdb" \in mode => StoredInv /\ DistinctInv)

LEMMA ModeFact ==
    ASSUME NEW ops \in SUBSET Operations, NEW hasdb \in BOOLEAN
    PROVE  "tempdb" \in ModeOf(ops, hasdb) => "readdb" \notin ModeOf(ops, hasdb)
  <1>1. CASE hasdb
    BY <1>1 DEF ModeOf, Operations
  <1>2. CASE ~hasdb
    BY <1>2 DEF ModeOf, Operations
  <1> QED
    BY <1>1, <1>2

LEMMA RunInvStep == ASSUME RunInv, [Next]_vars PROVE RunInv'
  <1> USE DEF RunInv
  <1>1. CASE Start
    <2>1. cmd'.ops \in SUBSET Operations /\ cmd'.hasdb \in BOOLEAN
      BY <1>1, CommandsAssumption DEF Start, CommandType
    <2>2. "tempdb" \in mode' => "readdb" \notin mode'
      BY <1>1, <2>1, ModeFact DEF Start
    <2> QED
      BY <1>1, <2>2 DEF Start, dbVars, dupeHistory
  <1>2. CASE OpenDatabase \/ OpenDatabaseFails \/ OpenTempDatabaseFails
    BY <1>2 DEF OpenDatabase, OpenDatabaseFails, OpenTempDatabaseFails, dbVars, dupeHistory
  <1>3. CASE OpenTempDatabase
    BY <1>3 DEF OpenTempDatabase, dupeHistory
  <1>4. CASE BeginWalk \/ WalkFails \/ Walk \/ EndOfWalk \/ EndOfNames \/ IgnoreItem
                \/ IgnoreName
    BY <1>4 DEF BeginWalk, WalkFails, Walk, EndOfWalk, EndOfNames, IgnoreItem, IgnoreName,
                AtName, dbVars, dupeHistory
  <1>5. CASE Return \/ Killed
    BY <1>5 DEF Return, Killed, ProcessEnds, dbVars
  <1>6. CASE ExamineItem \/ ExamineName
    BY <1>6 DEF ExamineItem, ExamineName, Examine, AtName, dbVars
  <1>7. CASE RecordChecksum
    BY <1>7 DEF RecordChecksum, ScanFileReturns, NextFile
  <1>8. CASE Duplicate \/ NotInDatabase
    BY <1>8 DEF Duplicate, NotInDatabase, ScanFileReturns, NextFile, dbVars, dupeHistory
  <1>9. CASE OthersRemove \/ Finished \/ UNCHANGED vars
    BY <1>9 DEF OthersRemove, Finished, vars, dbVars, dupeHistory
  <1> QED
    BY <1>1, <1>2, <1>3, <1>4, <1>5, <1>6, <1>7, <1>8, <1>9 DEF Next, Step

LEMMA KeptStep == ASSUME KeptInv, [Next]_vars PROVE KeptInv'
  <1> USE DEF KeptInv
  <1>0. RunInv /\ RunInv'
    BY RunInvStep
  <1>1. CASE pc' \in {"idle", "opening", "opened"}
    BY <1>0, <1>1 DEF RunInv, StoredInv, DistinctInv, Kept
  <1>2. ASSUME UNCHANGED <<mode, known, visited, hit, unstored>>, pc # "act"
        PROVE  KeptInv'
    BY <1>0, <1>2 DEF StoredInv, DistinctInv, Kept, UnderWay, Stored
  <1>3. CASE BeginWalk \/ WalkFails \/ Walk \/ EndOfWalk \/ EndOfNames \/ IgnoreItem
                \/ IgnoreName
    BY <1>2, <1>3 DEF BeginWalk, WalkFails, Walk, EndOfWalk, EndOfNames, IgnoreItem, IgnoreName,
                      AtName, dbVars, dupeHistory
  <1>4. CASE ExamineItem \/ ExamineName
    <2>1. /\ pc # "act" /\ pc' = "act" /\ visited' = visited \cup {Last(file')}
          /\ UNCHANGED <<mode, known, hit, unstored>>
      BY <1>4 DEF ExamineItem, ExamineName, Examine, AtName, dbVars
    <2> QED
      BY <1>0, <2>1 DEF StoredInv, DistinctInv, Kept, UnderWay, Stored
  <1>5. CASE RecordChecksum
    <2> SUFFICES ASSUME "tempdb" \in mode PROVE StoredInv' /\ DistinctInv'
      BY <1>0, <1>5 DEF RecordChecksum
    <2>1. /\ pc = "act" /\ pc' # "act" /\ visited' = visited /\ hit' = hit
          /\ sum = Sum[Follow(Last(file))]
          /\ sum \notin known.temp
      BY <1>0, <1>5 DEF RecordChecksum, ScanFileReturns, NextFile, RunInv, IsKnown, Db
    <2>2. /\ known.temp \subseteq known'.temp /\ unstored \subseteq unstored'
          /\ sum \in known'.temp \/ sum \in unstored'
      BY <1>0, <1>5 DEF RecordChecksum, RunInv, Db
    <2>3. StoredInv'
      BY <2>1, <2>2 DEF StoredInv, Kept, UnderWay, Stored
    <2>4. DistinctInv'
      BY <2>1, <2>2 DEF StoredInv, DistinctInv, Kept, UnderWay, Stored
    <2> QED
      BY <2>3, <2>4
  <1>6. CASE Duplicate
    <2>1. /\ pc = "act" /\ pc' # "act" /\ visited' = visited /\ hit' = hit \cup {Last(file)}
          /\ UNCHANGED <<mode, known, unstored>>
      BY <1>6 DEF Duplicate, ScanFileReturns, NextFile, dbVars
    <2> QED
      BY <1>0, <2>1 DEF StoredInv, DistinctInv, Kept, UnderWay, Stored
  <1>7. CASE NotInDatabase
    BY <1>0, <1>7 DEF NotInDatabase, RunInv
  <1>8. CASE OthersRemove \/ Finished \/ UNCHANGED vars
    BY <1>0, <1>8 DEF OthersRemove, Finished, vars, dbVars, dupeHistory,
                      StoredInv, DistinctInv, Kept, UnderWay, Stored
  <1>9. CASE Start \/ OpenDatabase \/ OpenDatabaseFails \/ OpenTempDatabase
                \/ OpenTempDatabaseFails \/ Return \/ Killed
    BY <1>1, <1>9 DEF Start, OpenDatabase, OpenDatabaseFails, OpenTempDatabase,
                      OpenTempDatabaseFails, Return, Killed, ProcessEnds
  <1> QED
    BY <1>3, <1>4, <1>5, <1>6, <1>7, <1>8, <1>9 DEF Next, Step

\* Of files with the same checksum, a run with a temporary database takes all but one for
\* duplicates, whichever way it meets them and whatever vanishes meanwhile; only when
\* dbm_store fails, which scan_file does not notice, may there be more.
THEOREM OneOfEach == Spec => []OneOfEachRemains
  <1>1. Init => KeptInv
    BY DEF Init, KeptInv, RunInv
  <1>2. KeptInv => OneOfEachRemains
    BY DEF KeptInv, DistinctInv, Kept, UnderWay, OneOfEachRemains
  <1> QED
    BY <1>1, <1>2, KeptStep, PTL DEF Spec

(***************************************************************************)
(* The file that was recorded stays, for commands whose arguments are apart*)
(* as doc/dupemap.pod asks: no run meets a node twice, no link that is met *)
(* leads to a file (or another node with contents) that is met in the same *)
(* run, and what a run scans into the database on disk is not met by the   *)
(* runs that only read it.                                                 *)
(***************************************************************************)

\* What the walk of command c can meet, and what c can meet at all.
Walked(c) == Elements(c.paths) \cup UNION {Below(p) : p \in Elements(c.paths)}
Met(c) == Walked(c) \cup Elements(c.names)

Scans(c) == c.hasdb /\ "scan" \in c.ops
Reads(c) == c.hasdb /\ "scan" \notin c.ops

ArgumentsApart ==
    \A c \in Commands :
        Apart(c.paths) /\ Distinct(c.names) /\ Elements(c.names) \cap Walked(c) = {}

LinksApart ==
    \A c \in Commands : ~c.hasdb =>
        \A n, m \in Met(c) : Follow(n) = m /\ HasContents(m) => n = m

ScansApart ==
    \A b, c \in Commands : Scans(b) /\ Reads(c) =>
        \A n \in Met(b), m \in Met(c) : Follow(n) = m => ~HasContents(m)

\* What the mode says of the command.
LEMMA ModeTells ==
    ASSUME NEW ops \in SUBSET Operations, NEW hasdb \in BOOLEAN, ModeOf(ops, hasdb) # {}
    PROVE  /\ "tempdb" \in ModeOf(ops, hasdb) <=> ~hasdb
           /\ hasdb /\ "readdb" \notin ModeOf(ops, hasdb) => "scan" \in ops
           /\ hasdb /\ "writedb" \notin ModeOf(ops, hasdb) => "scan" \notin ops
  <1>1. CASE hasdb
    BY <1>1 DEF ModeOf, Operations
  <1>2. CASE ~hasdb
    BY <1>2 DEF ModeOf, Operations
  <1> QED
    BY <1>1, <1>2

\* The command of this run, and where the walk is while main is at pc.
PlaceInv ==
    /\ pc # "idle" => cmd \in Commands /\ mode = ModeOf(cmd.ops, cmd.hasdb) /\ mode # {}
    /\ at # "closed" => pc \in {"walk", "act"} /\ paths = cmd.paths
    /\ at = "closed" => paths = <<>>
    /\ pc = "walk" => at # "closed"
    /\ pc = "act" => at \in {"item", "closed"} /\ HasContents(Follow(Last(file)))
    /\ at = "item" => name \in returned
    /\ pc \in {"walk", "act", "names"} =>
           Distinct(names) /\ Elements(names) \subseteq Elements(cmd.names)

LEMMA WalkKeepsPaths == ASSUME RecurNext
                        PROVE  /\ at = "inside" /\ at' # "closed" /\ paths' = paths
                               /\ returned \subseteq returned'
                               /\ at' = "item" => name' \in returned'
  BY DEF RecurNext, OpenPath, PathIsItem, PathMissing, PathsDone, DirectoryDone, SkipEntry,
         EnterDirectory, ReturnEntry, AtPath, Reading, Returns

\* The line that is read is none of those left to be read.
LEMMA NameTaken ==
    ASSUME DupeInv, PlaceInv, AtName
    PROVE  /\ Head(names) \in Elements(names) /\ Head(names) \in Nodes
           /\ Distinct(Tail(names)) /\ Elements(Tail(names)) = Elements(names) \ {Head(names)}
  BY TailOfDistinct DEF DupeInv, TypeOK, PlaceInv, AtName

LEMMA PlaceStep ==
    ASSUME ArgumentsApart, DupeInv, PlaceInv, [Next]_vars PROVE PlaceInv'
  <1> USE DEF PlaceInv
  <1>1. CASE Start
    BY <1>1 DEF Start, recurVars
  <1>2. CASE OpenDatabase \/ OpenDatabaseFails \/ OpenTempDatabase \/ OpenTempDatabaseFails
    BY <1>2 DEF OpenDatabase, OpenDatabaseFails, OpenTempDatabase, OpenTempDatabaseFails,
                recurVars
  <1>3. CASE BeginWalk
    <2>1. cmd \in Commands /\ at = "closed" /\ pc' \in {"walk", "names"}
      BY <1>3 DEF BeginWalk
    <2>2. names' = cmd.names /\ Distinct(cmd.names)
      BY <1>3, <2>1 DEF BeginWalk, ArgumentsApart
    <2>3. /\ pc' = "walk" => at' = "inside" /\ paths' = cmd.paths
          /\ pc' = "names" => at' = "closed" /\ paths' = <<>>
      BY <1>3, <2>1 DEF BeginWalk, RecurOpen, walkVars
    <2> QED
      BY <1>3, <2>1, <2>2, <2>3 DEF BeginWalk
  <1>4. CASE Walk
    BY <1>4, WalkKeepsPaths DEF Walk
  <1>5. CASE EndOfWalk
    BY <1>5 DEF EndOfWalk, RecurClose
  <1>6. CASE WalkFails \/ EndOfNames
    BY <1>6 DEF WalkFails, EndOfNames, recurVars
  <1>7. CASE Return
    BY <1>7 DEF Return, ProcessEnds, recurVars
  <1>8. CASE Killed
    BY <1>8 DEF Killed, ProcessEnds, walkVars, RecurClose
  <1>9. CASE ExamineItem
    BY <1>9 DEF ExamineItem, Examine, Readable, recurVars
  <1>10. CASE IgnoreItem
    BY <1>10 DEF IgnoreItem, RecurCall
  <1>11. CASE ExamineName
    BY <1>11, NameTaken DEF ExamineName, Examine, Readable, AtName, recurVars
  <1>12. CASE IgnoreName
    BY <1>12, NameTaken DEF IgnoreName, AtName, recurVars
  <1>13. CASE RecordChecksum \/ Duplicate \/ NotInDatabase
    <2>1. pc = "act" /\ NextFile /\ UNCHANGED <<cmd, mode, names>>
      BY <1>13 DEF RecordChecksum, Duplicate, NotInDatabase, ScanFileReturns
    <2>2. CASE at = "item"
      BY <2>1, <2>2 DEF NextFile, RecurCall
    <2>3. CASE at # "item"
      BY <2>1, <2>3 DEF NextFile, walkVars
    <2> QED
      BY <2>2, <2>3
  <1>14. CASE OthersRemove
    BY <1>14 DEF OthersRemove, walkVars
  <1>15. CASE Finished \/ UNCHANGED vars
    BY <1>15 DEF Finished, vars, recurVars
  <1> QED
    BY <1>1, <1>2, <1>3, <1>4, <1>5, <1>6, <1>7, <1>8, <1>9, <1>10, <1>11, <1>12, <1>13, <1>14,
       <1>15 DEF Next, Step

\* So every walk is over paths apart from each other.
LEMMA WalksApart == ASSUME ArgumentsApart, PlaceInv PROVE PathsApart
  <1>1. CASE at = "closed"
    BY <1>1 DEF PlaceInv, PathsApart, Apart, Distinct, Elements
  <1>2. CASE at # "closed"
    BY <1>2 DEF PlaceInv, PathsApart, ArgumentsApart
  <1> QED
    BY <1>1, <1>2

LEMMA WalksApartNext == ASSUME ArgumentsApart, PlaceInv' PROVE PathsApart'
  <1>1. CASE at' = "closed"
    BY <1>1 DEF PlaceInv, PathsApart, Apart, Distinct, Elements
  <1>2. CASE at' # "closed"
    BY <1>2 DEF PlaceInv, PathsApart, ArgumentsApart, Apart, Distinct, Elements
  <1> QED
    BY <1>1, <1>2

\* Where the files examined in this run come from; the one returned is not among them.
SeenInv ==
    /\ pc \in {"idle", "opening", "opened"} => visited = {}
    /\ at # "closed" => \A n \in visited : ~Fresh(n)
    /\ \A n \in visited :
           n \in Walked(cmd) \/ (n \in Elements(cmd.names) /\ n \notin Elements(names))
    /\ pc = "walk" /\ at = "item" => Last(name) \notin visited

\* scan_file is called for a file it has not examined in this run, which the command names.
LEMMA NewlyExamined ==
    ASSUME ArgumentsApart, DupeInv, PlaceInv, OnceInv, SeenInv, ExamineItem \/ ExamineName
    PROVE  /\ pc # "act" /\ pc' = "act" /\ visited' = visited \cup {Last(file')}
           /\ Last(file') \notin visited
           /\ Last(file') \in Walked(cmd)
              \/ (/\ Last(file') \in Elements(cmd.names) /\ at = "closed"
                  /\ Last(file') \notin Elements(names)')
           /\ at # "closed" => ~Fresh(Last(file'))
           /\ Elements(names)' \subseteq Elements(names)
  <1>1. CASE ExamineItem
    <2>1. /\ pc = "walk" /\ at = "item" /\ pc' = "act" /\ file' = name /\ names' = names
          /\ visited' = visited \cup {Last(name)}
      BY <1>1 DEF ExamineItem, Examine
    <2>2. name \in returned /\ paths = cmd.paths
      BY <2>1 DEF PlaceInv
    <2>3. Last(name) \in Elements(paths) \/ \E p \in Elements(paths) : Last(name) \in Below(p)
      BY <2>2 DEF OnceInv, ReturnedInv, Taken
    <2>4. Last(name) \in Walked(cmd)
      BY <2>2, <2>3 DEF Walked
    <2> QED
      BY <2>1, <2>2, <2>4 DEF SeenInv, Fresh, Elements
  <1>2. CASE ExamineName
    <2>1. /\ pc = "names" /\ pc' = "act" /\ file' = <<Head(names)>> /\ names' = Tail(names)
          /\ visited' = visited \cup {Last(<<Head(names)>>)} /\ AtName
      BY <1>2 DEF ExamineName, Examine, AtName
    <2>2. Last(<<Head(names)>>) = Head(names)
      BY DEF Last
    <2>3. Head(names) \in Elements(names) /\ Elements(Tail(names)) = Elements(names) \ {Head(names)}
      BY <2>1, NameTaken
    <2>4. at = "closed" /\ cmd \in Commands /\ Elements(names) \subseteq Elements(cmd.names)
      BY <2>1 DEF PlaceInv
    <2>5. Elements(names)' = Elements(names) \ {Head(names)}
      BY <2>1, <2>3 DEF Elements
    <2>6. Head(names) \notin visited
      BY <2>3, <2>4 DEF SeenInv, ArgumentsApart
    <2> QED
      BY <2>1, <2>2, <2>3, <2>4, <2>5, <2>6
  <1> QED
    BY <1>1, <1>2

LEMMA SeenStep ==
    ASSUME ArgumentsApart, DupeInv, PrefixNamesTheStack, PlaceInv, OnceInv, SeenInv, [Next]_vars
    PROVE  SeenInv'
  <1> USE DEF SeenInv
  <1>0. PathsApart /\ RecurTypeOK
    BY WalksApart DEF DupeInv, TypeOK
  <1>1. CASE Start \/ OpenDatabase \/ OpenDatabaseFails \/ OpenTempDatabase
                \/ OpenTempDatabaseFails \/ Return \/ Killed
    <2>1. pc' \in {"idle", "opening", "opened"} /\ visited' = {}
      BY <1>1 DEF Start, OpenDatabase, OpenDatabaseFails, OpenTempDatabase,
                  OpenTempDatabaseFails, Return, Killed, ProcessEnds, dupeHistory
    <2> QED
      BY <2>1
  <1>2. CASE BeginWalk \/ WalkFails
    BY <1>2 DEF BeginWalk, WalkFails, dupeHistory
  <1>3. CASE Walk
    <2>1. /\ at = "inside" /\ at' # "closed" /\ returned \subseteq returned' /\ pc = "walk"
          /\ UNCHANGED <<pc, visited, cmd, names>>
      BY <1>3, WalkKeepsPaths DEF Walk, dupeHistory
    <2>2. at' = "item" => Fresh(Last(name'))
      BY <1>0, <1>3, <2>1, FreshStep DEF Walk, WalkStep
    <2>3. \A n \in visited : ~Fresh(n) /\ ~Fresh(n)'
      BY <2>1 DEF Fresh
    <2> QED
      BY <2>1, <2>2, <2>3 DEF Elements
  <1>4. CASE EndOfWalk \/ EndOfNames
    <2>1. at' = "closed" /\ pc' \in {"names", "closed"} /\ UNCHANGED <<visited, cmd, names>>
      BY <1>4 DEF EndOfWalk, EndOfNames, RecurClose, PlaceInv, dupeHistory, recurVars
    <2> QED
      BY <2>1 DEF Elements
  <1>5. CASE ExamineItem \/ ExamineName
    <2>1. UNCHANGED <<cmd, at, returned>>
      BY <1>5 DEF ExamineItem, ExamineName, recurVars
    <2> QED
      BY <1>5, <2>1, NewlyExamined DEF Fresh
  <1>6. CASE IgnoreName
    <2>1. /\ pc = "names" /\ at = "closed" /\ names' = Tail(names) /\ AtName
          /\ UNCHANGED <<pc, at, visited, cmd>>
      BY <1>6 DEF IgnoreName, AtName, PlaceInv, dupeHistory, recurVars
    <2>2. Elements(names)' \subseteq Elements(names)
      BY <2>1, NameTaken DEF Elements
    <2> QED
      BY <2>1, <2>2
  <1>7. CASE IgnoreItem
    <2>1. /\ pc = "walk" /\ at' = "inside" /\ at # "closed"
          /\ UNCHANGED <<pc, returned, visited, cmd, names>>
      BY <1>7 DEF IgnoreItem, RecurCall, dupeHistory
    <2> QED
      BY <2>1 DEF Fresh, Elements
  <1>8. CASE RecordChecksum \/ Duplicate \/ NotInDatabase
    <2>1. /\ pc = "act" /\ NextFile
          /\ UNCHANGED <<visited, cmd, names>>
      BY <1>8 DEF RecordChecksum, Duplicate, NotInDatabase, ScanFileReturns, dupeHistory
    <2>2. CASE at = "item"
      <3>1. pc' = "walk" /\ at' = "inside" /\ returned' = returned
        BY <2>1, <2>2 DEF NextFile, RecurCall
      <3> QED
        BY <2>1, <2>2, <3>1 DEF Fresh, Elements
    <2>3. CASE at # "item"
      <3>1. pc' = "names" /\ at' = "closed"
        BY <2>1, <2>3 DEF NextFile, walkVars, PlaceInv
      <3> QED
        BY <2>1, <3>1 DEF Elements
    <2> QED
      BY <2>2, <2>3
  <1>9. CASE OthersRemove \/ Finished \/ UNCHANGED vars
    <2>1. UNCHANGED <<pc, at, name, returned, visited, cmd, names>>
      BY <1>9 DEF OthersRemove, Finished, vars, walkVars, recurVars, dupeHistory
    <2> QED
      BY <2>1 DEF Fresh, Elements
  <1> QED
    BY <1>1, <1>2, <1>3, <1>4, <1>5, <1>6, <1>7, <1>8, <1>9 DEF Next, Step

\* What the database on disk holds was scanned, and was used for other files.
DiskInv ==
    /\ \A r \in recorded : r.db = "disk" =>
           /\ HasContents(r.node)
           /\ \E c \in Commands : Scans(c) /\ \E n \in Met(c) : Follow(n) = r.node
    /\ \A d \in deleted : d.db = "disk" =>
           \E c \in Commands : Reads(c) /\ d.node \in Met(c)

\* What the temporary one holds was examined in this run, before the file at hand.
TempInv ==
    "tempdb" \in mode /\ pc \notin {"idle", "opening"} =>
        /\ \A r \in recorded : r.db = "temp" =>
               HasContents(r.node) /\ \E n \in visited : Follow(n) = r.node
        /\ \A d \in deleted : d.db = "temp" => d.node \in visited
        /\ pc = "act" =>
               \A r \in recorded \cup deleted : r.db = "temp" => r.node # Last(file)

TempStays == \A r \in recorded : r.db = "temp" => r \notin deleted

StayInv == DiskInv /\ TempInv /\ TempStays

\* A file examined is one the command names.
LEMMA SeenIsMet ==
    ASSUME PlaceInv, SeenInv, NEW n \in visited
    PROVE  pc # "idle" /\ cmd \in Commands /\ n \in Met(cmd)
  BY DEF PlaceInv, SeenInv, Met

\* The command that records in a database, or uses it, is one of those that do.
LEMMA CommandOfMode ==
    ASSUME PlaceInv, pc = "act"
    PROVE  /\ cmd \in Commands
           /\ Db = "temp" <=> "tempdb" \in mode
           /\ Db = "temp" => ~cmd.hasdb
           /\ Db = "disk" /\ "readdb" \notin mode => Scans(cmd)
           /\ Db = "disk" /\ "writedb" \notin mode => Reads(cmd)
  <1>1. cmd \in Commands /\ mode = ModeOf(cmd.ops, cmd.hasdb) /\ mode # {}
    BY DEF PlaceInv
  <1>2. cmd.ops \in SUBSET Operations /\ cmd.hasdb \in BOOLEAN
    BY <1>1, CommandsAssumption DEF CommandType
  <1>3. /\ "tempdb" \in mode <=> ~cmd.hasdb
        /\ cmd.hasdb /\ "readdb" \notin mode => "scan" \in cmd.ops
        /\ cmd.hasdb /\ "writedb" \notin mode => "scan" \notin cmd.ops
    BY <1>1, <1>2, ModeTells
  <1> QED
    BY <1>1, <1>3 DEF Db, Scans, Reads

LEMMA StayRecord ==
    ASSUME ArgumentsApart, LinksApart, DupeInv, PlaceInv, SeenInv, StayInv, RecordChecksum
    PROVE  StayInv'
  <1> DEFINE m == Last(file)
             r == [db |-> Db, node |-> Follow(m)]
  <1>1. /\ pc = "act" /\ pc' \in {"walk", "names"} /\ "readdb" \notin mode
        /\ recorded' = recorded \/ recorded' = recorded \cup {r}
        /\ UNCHANGED <<mode, deleted, visited>>
    BY DEF RecordChecksum, ScanFileReturns, NextFile
  <1>2. m \in visited /\ HasContents(Follow(m))
    BY <1>1 DEF DupeInv, PlaceInv
  <1>3. cmd \in Commands /\ m \in Met(cmd)
    BY <1>2, SeenIsMet
  <1>4. DiskInv'
    <2>1. Db = "disk" => Scans(cmd)
      BY <1>1, CommandOfMode
    <2> QED
      BY <1>1, <1>2, <1>3, <2>1 DEF StayInv, DiskInv
  <1>5. TempInv'
    BY <1>1, <1>2 DEF StayInv, TempInv
  <1>6. ASSUME Db = "temp" PROVE r \notin deleted
    <2> SUFFICES ASSUME r \in deleted PROVE FALSE
      OBVIOUS
    <2>1. ~cmd.hasdb /\ "tempdb" \in mode
      BY <1>1, <1>6, CommandOfMode
    <2>2. Follow(m) \in visited /\ Follow(m) # m
      BY <1>1, <1>6, <2>1 DEF StayInv, TempInv
    <2>3. Follow(m) \in Met(cmd)
      BY <2>2, SeenIsMet
    <2> QED
      BY <1>2, <1>3, <2>1, <2>2, <2>3 DEF LinksApart
  <1>7. TempStays'
    BY <1>1, <1>6 DEF StayInv, TempStays
  <1> QED
    BY <1>4, <1>5, <1>7 DEF StayInv

LEMMA StayDuplicate ==
    ASSUME DupeInv, PlaceInv, SeenInv, StayInv, Duplicate
    PROVE  StayInv'
  <1> DEFINE m == Last(file)
             d == [db |-> Db, node |-> m]
  <1>1. /\ pc = "act" /\ pc' \in {"walk", "names"} /\ "writedb" \notin mode
        /\ deleted' = deleted \/ deleted' = deleted \cup {d}
        /\ UNCHANGED <<mode, recorded, visited>>
    BY DEF Duplicate, ScanFileReturns, NextFile
  <1>2. m \in visited
    BY <1>1 DEF DupeInv
  <1>3. cmd \in Commands /\ m \in Met(cmd)
    BY <1>2, SeenIsMet
  <1>4. DiskInv'
    <2>1. Db = "disk" => Reads(cmd)
      BY <1>1, CommandOfMode
    <2> QED
      BY <1>1, <1>3, <2>1 DEF StayInv, DiskInv
  <1>5. TempInv'
    BY <1>1, <1>2 DEF StayInv, TempInv
  <1>6. ASSUME NEW r \in recorded, r.db = "temp" PROVE r # d
    <2> SUFFICES ASSUME r = d PROVE FALSE
      OBVIOUS
    <2>1. Db = "temp" /\ r.node = m
      BY <1>6
    <2>2. "tempdb" \in mode
      BY <1>1, <2>1, CommandOfMode
    <2> QED
      BY <1>1, <1>6, <2>1, <2>2 DEF StayInv, TempInv
  <1>7. TempStays'
    BY <1>1, <1>6 DEF StayInv, TempStays
  <1> QED
    BY <1>4, <1>5, <1>7 DEF StayInv

LEMMA StayExamine ==
    ASSUME ArgumentsApart, LinksApart, DupeInv, PlaceInv, OnceInv, SeenInv, StayInv,
           ExamineItem \/ ExamineName
    PROVE  StayInv'
  <1> DEFINE m == Last(file')
  <1>1. UNCHANGED <<cmd, mode, recorded, deleted>> /\ pc \notin {"idle", "opening"}
    BY DEF ExamineItem, ExamineName, AtName
  <1>2. /\ pc' = "act" /\ visited' = visited \cup {m} /\ m \notin visited
        /\ m \in Walked(cmd) \/ m \in Elements(cmd.names)
    BY NewlyExamined
  <1>3. cmd \in Commands /\ mode = ModeOf(cmd.ops, cmd.hasdb) /\ mode # {} /\ m \in Met(cmd)
    BY <1>1, <1>2 DEF PlaceInv, Met
  <1>4. ASSUME "tempdb" \in mode, NEW r \in recorded \cup deleted, r.db = "temp"
        PROVE  r.node # m
    <2>1. CASE r \in deleted
      BY <1>1, <1>2, <1>4, <2>1 DEF StayInv, TempInv
    <2>2. CASE r \in recorded
      <3>1. PICK n \in visited : Follow(n) = r.node /\ HasContents(r.node)
        BY <1>1, <1>4, <2>2 DEF StayInv, TempInv
      <3>2. n \in Met(cmd) /\ n # m
        BY <1>2, SeenIsMet
      <3>3. cmd.ops \in SUBSET Operations /\ cmd.hasdb \in BOOLEAN
        BY <1>3, CommandsAssumption DEF CommandType
      <3>4. ~cmd.hasdb
        BY <1>3, <1>4, <3>3, ModeTells
      <3> QED
        BY <1>3, <3>1, <3>2, <3>4 DEF LinksApart
    <2> QED
      BY <2>1, <2>2
  <1>5. TempInv'
    BY <1>1, <1>2, <1>4 DEF StayInv, TempInv
  <1>6. DiskInv' /\ TempStays'
    BY <1>1 DEF StayInv, DiskInv, TempStays
  <1> QED
    BY <1>5, <1>6 DEF StayInv

LEMMA StayStep ==
    ASSUME ArgumentsApart, LinksApart, DupeInv, PlaceInv, OnceInv, SeenInv, StayInv, [Next]_vars
    PROVE  StayInv'
  <1>1. ASSUME UNCHANGED <<recorded, deleted>>, pc' \in {"idle", "opening"} PROVE StayInv'
    BY <1>1 DEF StayInv, DiskInv, TempInv, TempStays
  <1>2. CASE Start \/ OpenDatabaseFails \/ OpenTempDatabaseFails \/ Return \/ Killed
    BY <1>1, <1>2 DEF Start, OpenDatabaseFails, OpenTempDatabaseFails, Return, Killed,
                      ProcessEnds, dupeHistory
  <1>3. CASE OpenDatabase
    <2>1. UNCHANGED <<recorded, deleted, mode>> /\ cmd.hasdb /\ pc # "idle"
      BY <1>3 DEF OpenDatabase, dupeHistory
    <2>2. cmd.ops \in SUBSET Operations /\ cmd.hasdb \in BOOLEAN
      BY <2>1, CommandsAssumption DEF PlaceInv, CommandType
    <2>3. mode = ModeOf(cmd.ops, cmd.hasdb) /\ mode # {}
      BY <2>1 DEF PlaceInv
    <2>4. "tempdb" \notin mode
      BY <2>1, <2>2, <2>3, ModeTells
    <2> QED
      BY <2>1, <2>4 DEF StayInv, DiskInv, TempInv, TempStays
  <1>4. CASE OpenTempDatabase
    <2>1. /\ recorded' = {r \in recorded : r.db # "temp"}
          /\ deleted' = {d \in deleted : d.db # "temp"}
          /\ pc' = "opened"
      BY <1>4 DEF OpenTempDatabase
    <2> QED
      BY <2>1 DEF StayInv, DiskInv, TempInv, TempStays
  <1>5. ASSUME UNCHANGED <<recorded, deleted, mode, visited>>, pc \notin {"idle", "opening"},
               pc' # "act"
        PROVE  StayInv'
    BY <1>5 DEF StayInv, DiskInv, TempInv, TempStays
  <1>6. CASE BeginWalk \/ WalkFails \/ EndOfWalk \/ EndOfNames \/ IgnoreName
    BY <1>5, <1>6 DEF BeginWalk, WalkFails, EndOfWalk, EndOfNames, IgnoreName, AtName,
                      dupeHistory
  <1>7. CASE Walk \/ IgnoreItem \/ NotInDatabase
    BY <1>5, <1>7 DEF Walk, IgnoreItem, NotInDatabase, ScanFileReturns, NextFile, dupeHistory
  <1>8. CASE ExamineItem \/ ExamineName
    BY <1>8, StayExamine
  <1>9. CASE RecordChecksum
    BY <1>9, StayRecord
  <1>10. CASE Duplicate
    BY <1>10, StayDuplicate
  <1>11. CASE OthersRemove \/ Finished \/ UNCHANGED vars
    <2>1. UNCHANGED <<pc, mode, recorded, deleted, visited, file>>
      BY <1>11 DEF OthersRemove, Finished, vars, dupeHistory
    <2> QED
      BY <2>1 DEF StayInv, DiskInv, TempInv, TempStays
  <1> QED
    BY <1>2, <1>3, <1>4, <1>6, <1>7, <1>8, <1>9, <1>10, <1>11 DEF Next, Step

\* Where the arguments of each command are apart from each other, where the links that a
\* run meets lead to no file it meets, and where what is scanned into the database on disk
\* is not met by the runs that delete by means of it, the file whose checksum is recorded
\* is never deleted as a duplicate: one copy stays, whatever fails or is interrupted.
THEOREM RecordedStays ==
    ASSUME ArgumentsApart, LinksApart, ScansApart
    PROVE  Spec => []RecordedFileStays
  <1> DEFINE Inv == /\ DupeInv /\ PrefixNamesTheStack /\ PlaceInv /\ OnceInv /\ SeenInv
                    /\ StayInv
  <1>1. ASSUME Init PROVE DupeInv /\ PrefixNamesTheStack
    BY <1>1, DupeInit DEF Init, RecurInit, PrefixNamesTheStack
  <1>2. ASSUME Init PROVE PlaceInv /\ SeenInv /\ StayInv
    BY <1>2 DEF Init, RecurInit, PlaceInv, SeenInv, StayInv, DiskInv, TempInv, TempStays
  <1>3. ASSUME Init PROVE OnceInv
    BY <1>3 DEF Init, RecurInit, OnceInv, ReturnedInv, StackInv, Distinct, Elements
  <1>4. ASSUME Inv, [Next]_vars PROVE Inv'
    <2>1. DupeInv' /\ PlaceInv'
      BY <1>4, DupeTypeStep, PlaceStep
    <2>2. RecurTypeOK /\ [WalkStep]_recurVars
      BY <1>4, StepMaps DEF DupeInv, TypeOK
    <2>3. PathsApart /\ PathsApart'
      <3>1. PathsApart
        BY <1>4, WalksApart
      <3>2. PathsApart'
        BY <2>1, WalksApartNext
      <3> QED
        BY <3>1, <3>2
    <2>4. PrefixNamesTheStack' /\ OnceInv'
      BY <1>4, <2>2, <2>3, NamesStep, OnceStep
    <2>5. SeenInv' /\ StayInv'
      BY <1>4, SeenStep, StayStep
    <2> QED
      BY <2>1, <2>4, <2>5
  <1>5. ASSUME Inv PROVE RecordedFileStays
    <2> SUFFICES ASSUME NEW r \in recorded, r \in deleted PROVE FALSE
      BY DEF RecordedFileStays
    <2>1. r.db # "temp"
      BY <1>5 DEF StayInv, TempStays
    <2>2. r.db = "disk"
      BY <1>5, <2>1 DEF DupeInv, TypeOK
    <2>3. /\ HasContents(r.node)
          /\ \E c \in Commands : Scans(c) /\ \E n \in Met(c) : Follow(n) = r.node
          /\ \E c \in Commands : Reads(c) /\ r.node \in Met(c)
      BY <1>5, <2>2 DEF StayInv, DiskInv
    <2> QED
      BY <2>3 DEF ScansApart
  <1> HIDE DEF Inv
  <1>6. Init => Inv
    BY <1>1, <1>2, <1>3 DEF Inv
  <1> QED
    BY <1>4, <1>5, <1>6, PTL DEF Spec

\* Where the arguments of each command are apart from each other, no run of dupemap meets
\* a node twice while it walks.
THEOREM DupemapMeetsOnce ==
    ASSUME ArgumentsApart
    PROVE  Spec => NeverTwice
  <1>1. ASSUME Init PROVE DupeInv /\ PlaceInv
    <2>1. DupeInv
      BY <1>1, DupeInit
    <2>2. PlaceInv
      BY <1>1 DEF Init, RecurInit, PlaceInv
    <2> QED
      BY <2>1, <2>2
  <1>2. ASSUME DupeInv, PlaceInv, [Next]_vars PROVE DupeInv' /\ PlaceInv'
    BY <1>2, DupeTypeStep, PlaceStep
  <1>3. ASSUME PlaceInv PROVE PathsApart
    BY <1>3, WalksApart
  <1>4. Spec => []PathsApart
    BY <1>1, <1>2, <1>3, PTL DEF Spec
  <1> QED
    BY <1>4, WalkIsRecurs, NothingTwice, PTL

=============================================================================
