------------------------------ MODULE Dupemap ------------------------------
(***************************************************************************)
(* dupemap (src/src/dupemap.c): one run after another of a program that    *)
(* walks over the paths of its command line with module Recur, then over   *)
(* the names of its -I file, and stores the checksum of every file in a    *)
(* database, or reports and deletes the files whose checksum is already    *)
(* there.  The database is one on disk that outlives the run, or a         *)
(* temporary one.                                                          *)
(*                                                                         *)
(* Files with the same checksum and size are taken to be equal.  Whether a *)
(* file's size is between MINSIZE and MAXSIZE is a constant.               *)
(*                                                                         *)
(* ModeWithScan, IsOnDisk and HandlerOnlyExits are faulty variants of the  *)
(* definition that follows each (PROJECT.json, "mutants").                 *)
(***************************************************************************)
EXTENDS Recur

CONSTANTS
    Sums,          \* the checksums
    Sum,           \* the checksum of each file
    InSize,        \* nodes whose size, as lstat tells it, is in range
    Commands,      \* the command lines
    TakenDirs,     \* how many numbers of temporary directories are taken
    Faults,        \* may mkdir, dbm_open, dbm_store and unlink fail for no reason shown here
    MaxRuns,       \* bound: the runs of dupemap
    MaxRemovals    \* bound: the files others remove

NoSum == "none"
Operations == {"scan", "report", "delete"}
Modes == {"readdb", "writedb", "tempdb", "report", "delete"}

CommandType ==
    [ops : SUBSET Operations, hasdb : BOOLEAN, paths : Seq(Nodes), names : Seq(Nodes),
     namesOpen : BOOLEAN]

ASSUME SumAssumption == Sum \in [Nodes -> Sums] /\ NoSum \notin Sums /\ InSize \subseteq Nodes
ASSUME CommandsAssumption == \A c \in Commands : c \in CommandType
ASSUME EnvironmentAssumption ==
    TakenDirs \in Nat /\ Faults \in BOOLEAN /\ MaxRuns \in Nat /\ MaxRemovals \in Nat

VARIABLES
    pc,          \* where main is
    cmd, mode,   \* the command line, and what parse_mode makes of it
    handled,     \* are the signal handlers installed
    known,       \* the checksums in the temporary database and in the one on disk
    dbExists,    \* the database on disk has been created
    tempdirs,    \* the temporary directories there are, by number
    tempdir,     \* the one of this run
    names,       \* the lines of the -I file not read yet
    file, sum,   \* scan_file: the name examined, its checksum
    runs, removals,
    recorded,    \* history: which files' checksums each database holds
    deleted,     \* history: which files were deleted by means of each database
    visited, hit, unstored  \* history of this run: files with a checksum, those taken for
                            \* duplicates, checksums that dbm_store did not store

dbVars      == <<known, dbExists, tempdirs, tempdir>>
dupeHistory == <<recorded, deleted, visited, hit, unstored>>
vars == <<recurVars, pc, cmd, mode, handled, dbVars, names, file, sum, runs, removals,
          dupeHistory>>

walkVars == <<at, list, stack, prefix, name, paths, returned>>

\* parse_mode
ModeWithScan(ops, hasdb) == {IF hasdb THEN "writedb" ELSE "tempdb"} \cup ops
ModeOf(ops, hasdb) ==
    IF hasdb
    THEN CASE ops \in {{"scan"}, {"scan", "report"}} -> {"writedb"} \cup (ops \ {"scan"})
           [] "scan" \notin ops /\ ops # {} -> {"readdb"} \cup ops
           [] OTHER -> {}
    ELSE IF ops \subseteq {"scan"} THEN {} ELSE {"tempdb"} \cup (ops \ {"scan"})

\* The database this run uses.
Db == IF "tempdb" \in mode THEN "temp" ELSE "disk"

NoCommand ==
    [ops |-> {}, hasdb |-> FALSE, paths |-> <<>>, names |-> <<>>, namesOpen |-> TRUE]

Init ==
    /\ RecurInit
    /\ pc = "idle"
    /\ cmd = NoCommand /\ mode = {}
    /\ handled = FALSE
    /\ known = [temp |-> {}, disk |-> {}] /\ dbExists = FALSE
    /\ tempdirs = 0..TakenDirs-1 /\ tempdir = 0
    /\ names = <<>> /\ file = <<>> /\ sum = NoSum
    /\ runs = 0 /\ removals = 0
    /\ recorded = {} /\ deleted = {}
    /\ visited = {} /\ hit = {} /\ unstored = {}

(***************************************************************************)
(* main, up to the walk.                                                   *)
(***************************************************************************)

Start ==
    /\ pc = "idle" /\ runs < MaxRuns
    /\ runs' = runs + 1
    /\ cmd' \in Commands
    /\ mode' = ModeOf(cmd'.ops, cmd'.hasdb)
    /\ pc' = IF mode' = {} THEN "idle" ELSE "opening"
    /\ handled' = FALSE
    /\ UNCHANGED <<recurVars, dbVars, names, file, sum, removals, dupeHistory>>

OpenDatabase ==
    /\ pc = "opening" /\ cmd.hasdb
    /\ "readdb" \in mode => dbExists
    /\ dbExists' = TRUE
    /\ pc' = "opened"
    /\ UNCHANGED <<recurVars, cmd, mode, handled, known, tempdirs, tempdir, names, file, sum,
                   runs, removals, dupeHistory>>

OpenDatabaseFails ==
    /\ pc = "opening" /\ cmd.hasdb
    /\ Faults \/ ("readdb" \in mode /\ ~dbExists)
    /\ pc' = "idle"
    /\ UNCHANGED <<recurVars, cmd, mode, handled, dbVars, names, file, sum, runs, removals,
                   dupeHistory>>

\* The first directory that mkdir finds free.
FreeDir(i) == i \notin tempdirs /\ \A j \in 0..i-1 : j \in tempdirs

OpenTempDatabase ==
    /\ pc = "opening" /\ ~cmd.hasdb
    /\ \E i \in 0..(TakenDirs + MaxRuns) :
        /\ FreeDir(i)
        /\ tempdir' = i
        /\ tempdirs' = tempdirs \cup {i}
    /\ known' = [known EXCEPT !.temp = {}]
    /\ recorded' = {r \in recorded : r.db # "temp"}
    /\ deleted' = {d \in deleted : d.db # "temp"}
    /\ pc' = "opened"
    /\ UNCHANGED <<recurVars, cmd, mode, handled, dbExists, names, file, sum, runs, removals,
                   visited, hit, unstored>>

\* mkdir fails, or dbm_open does in the new directory, which is left behind.
OpenTempDatabaseFails ==
    /\ pc = "opening" /\ ~cmd.hasdb /\ Faults
    /\ \/ UNCHANGED tempdirs
       \/ \E i \in 0..(TakenDirs + MaxRuns) : FreeDir(i) /\ tempdirs' = tempdirs \cup {i}
    /\ pc' = "idle"
    /\ UNCHANGED <<recurVars, cmd, mode, handled, known, dbExists, tempdir, names, file, sum,
                   runs, removals, dupeHistory>>

\* csdb_close
CloseDatabase ==
    tempdirs' = IF "tempdb" \in mode THEN tempdirs \ {tempdir} ELSE tempdirs

\* recur_open finds the first path too long and returns NULL.
NoWalk == cmd.paths # <<>> /\ <<Head(cmd.paths)>> \in LongNames

\* The signal handlers are installed and the walk begins, if there are paths.
BeginWalk ==
    /\ pc = "opened" /\ ~NoWalk
    /\ handled' = TRUE
    /\ IF cmd.paths # <<>>
       THEN pc' = "walk" /\ list' = cmd.paths /\ RecurOpen
       ELSE pc' = "names" /\ UNCHANGED walkVars
    /\ names' = cmd.names
    /\ UNCHANGED <<present, cmd, mode, dbVars, file, sum, runs, removals, dupeHistory>>

\* Without a walk main closes the database and returns, and the -I file is not read.
WalkFails ==
    /\ pc = "opened" /\ NoWalk
    /\ handled' = TRUE
    /\ CloseDatabase
    /\ pc' = "closed"
    /\ UNCHANGED <<recurVars, cmd, mode, known, dbExists, tempdir, names, file, sum, runs,
                   removals, dupeHistory>>

(***************************************************************************)
(* The walk and the -I file.                                               *)
(***************************************************************************)

Walk ==
    /\ pc = "walk"
    /\ RecurNext
    /\ UNCHANGED <<pc, cmd, mode, handled, dbVars, names, file, sum, runs, removals, dupeHistory>>

EndOfWalk ==
    /\ pc = "walk" /\ at = "end"
    /\ RecurClose
    /\ pc' = "names"
    /\ UNCHANGED <<present, cmd, mode, handled, dbVars, names, file, sum, runs, removals,
                   dupeHistory>>

\* The -I file cannot be opened, or all its lines are read.
EndOfNames ==
    /\ pc = "names"
    /\ names = <<>> \/ ~cmd.namesOpen
    /\ CloseDatabase
    /\ pc' = "closed"
    /\ UNCHANGED <<recurVars, cmd, mode, handled, known, dbExists, tempdir, names, file, sum,
                   runs, removals, dupeHistory>>

ProcessEnds ==
    /\ pc' = "idle"
    /\ names' = <<>> /\ file' = <<>> /\ sum' = NoSum
    /\ visited' = {} /\ hit' = {} /\ unstored' = {}

Return ==
    /\ pc = "closed"
    /\ ProcessEnds
    /\ UNCHANGED <<recurVars, cmd, mode, handled, dbVars, runs, removals, recorded, deleted>>

\* The test of st_mode in scan_file: the bits of S_IFREG are also those of a symbolic
\* link and of a socket.
HasRegularBits(kind) == kind \in {"file", "link", "socket"}

\* What can be read: a file, and through a link a device or a fifo ("other") as well,
\* which is taken to end.
HasContents(n) == Kind[n] \in {"file", "other"}

\* checksum_calc can read what n leads to.
Readable(n) ==
    LET f == Follow(n) IN f \in present /\ HasContents(f) /\ f \notin Locked

\* scan_file, up to the checksum, of a name whose stat was made on node st.
Examine(path, st) ==
    /\ HasRegularBits(Kind[st]) /\ st \in InSize
    /\ Exists(path) /\ Readable(Last(path))
    /\ file' = path
    /\ sum' = Sum[Follow(Last(path))]
    /\ visited' = visited \cup {Last(path)}

ExamineItem ==
    /\ pc = "walk" /\ at = "item"
    /\ Examine(name, Last(name))
    /\ pc' = "act"
    /\ UNCHANGED <<recurVars, cmd, mode, handled, dbVars, names, runs, removals, recorded,
                   deleted, hit, unstored>>

Ignored(path, st) ==
    ~(HasRegularBits(Kind[st]) /\ st \in InSize /\ Exists(path) /\ Readable(Last(path)))

IgnoreItem ==
    /\ pc = "walk" /\ at = "item"
    /\ Ignored(name, Last(name))
    /\ RecurCall
    /\ UNCHANGED <<present, pc, cmd, mode, handled, dbVars, names, file, sum, runs, removals,
                   dupeHistory>>

AtName == pc = "names" /\ cmd.namesOpen /\ names # <<>>

\* A line of the -I file: stat, unlike lstat, follows a link.
StatOf(n) == Follow(n)
ExamineName ==
    /\ AtName /\ StatOf(Head(names)) \in present
    /\ Examine(<<Head(names)>>, StatOf(Head(names)))
    /\ pc' = "act"
    /\ names' = Tail(names)
    /\ UNCHANGED <<recurVars, cmd, mode, handled, dbVars, runs, removals, recorded, deleted,
                   hit, unstored>>

IgnoreName ==
    /\ AtName
    /\ StatOf(Head(names)) \in present => Ignored(<<Head(names)>>, StatOf(Head(names)))
    /\ names' = Tail(names)
    /\ UNCHANGED <<recurVars, pc, cmd, mode, handled, dbVars, file, sum, runs, removals,
                   dupeHistory>>

(***************************************************************************)
(* scan_file, once it has the checksum.                                    *)
(***************************************************************************)

\* scan_file returns to the loop that called it.
NextFile ==
    IF at = "item" THEN pc' = "walk" /\ RecurCall ELSE pc' = "names" /\ UNCHANGED walkVars

ScanFileReturns ==
    /\ NextFile
    /\ file' = <<>> /\ sum' = NoSum

\* csdb_exists
IsOnDisk == sum \in known.disk
IsKnown == sum \in known[Db]

\* The checksum is stored, unless dbm_store fails, which nobody notices.
RecordChecksum ==
    /\ pc = "act"
    /\ "readdb" \notin mode /\ ("tempdb" \in mode => ~IsKnown)
    /\ \/ /\ known' = [known EXCEPT ![Db] = @ \cup {sum}]
          /\ recorded' = recorded \cup {[db |-> Db, node |-> Follow(Last(file))]}
          /\ UNCHANGED unstored
       \/ /\ Faults
          /\ unstored' = unstored \cup {sum}
          /\ UNCHANGED <<known, recorded>>
    /\ ScanFileReturns
    /\ UNCHANGED <<present, cmd, mode, handled, dbExists, tempdirs, tempdir, names, runs,
                   removals, deleted, visited, hit>>

\* Reported and deleted, as the mode says; nobody notices when unlink fails.
Duplicate ==
    /\ pc = "act"
    /\ "writedb" \notin mode /\ IsKnown
    /\ hit' = hit \cup {Last(file)}
    /\ \/ /\ "delete" \in mode /\ Exists(file)
          /\ Unlink(Last(file))
          /\ deleted' = deleted \cup {[db |-> Db, node |-> Last(file)]}
       \/ /\ "delete" \in mode /\ Exists(file) => Faults
          /\ UNCHANGED <<present, deleted>>
    /\ ScanFileReturns
    /\ UNCHANGED <<cmd, mode, handled, dbVars, names, runs, removals, recorded, visited,
                   unstored>>

NotInDatabase ==
    /\ pc = "act"
    /\ "readdb" \in mode /\ ~IsKnown
    /\ ScanFileReturns
    /\ UNCHANGED <<present, cmd, mode, handled, dbVars, names, runs, removals, dupeHistory>>

(***************************************************************************)
(* Signals, and other processes.                                           *)
(***************************************************************************)

InRun == pc # "idle"

\* A signal ends the run.  Once it is installed, the handler closes the database; if
\* main has closed it already the outcome is undefined, but nothing is left to lose.
HandlerOnlyExits == UNCHANGED tempdirs
Handler ==
    IF handled /\ pc # "closed" THEN CloseDatabase ELSE UNCHANGED tempdirs

Killed ==
    /\ InRun
    /\ Handler
    /\ ProcessEnds
    /\ IF at = "closed" THEN UNCHANGED walkVars ELSE RecurClose
    /\ UNCHANGED <<present, cmd, mode, handled, known, dbExists, tempdir, runs, removals,
                   recorded, deleted>>

OthersRemove ==
    /\ removals < MaxRemovals
    /\ removals' = removals + 1
    /\ \E n \in present : Unlink(n)
    /\ UNCHANGED <<walkVars, pc, cmd, mode, handled, dbVars, names, file, sum, runs,
                   dupeHistory>>

Finished == pc = "idle" /\ runs = MaxRuns /\ UNCHANGED vars

(***************************************************************************)
(* The specification.                                                      *)
(***************************************************************************)

Step ==
    \/ OpenDatabase \/ OpenDatabaseFails \/ OpenTempDatabase \/ OpenTempDatabaseFails
    \/ BeginWalk \/ WalkFails \/ Walk \/ EndOfWalk \/ EndOfNames \/ Return
    \/ ExamineItem \/ IgnoreItem \/ ExamineName \/ IgnoreName
    \/ RecordChecksum \/ Duplicate \/ NotInDatabase

Next == Start \/ Step \/ Killed \/ OthersRemove \/ Finished

Spec == Init /\ [][Next]_vars
FairSpec == Spec /\ WF_vars(Step)

(***************************************************************************)
(* Properties.                                                             *)
(***************************************************************************)

TypeOK ==
    /\ RecurTypeOK
    /\ pc \in {"idle", "opening", "opened", "walk", "act", "names", "closed"}
    /\ cmd \in CommandType /\ mode \subseteq Modes
    /\ handled \in BOOLEAN /\ dbExists \in BOOLEAN
    /\ known \in [{"temp", "disk"} -> SUBSET Sums]
    /\ tempdirs \subseteq Nat /\ tempdir \in Nat
    /\ names \in Seq(Nodes) /\ file \in Seq(Nodes) /\ sum \in Sums \cup {NoSum}
    /\ runs \in 0..MaxRuns /\ removals \in 0..MaxRemovals
    /\ recorded \subseteq [db : {"temp", "disk"}, node : Nodes]
    /\ deleted \subseteq [db : {"temp", "disk"}, node : Nodes]
    /\ visited \subseteq Nodes /\ hit \subseteq visited /\ unstored \subseteq Sums

\* The file whose checksum makes others duplicates is not deleted as a duplicate itself:
\* of files with the same contents, the one that was recorded stays.
RecordedFileStays ==
    \A r \in recorded : r \notin deleted

\* A run without -d that was not interrupted has taken for duplicates all but one of the
\* files with the same checksum, except where dbm_store failed.
OneOfEachRemains ==
    pc = "closed" /\ "tempdb" \in mode =>
        \A n, m \in visited \ hit :
            n # m => Sum[Follow(n)] # Sum[Follow(m)] \/ Sum[Follow(n)] \in unstored

\* Once the handlers are installed a run removes its temporary directory, however it ends.
NoTempDirLeft ==
    pc = "idle" /\ handled /\ "tempdb" \in mode => tempdir \notin tempdirs

\* Every run ends.
RunsEnd == InRun ~> ~InRun

=============================================================================
