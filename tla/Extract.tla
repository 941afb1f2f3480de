------------------------------ MODULE Extract ------------------------------
(***************************************************************************)
(* The extraction of a match (src/src/extract.c): extract chooses a free   *)
(* name in the output directory, runs the recipe's command with the device *)
(* on standard input, looks at the file it left, lets another command      *)
(* propose a better name and renames the file, runs postextract on it and  *)
(* reports the name.                                                       *)
(*                                                                         *)
(* Several scans (processes of magicrescue) work on one output directory.  *)
(* Any of them may be interrupted with the command it runs, leaves what    *)
(* was written, and is started again.                                      *)
(*                                                                         *)
(* Some definitions are faulty variants of the one that follows them: no   *)
(* action uses them, they show what each property notices.                 *)
(***************************************************************************)
EXTENDS Integers

CONSTANTS
    Scans,         \* the running instances of magicrescue
    NameMode,      \* name_mode of each: MODE_DEVICE or MODE_FILES
    Basename,      \* progress.device_basename of each
    Offsets,       \* where matches are found
    Recipes,       \* extension, rename, postextract and min_output_file of each
    Proposals,     \* the names a rename command may propose
    LongNames,     \* extensions with which a name does not fit its buffer
    SlashNames,    \* extensions with a '/': no such name can be created
    Sizes,         \* the sizes files may get
    Leftovers,     \* what the output directory may hold before
    MaxExtractions \* bound: how often extract is called

None == -1      \* no size yet

DeviceKey(offset) == <<"device", offset>>
KeyOf(s, offset) ==
    IF NameMode[s] = "device" THEN DeviceKey(offset)
    ELSE <<"files", Basename[s]>>

Extensions == {r.extension : r \in Recipes} \cup Proposals
Keys == {KeyOf(s, o) : s \in Scans, o \in Offsets}
Names == [key : Keys, i : Nat, ext : Extensions]

Kinds == {"file", "dangling_link"}
Entries == [by : Nat, kind : Kinds, size : Sizes]

ASSUME ScansAssumption == NameMode \in [Scans -> {"device", "files"}] /\ DOMAIN Basename = Scans
ASSUME SizesAssumption == Sizes \subseteq Nat /\ Offsets \subseteq Nat /\ MaxExtractions \in Nat
ASSUME RecipesAssumption ==
    \A r \in Recipes :
        /\ r.rename \in BOOLEAN /\ r.postextract \in BOOLEAN /\ r.min_output_file \in Nat
        /\ r.extension \notin SlashNames \cup LongNames
\* What was there before was made by nobody.
ASSUME LeftoversAssumption ==
    \A d \in Leftovers : DOMAIN d \subseteq Names /\ \A n \in DOMAIN d : d[n] \in Entries /\ d[n].by = 0
\* No two scans choose among the same names.
ASSUME KeysAssumption ==
    \A s, t \in Scans : \A o, q \in Offsets : KeyOf(s, o) = KeyOf(t, q) => s = t

VARIABLES
    pc,       \* scan -> where its extraction is
    job,      \* scan -> the variables of extract, compose_name and rename_output
    dir,      \* the output directory: name -> entry
    calls,    \* how often extract was called; the number of a call names its files
    reported, \* history: the names reported, with the call each is from
    spoilt,   \* history: calls whose postextract changed or removed their file
    unmoved   \* history: calls whose file could not be renamed

vars == <<pc, job, dir, calls, reported, spoilt, unmoved>>

NoName == [key |-> <<"none", 0>>, i |-> 0, ext |-> ""]
NoRecipe == [extension |-> "", rename |-> FALSE, postextract |-> FALSE, min_output_file |-> 0]
NoJob == [id |-> 0, recipe |-> NoRecipe, offset |-> 0, name |-> NoName, outfile |-> NoName, size |-> None]

Without(d, n) == [x \in DOMAIN d \ {n} |-> d[x]]
With(d, n, e) == [x \in DOMAIN d \cup {n} |-> IF x = n THEN e ELSE d[x]]

Init ==
    /\ pc = [s \in Scans |-> "idle"]
    /\ job = [s \in Scans |-> NoJob]
    /\ dir \in Leftovers
    /\ calls = 0
    /\ reported = {} /\ spoilt = {} /\ unmoved = {}

Goes(s, place) == pc' = [pc EXCEPT ![s] = place]

\* extract returns.
Returns(s) == Goes(s, "idle") /\ job' = [job EXCEPT ![s] = NoJob]

(***************************************************************************)
(* compose_name, one lstat at a time.                                      *)
(***************************************************************************)

FirstNameBefore(s, offset, ext) == [key |-> KeyOf(s, offset), i |-> -1, ext |-> ext]
FirstName(s, offset, ext) == [key |-> KeyOf(s, offset), i |-> 0, ext |-> ext]

SameName(n) == n
NextName(n) == [n EXCEPT !.i = @ + 1]

TooLong(n) == n.ext \in LongNames

\* stat follows symbolic links; lstat succeeds for one that leads nowhere, too.
StatSucceeds(n) == n \in DOMAIN dir /\ dir[n].kind = "file"
Taken(n) == n \in DOMAIN dir

\* extract is called for a match.
Extract(s) ==
    /\ pc[s] = "idle" /\ calls < MaxExtractions
    /\ calls' = calls + 1
    /\ \E r \in Recipes, o \in Offsets :
        job' = [job EXCEPT ![s] =
            [id |-> calls + 1, recipe |-> r, offset |-> o,
             name |-> FirstName(s, o, r.extension), outfile |-> NoName, size |-> None]]
    /\ Goes(s, "compose")
    /\ UNCHANGED <<dir, reported, spoilt, unmoved>>

TryNext(s) ==
    /\ pc[s] \in {"compose", "compose_new"}
    /\ ~TooLong(job[s].name) /\ Taken(job[s].name)
    /\ job' = [job EXCEPT ![s].name = NextName(@)]
    /\ UNCHANGED <<pc, dir, calls, reported, spoilt, unmoved>>

NameChosen(s) ==
    /\ pc[s] = "compose" /\ ~TooLong(job[s].name) /\ ~Taken(job[s].name)
    /\ job' = [job EXCEPT ![s].outfile = job[s].name]
    /\ Goes(s, "command")
    /\ UNCHANGED <<dir, calls, reported, spoilt, unmoved>>

(***************************************************************************)
(* run_shell and the commands it starts.                                   *)
(***************************************************************************)

\* lseek, then fork and exec; the file position is in module ScanDisk.
StartChild(s, place) ==
    /\ Goes(s, place)
    /\ UNCHANGED <<job, dir, calls, reported, spoilt, unmoved>>

RunCommand(s) == pc[s] = "command" /\ StartChild(s, "command_runs")

\* lseek or fork fails: extract returns -1.
RunCommandFails(s) ==
    /\ pc[s] = "command"
    /\ Returns(s)
    /\ UNCHANGED <<dir, calls, reported, spoilt, unmoved>>

\* The command writes $1: opening it makes the entry, or follows the one there.
CommandWrites(s) ==
    /\ pc[s] = "command_runs"
    /\ \E size \in Sizes :
        dir' = IF Taken(job[s].outfile) THEN [dir EXCEPT ![job[s].outfile].size = size]
               ELSE With(dir, job[s].outfile, [by |-> job[s].id, kind |-> "file", size |-> size])
    /\ UNCHANGED <<pc, job, calls, reported, spoilt, unmoved>>

CommandEnds(s) ==
    /\ pc[s] = "command_runs"
    /\ Goes(s, "check")
    /\ UNCHANGED <<job, dir, calls, reported, spoilt, unmoved>>

(***************************************************************************)
(* extract, after the command.                                             *)
(***************************************************************************)

AfterRename(s) == IF job[s].recipe.postextract THEN "postextract" ELSE "report"
AfterCheck(s) == IF job[s].recipe.rename THEN "rename" ELSE AfterRename(s)

NoOutput(s) ==
    /\ pc[s] = "check" /\ ~StatSucceeds(job[s].outfile)
    /\ Returns(s)
    /\ UNCHANGED <<dir, calls, reported, spoilt, unmoved>>

OutputTooSmall(s) ==
    /\ pc[s] = "check" /\ StatSucceeds(job[s].outfile)
    /\ dir[job[s].outfile].size < job[s].recipe.min_output_file
    /\ dir' = Without(dir, job[s].outfile)
    /\ Returns(s)
    /\ UNCHANGED <<calls, reported, spoilt, unmoved>>

OutputFound(s) ==
    /\ pc[s] = "check" /\ StatSucceeds(job[s].outfile)
    /\ dir[job[s].outfile].size >= job[s].recipe.min_output_file
    /\ job' = [job EXCEPT ![s].size = dir[job[s].outfile].size]
    /\ Goes(s, AfterCheck(s))
    /\ UNCHANGED <<dir, calls, reported, spoilt, unmoved>>

(***************************************************************************)
(* rename_output.                                                          *)
(***************************************************************************)

RunRename(s) == pc[s] = "rename" /\ StartChild(s, "rename_runs")

\* pipe or lseek fails, or fork does and nothing can be read.
RunRenameFails(s) ==
    /\ pc[s] = "rename"
    /\ Goes(s, AfterRename(s))
    /\ UNCHANGED <<job, dir, calls, reported, spoilt, unmoved>>

\* The output of the rename command has a line with RENAME and a short name.
RenameProposes(s) ==
    /\ pc[s] = "rename_runs"
    /\ \E ext \in Proposals :
        job' = [job EXCEPT ![s].name = FirstName(s, job[s].offset, ext)]
    /\ Goes(s, "compose_new")
    /\ UNCHANGED <<dir, calls, reported, spoilt, unmoved>>

RenameSilent(s) ==
    /\ pc[s] = "rename_runs"
    /\ Goes(s, AfterRename(s))
    /\ UNCHANGED <<job, dir, calls, reported, spoilt, unmoved>>

\* The chosen name, and for a proposal the new one, may be too long.
NameTooLong(s) ==
    /\ pc[s] \in {"compose", "compose_new"} /\ TooLong(job[s].name)
    /\ IF pc[s] = "compose" THEN Returns(s) ELSE Goes(s, AfterRename(s)) /\ UNCHANGED job
    /\ UNCHANGED <<dir, calls, reported, spoilt, unmoved>>

NewNameChosen(s) ==
    /\ pc[s] = "compose_new" /\ ~TooLong(job[s].name) /\ ~Taken(job[s].name)
    /\ Goes(s, "rename_file")
    /\ UNCHANGED <<job, dir, calls, reported, spoilt, unmoved>>

Creatable(n) == n.ext \notin SlashNames

\* rename replaces whatever has the new name.  It may fail for any reason, and its result
\* is ignored.
RenamedOrLost(old, new, done) ==
    IF done THEN With(Without(dir, old), new, dir[old]) ELSE Without(dir, old)
Renamed(old, new, done) ==
    IF done THEN With(Without(dir, old), new, dir[old]) ELSE dir

\* origname becomes the new name in any case.
KeepsOldName(s) == job[s].outfile
BecomesNewName(s) == job[s].name

RenameFile(s) ==
    /\ pc[s] = "rename_file"
    /\ \E done \in BOOLEAN :
        /\ done => Taken(job[s].outfile) /\ Creatable(job[s].name)
        /\ dir' = Renamed(job[s].outfile, job[s].name, done)
        /\ unmoved' = IF done THEN unmoved ELSE unmoved \cup {job[s].id}
    /\ job' = [job EXCEPT ![s].outfile = BecomesNewName(s)]
    /\ Goes(s, AfterRename(s))
    /\ UNCHANGED <<calls, reported, spoilt>>

(***************************************************************************)
(* postextract and the report.                                             *)
(***************************************************************************)

RunPostextract(s) == pc[s] = "postextract" /\ StartChild(s, "postextract_runs")

RunPostextractFails(s) ==
    /\ pc[s] = "postextract"
    /\ Goes(s, "report")
    /\ UNCHANGED <<job, dir, calls, reported, spoilt, unmoved>>

\* postextract may change or remove the file it is given, once.
PostextractChanges(s) ==
    /\ pc[s] = "postextract_runs" /\ job[s].id \notin spoilt /\ Taken(job[s].outfile)
    /\ \/ \E size \in Sizes : dir' = [dir EXCEPT ![job[s].outfile].size = size]
       \/ dir' = Without(dir, job[s].outfile)
    /\ spoilt' = spoilt \cup {job[s].id}
    /\ UNCHANGED <<pc, job, calls, reported, unmoved>>

PostextractEnds(s) ==
    /\ pc[s] = "postextract_runs"
    /\ Goes(s, "report")
    /\ UNCHANGED <<job, dir, calls, reported, spoilt, unmoved>>

Report(s) ==
    /\ pc[s] = "report"
    /\ reported' = reported \cup {[id |-> job[s].id, name |-> job[s].outfile, size |-> job[s].size]}
    /\ Returns(s)
    /\ UNCHANGED <<dir, calls, spoilt, unmoved>>

\* An interrupt from the terminal ends magicrescue and the command it runs.
Interrupted(s) ==
    /\ pc[s] # "idle"
    /\ Returns(s)
    /\ UNCHANGED <<dir, calls, reported, spoilt, unmoved>>

Step(s) ==
    \/ TryNext(s) \/ NameChosen(s) \/ NameTooLong(s)
    \/ RunCommand(s) \/ RunCommandFails(s) \/ CommandEnds(s)
    \/ NoOutput(s) \/ OutputTooSmall(s) \/ OutputFound(s)
    \/ RunRename(s) \/ RunRenameFails(s) \/ RenameProposes(s) \/ RenameSilent(s)
    \/ NewNameChosen(s) \/ RenameFile(s)
    \/ RunPostextract(s) \/ RunPostextractFails(s) \/ PostextractEnds(s)
    \/ Report(s)

Child(s) == CommandWrites(s) \/ PostextractChanges(s)

Next == \E s \in Scans : Extract(s) \/ Step(s) \/ Child(s) \/ Interrupted(s)

\* magicrescue goes on, and the commands it waits for end.
Spec == Init /\ [][Next]_vars /\ \A s \in Scans : WF_vars(Step(s))

(***************************************************************************)
(* Properties.                                                             *)
(***************************************************************************)

Places == {"idle", "compose", "command", "command_runs", "check", "rename", "rename_runs",
           "compose_new", "rename_file", "postextract", "postextract_runs", "report"}

\* The variables keep their types.
TypeOK ==
    /\ pc \in [Scans -> Places]
    /\ calls \in 0..MaxExtractions
    /\ DOMAIN job = Scans
    /\ \A s \in Scans : pc[s] # "idle" =>
        /\ job[s].id \in 1..calls /\ job[s].recipe \in Recipes /\ job[s].offset \in Offsets
        /\ job[s].name \in Names
        /\ pc[s] # "compose" => job[s].outfile \in Names
    /\ DOMAIN dir \subseteq Names /\ \A n \in DOMAIN dir : dir[n] \in Entries
    /\ spoilt \subseteq 1..calls /\ unmoved \subseteq 1..calls
    /\ \A r \in reported : r.id \in 1..calls /\ r.name \in Names /\ r.size \in Sizes

\* "Don't overwrite existing output files": whatever is in the output directory,
\* from before, from earlier calls or from interrupted ones, a link that leads
\* nowhere included, is changed or removed by nothing but the extraction that
\* made it, neither by a command nor by a rename nor as too small.
NothingOverwritten ==
    [][\A n \in DOMAIN dir :
        \/ n \in DOMAIN dir' /\ dir'[n] = dir[n]
        \/ \E s \in Scans : pc[s] # "idle" /\ job[s].id = dir[n].by]_vars

IsTheFileOf(n, id) == n \in DOMAIN dir /\ dir[n].by = id

\* "Print each output file name after processing": a name that was reported is
\* the name of that extraction's file and stays so, with the size that went into
\* the skip range, unless postextract spoilt the file or it could not be renamed.
ReportedIsThere ==
    \A r \in reported : r.id \notin spoilt \cup unmoved =>
        IsTheFileOf(r.name, r.id) /\ dir[r.name].size = r.size

\* A file that was extracted is not lost, even if renaming it fails.
ExtractedIsKept ==
    \A r \in reported : r.id \notin spoilt => \E n \in DOMAIN dir : IsTheFileOf(n, r.id)

\* If the commands end, every extraction returns: the search for a free name too.
ExtractionReturns == \A s \in Scans : pc[s] # "idle" ~> pc[s] = "idle"

=============================================================================
