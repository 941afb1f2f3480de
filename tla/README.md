# A TLA+ verification of Magic Rescue

Magic Rescue scans block devices for the first bytes of known file types and
runs an external command on every match to extract the file. This directory
holds TLA+ modules translated from its C sources, the TLC configurations that
check them and proofs about them for TLAPS. Paths are relative to the
repository; line numbers are those of the commit modelled. `PROJECT.json` maps
every definition to the lines it translates and lists the hazards, runs,
findings and theorems.

## Inventory

| Part | State | Operations | Interacts with |
|---|---|---|---|
| Scanning loop (`src/magicrescue.c`: `scan_disk`, `scan_buf`) | the buffer, the file position, `offset_before_read`, `skip_ranges`, `progress` | open, read a block, move its tail to the front, clean up ranges, run scanners and recipes, claim a range, seek back, leave with or without an error | calls scanner functions, operations and `extract`; shares its file position with the commands that `extract` runs; writes `progress` for the signal handler |
| Fatal-signal handler (`signal_beforedeath`) | reads `progress` | print device and offset, exit | may come between any two steps; the user resumes with `-O` |
| Device loop (`main`) | `optind`, the `-O` offset | scan each device, the first from `-O` | calls `scan_disk` |
| Scanner functions (`src/scanner.c`) | none | next byte, string or block boundary; comparison of scanners | called by `scan_buf` and `parse_recipe` |
| Recipe parsing (`parse_recipe`, `src/recipe.c`, `src/util.c`) | scanners with their recipes, `overlap` | parse a line, share equal scanners, round `overlap` | sets up everything `scan_buf` uses |
| Extraction (`src/extract.c`) | the output directory | choose a free name, run the command, check the size, rename, postextract | forks the commands; its result becomes a skip range |
| dupemap (`src/dupemap.c`) | a database of checksums, files | scan, report, delete | walks directories with recur; own signal handler |
| Recursion (`src/recur.c`) | a stack of open directories and a path prefix | next entry, next path | used by dupemap (and `rm_rf` for its temporary database) |
| safecat, textextract, inputseek (`tools/*.c`) | byte counters, text buffer | copy with limits, find text around a match, seek and exec | run by recipes, share the scanner's file position |
| Perl helpers, checkrecipe, magicsort, recipes | | parse one file format each | run by recipes or by hand |

What makes each correct, and hard:

* **Scanning loop.** It must look at every start position of every device once,
  with the bytes that are really there, try every candidate unless it lies
  inside a file already extracted, and end. This is spread over a block loop
  with short reads, three cuts at the front of the window, ranges in reusable
  slots, offsets counted from five origins, and commands that move the file
  position under the loop. Errors leave through several returns.
* **Signal handler.** Resuming from the offset it names should lose nothing,
  whenever the signal comes. (It can lose up to `overlap` start positions, and
  more just after a device is opened: see the findings.)
* **Extraction.** Two programs, or two matches, must not share an output name;
  the size reported must be that of the file that stays.
* **Recipes.** `overlap` must cover whatever an operation reads; equal scanners
  must be shared and others must not.
* **dupemap.** It must never delete the last copy of a file, whatever the paths,
  links and order of operations.
* **Recursion.** Every entry is returned once with its true path, at any depth,
  though directories vanish or cannot be opened.
* **safecat, textextract.** What comes out is what came in, up to the limit;
  no text byte is lost or doubled when the buffer is flushed.

## Plan

The order in which the modules were written, the most important behaviour first.
All of it is done.

1. `ScanDisk` with its abstract specification `Sweep`: scanning loop, ranges,
   signal and resumption. Theorems about the buffer, the sweep, the ranges and
   the refinement.
2. `Recur` and `Dupemap` (which uses it): directory walk, modes, database and
   deletion, over small file systems with links. Theorems about all their
   safety properties, `NeverTwice` and `RecordedFileStays` among them.
3. `Extract`: several scans into one output directory, command outcomes, rename
   and postextract. Theorems about who owns a name between its choice and its
   use, and what of it stays.
4. `TextExtract` and `Safecat`: buffer and limits. Theorems about what is copied
   and how much.
5. `Recipes`: options, recipe parsing, `overlap`, scanner sharing, and the scanner
   functions against what the manual says of a recipe. Theorems about the list of
   scanners, `overlap`, the search functions and what is found.

## Modules

* `ScanDisk.tla`: the scanning loop. One action per statement of the code that
  can be interrupted, fail or branch.
* `Sweep.tla`: what the loop promises, without buffer, reads and ranges: a
  cursor goes over each device, passes no unsettled candidate, never moves back
  and leaves a sound device only at its end.
* `MCScanDisk.tla`: the small devices, scanners and contents the runs use.
* `Recur.tla`: the directory walk, for any caller and while leaves are unlinked.
* `Dupemap.tla`: dupemap, on top of `Recur` (it `EXTENDS` it): `main`,
  `scan_file`, the databases and the signal handler, run after run.
* `MCDupemap.tla`: the file systems and command lines of its runs.
* `Extract.tla`: `extract`, `compose_name`, `rename_output` and `run_shell` for
  several scans over one output directory; `MCExtract.tla`: its small instances.
* `Safecat.tla`, `MCSafecat.tla`: the loop of safecat between its input and the
  command behind the pipe.
* `TextExtract.tla`, `MCTextExtract.tla`: textextract on one file.
* `Recipes.tla`, `MCRecipes.tla`: the options of magicrescue, `parse_recipe`, and
  `scan_buf` as it uses what they set up, on one window.
* Proofs: `ScanDisk_proofs.tla` (types, buffer, sweep), `ScanRanges_proofs.tla`
  (skip ranges, claims and the refinement of `Sweep`, on top of it);
  `Recur_proofs.tla` and `Dupemap_proofs.tla`, the second using the first;
  `Extract_proofs.tla`, `Safecat_proofs.tla`, `TextExtract_proofs.tla`,
  `Recipes_proofs.tla`.

How `ScanDisk` corresponds to the code:

| `ScanDisk` | `src/magicrescue.c` |
|---|---|
| `dev`, `startOff` | `optind`, `start_offset` (648-651) |
| `pdev`, `position` | `progress.device` (246), `progress.position` (271) |
| `fdpos`, `obr`, `got`, `firsttime` | the file position, `offset_before_read`, `got`, `firsttime` |
| `buf` | `buf`: each cell holds the device offset its byte was read from |
| `base`, `len`, `fpos` | `scanbuf` relative to `buf`, `scanbuf_len`, `scanbuf_filepos` of `scan_buf` |
| `sc`, `p`, `idx`, `changed` | `scanner`, `p - scanbuf`, the loop over ranges or recipes, `filepos_changed` |
| `ranges` | `skip_ranges`; `begin < 0` is an unused slot |
| `disk` | what the devices contain: where each scanner's pattern starts |
| `OpenDevice`, `OpenFails`, `AllDevicesDone` | 233-256, 233-244, 648-651 |
| `ReadBlock`, `EndOfInput`, `ReturnFromScan`, `LseekFails` | 270-274, 270 and 298-319, 275-295, 280-284 |
| `RangePassed`, `RangeCoversWindow`, `RangeCutsFront`, `RangeLeftAlone` | 130-145 |
| `StartScanning`, `NextScanner`, `ScannersDone` | 147-154, 217-219 |
| `SkipCandidate`, `FindCandidate` | 157-166, 168 |
| `RecipesDone`, `RecipeFails`, `ExtractOutput`, `ExtractFails` | 168-215 |
| `Kill`, `Resume` | 75-86, a new run with `-O` |

`origin`, `swept`, `tested` and `claimed` are history: the properties read them,
no guard does. A candidate is found where the buffer holds its first `Reach`
bytes in order, so a misplaced or stale byte hides it, as it would for the
code's comparison. What a recipe's operations decide about a candidate, the size
`extract` returns and the file position its command leaves are any of a small
set. `memcpy` on overlapping areas (after a first read shorter than twice the
overlap) is undefined in C: the model copies in either direction.

How `Recur` and `Dupemap` correspond to the code:

| `Recur` | `src/recur.c` |
|---|---|
| `list` | `recur->list`, the paths not opened yet (44-47) |
| `RecurOpen`; `NoWalk` in `Dupemap` | `recur_open`; where it returns NULL (160-161) |
| `LongNames` | the path names that do not fit into `PATH_MAX` |
| `stack`, `left` | `stack->dirs` up to `pos`; what `readdir` has left of each (38-42) |
| `prefix`, `name` | `stack->prefix`, the name returned |
| `at` | in the caller, or inside `recur_next`, or after its end |
| `OpenPath`, `PathIsItem`, `PathMissing`, `PathsDone` | 182-207 |
| `DirectoryDone`, `ParentDir` | 126-134, 78-88 |
| `SkipEntry` | 136-140: name too long, or `lstat` fails |
| `EnterDirectory`, `ReturnEntry` | 142-153 |

| `Dupemap` | `src/dupemap.c` |
|---|---|
| `cmd`, `mode`, `ModeOf` | the command line, `parse_mode` (256-295) |
| `handled` | the handlers are installed (419-424) |
| `known` | the databases: the checksums in them |
| `tempdirs`, `tempdir` | the directories made by `csdb_open_tempdb` (59-90) |
| `Start`, `OpenDatabase`, `OpenTempDatabase` and `...Fails` | 353-411 |
| `BeginWalk`, `Walk`, `EndOfWalk`, `IgnoreItem`, `ExamineItem` | 419-437, 297-305 |
| `WalkFails` | 428-431: no walk, the database is closed, the handlers stay installed |
| `ExamineName`, `IgnoreName`, `EndOfNames` | 439-458 |
| `RecordChecksum`, `Duplicate`, `NotInDatabase` | 307-337 |
| `Killed`, `Handler` | `signal_beforedeath` (248-254) |

A path name is the sequence of the nodes it goes through, and resolves as long
as each of them is where the name says, so that a wrong prefix or a removed
directory makes `lstat` fail as it does in the code. `HasRegularBits` is the
code's test `st_mode & S_IFREG`, which is true of links and sockets as well. A
link to a device or a fifo passes it too and is opened: `HasContents` lets it be
read, and takes it to end. `paths`, `returned`, `recorded`, `deleted`, `visited`,
`hit` and `unstored` are history.

How `Extract` corresponds to the code (`src/extract.c`, several processes at once):

| `Extract` | code |
|---|---|
| `pc[s]`, `job[s]` | where `extract` is in scan `s`, and its variables with those of `compose_name` and `rename_output` |
| `dir` | the output directory: name, kind, size, and by which call it was made |
| `KeyOf` | 45-52: offset and base name in `device` mode, the base name otherwise |
| `Extract`, `NameChosen`, `NameTooLong` | 146-157, 135-138, 53-55 |
| `TryNext` | 41-56: one `lstat` of `compose_name` |
| `StartChild`, `RunCommand`, `CommandEnds`, `...Fails` | `run_shell`, 61-101 |
| `NoOutput`, `OutputTooSmall`, `OutputFound` | 160-172, 185-189 |
| `RunRename`, `RenameProposes`, `RenameSilent` | 111-143 |
| `NewNameChosen`, `RenameFile`, `Renamed` | 133-142; `rename` may fail for any reason and then leaves things as they are |
| `RunPostextract`, `PostextractEnds`, `Report` | 170-182 |
| `Interrupted` | `signal_beforedeath`, at any step |
| `CommandWrites`, `PostextractChanges` | external: what a recipe's commands do |

A name is a record of key, number and extension. The file of a call is marked
with the number of the call, so that a file of another call, of an interrupted one
or from before is a different one even under the same name. `reported`, `spoilt`
(the calls whose postextract changed their file) and `unmoved` (those whose
`rename` failed) are history. The file position that the commands share with the
scan is in `ScanDisk`.

| `Safecat` | `tools/safecat.c` |
|---|---|
| `first`, `readCount` | `buf_offset`, and the bytes from there on (`read_count`) |
| `totalIn`, `totalOut`, `inAtLastOut` | `total_in`, `total_out`, `in_at_last_out` |
| `Read`, `ReadEnds` | 90-93, 91 |
| `Write`, `WriteEnds`, `WriteFails` | 94-102: a short write leaves the rest of the buffer; the pipe is closed (95-96); any other error (96) |
| `Stat` | 104-114: the size of the file, or what happens when it is not there |
| `CommandReads`, `CommandWrites`, `CommandExits` | external: the other end of the pipe |

A byte of the input is its position in it: `first` is set to where the input is by
each read (93) and moved on by each write, `taken` is how much was read. `sent`, how
much the pipe was given, and `inAtChange` and `shrunk` are history.

| `TextExtract` | `tools/textextract.c` |
|---|---|
| `s`, `buf`, `p`, `out` | `struct scores` (`last_letter` as an index), the buffer, the byte reached, what was written |
| `Rules`, `scorelut`, `replut`, `Capacity` | `make_luts` (146-186); `bufsize` (363-365) |
| `Inspected`, `StopsAt` | 81-141: `inspect_char` |
| `WriteAll`, `WriteFails` | 189-200 |
| `Main`, `CannotStart` | 318-372 as far as it opens the output, 349-368 |
| `NothingBefore`, `ReadBackward`, `InspectBackward`, `...Fails` | `read_backward`, 225-255 |
| `Read`, `ReadEnds`, `Inspect` | 263-273 |
| `Flush`, `FlushFails`, `InternalError` | 273-287 |
| `GoForward`, `Finish` | `do_textextract`, 292-308 |

`buf` and `out` hold positions of the input, so that a byte that is lost, doubled
or out of place shows.

| `Recipes` | code |
|---|---|
| `Option...`, `OptionsEnd`, `DirectoryEnds` | `magicrescue.c` 564-651 |
| `Open`, `ScannerLine`, `OperationLine`, `DirectiveLine`, `Bad...`, `ReadFails`, `RecipeEnds`, `RecipeIncomplete` | `parse_recipe`, `magicrescue.c` 326-502 |
| `AddRecipe`, `Same`, `SameScanner` | `magicrescue.c` 91-103, `scanner.c` 113-129 |
| `scanner_char`, `scanner_block`, `scanner_string`, `magicoff` | `scanner.c` 31-101 |
| `op_string`, `op_int32`, `AllOpsMatch` | `recipe.c` 29-39, `magicrescue.c` 170-177 |
| `StringInit`, `HexBytes` | `util.c` 112-144, 42-51 |
| `NextScanner`, `TryRecipes`, `SearchEnds`, `ScannersEnd` | `scan_buf` 147-220, without ranges and extraction |

A parameter is the sequence of its bytes, because the escapes and the newline cut
off at line 360 are what the properties are about; the rest of a line is what
`sscanf` makes of it. `ScannerLine` and the other actions of a line do all that
the code does for it, growing `overlap` included.

Some definitions are faulty variants of the one that follows them, as a plausible
slip in that code would make it; no action uses them in that place, and for each
property of a passing run `PROJECT.json` names one that makes TLC report it violated.
`ScanDisk`: `HitsButLast`, `SeekNeglected`, `EndsInputEarly`, `NotReset`, `AnySlots`,
`BeginPassed`, `CutsFrontUnbounded`, `KeepScanningPastPattern`, `KeepScanningHere`,
`ReportedPastBlock`.
`Recur`: `WholePrefix`, `StatFollows`, `OneDeeper`, `NotAdvanced`.
`Dupemap`: `ModeWithScan`, `IsOnDisk`, `HandlerOnlyExits`.
`Extract`: `FirstNameBefore`, `KeepsOldName`, `RenamedOrLost`, `SameName` (and `StatSucceeds`, which the actions use for the `stat` of line 160,
taken in place of `lstat`).
`Safecat`: `AvailableOneMore`, `WrittenOnce`, `TriesAgain`, `ReachesDiff`,
`EveryStat`, `AnyLimitLeft`.
`TextExtract`: `WholeBuffer`, `NotClamped`, `WithLetter`, `BehindLetter`,
`CountsNoBytes`, `ScoresAtZero`. `Recipes`: `NewScannerString`, `RoundedDown`,
`SameAsLast`, `scanner_string_short`.

## Runs

| Configuration | Checks | Result |
|---|---|---|
| `ScanDisk.cfg` | types, `BufferCoherent`, `SweptFromOrigin`, `NoStaleRange`, `LiveClaimsKept`, `ResumeLosesLittle`, `NoClaimReentered`, `OnlyTheMarginIsBlind`, `Terminates`, `ImplementsSweep` | hold (117,464 states) |
| `ScanStaleRange.cfg` | `EveryCandidateSettled` with errors on the first device | violated |
| `ScanOffset.cfg` | `EveryCandidateSettled` with a scanner offset | violated |
| `ScanResume.cfg` | `ResumeLosesNothing` on devices of one block each | violated |
| `ScanOverlap.cfg` | `ClaimsDisjoint` with `allow_overlap` at its default | violated |
| `Dupemap.cfg` | types, `PrefixNamesTheStack`, `NothingMissed`, `RecordedFileStays`, `OneOfEachRemains`, `NoTempDirLeft`, `NeverTwice`, `RunsEnd` | hold (431,618 states) |
| `DupemapLink.cfg` | `RecordedFileStays` with a link beside its target | violated |
| `Extract.cfg` | types, `NothingOverwritten`, `ReportedIsThere`, `ExtractedIsKept`, `ExtractionReturns` | hold (21,990 states) |
| `Safecat.cfg` | types, `Verbatim`, `DiffBounded`, `UnchangedBounded`, `TotalBounded`, `Stops` | hold (208,530 states) |
| `TextExtract.cfg` | types, `OutputIsOneStretch`, `LettersKept`, `FlushFindsLetter`, `OutputWithinLimits`, `BlocksFromStart` | hold (270,356 states) |
| `TextExtractBlock.cfg` | `BlockScoreAtBoundaries` | violated |
| `Recipes.cfg` | types, `OverlapCovers`, `EachRecipeOnce`, `MatchesFound` | hold (9,363 states) |

`tlc -config ScanDisk.cfg MCScanDisk.tla` runs the first; the `Scan` runs use
`MCScanDisk`, the `Dupemap` runs `MCDupemap`, and each other run the `MC` module of
its name (`TextExtractBlock.cfg` that of `TextExtract.cfg`).

Bounds of `ScanDisk.cfg`, and why they are enough:

* devices of 9 and 3 bytes, a buffer of 6, an overlap of 2: the first device
  takes a full first block, blocks behind a moved tail, and a last read that is
  at, above or below the overlap; the second is over in one short read.
* reads of at least 4 bytes before the end (`MinRead`): full and short reads
  mix. This is `FullReads` below.
* scanner 1 has no offset and one recipe; scanner 2 has offset 1 and two
  recipes, one that never claims (`allow_overlap` -1) and one that allows one
  byte of overlap.
* extracted sizes 1 and 7: a range ends inside the window, or beyond the next
  one, so that all three range cases and slot reuse occur.
* commands leave the file position at 2; errors on device 2 only (errors on
  device 1 are `ScanStaleRange.cfg`); at most one kill (`MaxKills`).

`ScanResume.cfg` has two devices of 7 and 6 bytes, each read in one block, and
starts the first from offset 2: the signal is then the only thing that can
make a start position be lost, and only by naming the second device too early.

No other counter is bounded: the program itself goes through finite devices.

Bounds of `Dupemap.cfg`:

* a directory with a file, a link to a file outside, a link to a directory and a
  subdirectory, which holds a file and a further directory; `MaxDepth` 2, so
  that this directory is too deep to be entered; a file whose path name is too
  long (`LongNames`); a directory that cannot be opened and two single files, one
  again under a name too long. Two of the files that the commands reach have the
  same contents as the target of the link.
* six command lines: deletion with a temporary database and an `-I` file; a
  scan into the database on disk; deletion by means of it; one whose `-I` file
  cannot be opened; one whose first path is too long, so that there is no walk; and
  one that `parse_mode` refuses. Their paths are apart
  from each other, which `NeverTwice` and `RecordedFileStays` need: a file that
  is met twice is a duplicate of itself, and `doc/dupemap.pod:47` tells the user
  to give the scan and the deletion different paths.
* two runs (`MaxRuns`), so that deletion can follow a scan; one file removed by
  others at any moment (`MaxRemovals`); one number of temporary directories
  taken (`TakenDirs`); `mkdir`, `dbm_open` (for any reason, in any mode),
  `dbm_store` and `unlink` may fail;
  a signal may end a run anywhere.

Files with equal checksum and size count as equal, and nobody rewrites them.

Bounds of `Extract.cfg`: a scan of devices and one of files extract into one
directory, at one offset, two extractions in all (`MaxExtractions`), so that they
overlap in any order or follow each other. The directory is empty, or holds a
dangling link and a file under the first names that would be chosen. One recipe
renames and wants output of at least one byte, the other has a postextract. The
rename command says nothing, an extension, one with a slash (which cannot be
created) or one that is too long; files have 0 or 1 bytes; starting a command and
`rename` may fail, and a signal may come at any step. Nothing else is bounded.

Bounds of `Safecat.cfg`: a buffer of 2 and a pipe of 2 bytes, so that reads and
writes are full and short; an input of 3 bytes, which ends in the middle of a
block, and an endless one; four sets of limits, each first to be met in one of
them, one smaller than a block; a file of up to 4 bytes (`MaxSize`) that grows,
shrinks, vanishes or never exists. The limits bound what is read, so that the
endless input gives a finite state space: that it does is what `TotalBounded` says.

Bounds of `TextExtract.cfg`: all files of eight bytes out of letters and
characters that cost, of five with line ends, of four with NUL; blocks of 4; a
buffer of 4, so that it fills up more than once; starts at 0 and at 3, before a
block boundary; six command lines (plain, `-l`, `-M`, two with `-r`, one of which
reaches the start of the file, and a `-s` that does not fit the buffer). Reads
return any number of bytes, writes may fail. The table of characters has the shape
of `make_luts` with one character of each kind.

Bounds of `Recipes.cfg`: thirteen recipe files (each kind of line, equal
parameters written differently, patterns of which one begins another, zeros, a
missing newline at the end, and files that `parse_recipe` refuses) in seventeen
command lines, with `-b` before, between and after `-r`; words of four bytes, so
that rounding makes a difference; a window of 5 at positions 0, 3 and 6, on and off
block boundaries, over all 64 contents that matter to these recipes and two with
zeros. `ScoreTable` keeps the order of the entries the code has for these
characters; patterns have at most three bytes. Recipe offsets are not negative.

`CHECK_DEADLOCK FALSE` stands in the configurations of these four modules because
the programs end; for `Extract`, because the number of extractions is bounded.

Findings. Six properties that the documentation or a comment states do not
hold of the code; each violation run is the shortest trace TLC finds.

* `ScanStaleRange`: after an error inside `scan_buf` or at the seek, `scan_disk`
  returns before the reset of lines 313-319 ("Reset all ranges after processing
  a file"), and the ranges hide candidates of the next device. In `ScanDisk.cfg`,
  where only the last device has errors, `NoStaleRange` holds.
* `ScanOffset`: `p` contains the scanner's offset when line 150 compares it with
  the window's length, so that after a candidate the last `offset` start
  positions of the window are not searched. `OnlyTheMarginIsBlind` shows that
  nothing else is missed.
* `ScanResume`: the handler can name a new device with the position of the
  previous one, because 246 and 271 set them at different times. In the trace the
  signal comes before the first block of device 2, which is named with position 2
  of device 1; resuming there skips its first two start positions. The same
  property fails in a second way: 271 reports `offset_before_read`, while the
  window of that block (274) starts `overlap` bytes earlier, so a signal in any
  block but the first loses up to `overlap` start positions. `ResumeLosesLittle` in
  `ScanDisk.cfg` shows that on the first device it is never more than that for each
  signal.
* `ScanOverlap`: a scanner later in the list matches a file that starts before
  a claimed range and reaches into it; the check of 160-166 looks only at the
  start, while `doc/magicrescue.pod:314` says recipes will not match on
  overlapping byte ranges.
* `DupemapLink`: line 301 lets symbolic links pass for regular files. A link
  met before its target records the target's checksum; the target is then
  deleted as its own duplicate, in the run the one file with these contents that was
  met, while `doc/dupemap.pod:32` promises to delete files "that are encountered
  more than once".
* `TextExtractBlock`: line 303 starts the forward pass with the offset that the
  backward pass has counted down (line 90), though the file position is back where
  it was. The score is then raised that many bytes behind each block boundary,
  while the usage text (`tools/textextract.c:216`) says "when crossing a block
  boundary". `BlocksFromStart` shows that without `-r` it is right.

Fairness. `FairSpec` assumes weak fairness of `Step`, the program's own next
step: one sequential process that the system schedules, whose reads return and
whose commands end (`wait` in `run_shell` would block otherwise). `Kill` and
`Resume` are the environment's and have none. `Terminates` rests on it.
`Resting` stands for an ended program, so deadlock stays checked. In the same
way `Dupemap`'s `FairSpec` assumes weak fairness of `Step` only; `Start`,
`Killed` and `OthersRemove` have none, `RunsEnd` rests on it, and `Finished`
stands for the state after the last run. `Extract` assumes weak fairness of each
scan's `Step`, `CommandEnds` among it: `run_shell` waits for its command, so
`ExtractionReturns` says that extraction ends if the commands do. `Safecat` assumes
it of safecat's own steps and of `CommandReads`: a pipe that is full and never read
blocks `write` forever. Nothing makes the command write its file or exit, and with
an endless input `Stops` holds by the limits. `TextExtract` and `Recipes` state no
liveness: they are sequential loops over finite input.

## Proofs

`tlapm ScanDisk_proofs.tla` checks, for all values of the constants that satisfy
the four named assumptions of `ScanDisk` (which only give the constants their
types and say that a scanner's offset and the bytes it needs lie within the
overlap):

* `TypeCorrect`: `Spec => []TypeOK`. `TypeOK` alone is not inductive: that a cut
  leaves a window of non-negative length needs to know how `base`, `len` and
  `fpos` relate to the block. `TypeInv` adds `BlockInBuffer` (the block fits,
  and the cut window plus the overlap is exactly what is kept plus what was
  read), that the cursor is not before the device, and the bounds on `p`.
* `BufferIsCoherent`: `Spec => []BufferCoherent` under `FullReads`.
  `CoherenceInv` adds that between blocks the kept cells hold the bytes right
  before the file position, that the file position is `obr` unless a command
  moved it, and that a short block is the last.
* `NothingIsSkipped`: `Spec => []SweptFromOrigin` under `FullReads` and
  `LargeBuffer`. `SweepInv` adds what is known of the devices already left and
  that the window's end is where the next cursor will be.

`FullReads` says that reads before the end of a device return at least twice the
overlap. Without it both fail: a short read puts `memcpy` on overlapping areas,
and a read of `overlap` bytes or less ends the device early. Regular files and
block devices satisfy it. `LargeBuffer` (more than two overlaps) holds of all
shipped recipes by a wide margin; the code does not check it.

Each inductive invariant is proved with one lemma per group of actions; lemmas
state what `ReadSizes`, the copies, the reset and the slot choice return.

`tlapm ScanRanges_proofs.tla`, on top of that:

* `ClaimsStayInForce`: `Spec => []LiveClaimsKept`, with no condition. `LiveInv` adds
  that claims of this run are of devices opened so far, so that the clean-up drops
  no claim that has bytes ahead and the choice of a slot overwrites none.
* `NeverReentered`: `Spec => NoClaimReentered`, a consequence of it.
* `NothingStale`: `Spec => []NoStaleRange` under `OnlyLastFails` (only the last device
  is given up); `StaleInv` adds that all slots are free when a device is opened.
  `ScanStaleRange.cfg` shows why the condition is needed.
* `CandidatesAreSettled`: `Spec => OnlyTheMarginIsBlind` under `FullReads` and
  `OnlyLastFails`. `MarginInv` says that each scanner has settled what it has
  searched of the window, and that claims begin behind where it is; a range that
  cuts the front of the window settles what it covers because it is not stale.
* `ScanImplementsSweep`: `Spec => ImplementsSweep` under `FullReads`, `LargeBuffer` and
  `OnlyLastFails`. Initial states map to initial states. Opening a device maps to
  `Begin`, a trial or a claim to `Settle`, the end of a window to `Pass`, which needs
  `MarginInv`, leaving a device to `Finish`, the signal to `Interrupt`; all else
  stutters.

`tlapm Recur_proofs.tla`, for all trees, links, limits and callers (from
`TreeAssumption` and `LimitAssumption`, which give the constants their types):

* `WalkTypes`: `RecurSpec => []RecurTypeOK`.
* `NamesAreRight`: `RecurSpec => []PrefixNamesTheStack`, inductive together with
  the types.
* `WalkIsComplete`: `RecurSpec => []NothingMissed`. `NothingMissed` speaks of
  walks that have ended only; `NothingLost` says of a walk under way that each
  entry of a directory to be listed is returned, or is left to be read in a
  directory on the stack that has exactly this name, or belongs to a path not
  opened yet; both leave out names too long. It needs `PrefixNamesTheStack`: an entry that is skipped because
  `lstat` fails is really gone only if the path name is right. Everything else
  is monotone in `present`, which only shrinks.
* `NothingTwice`: `RecurSpec /\ []PathsApart => NeverTwice`, for paths that lead to
  different nodes of which none is below another. `OnceInv` says that a node
  returned is a path already taken or an entry of a directory that was opened,
  that no directory is on the stack twice, and that nothing left to read in
  one was returned.

`tlapm Dupemap_proofs.tla`:

* `DupemapMissesNothing`: `Spec => []NothingMissed`. Dupemap's walk is made of the
  actions of `Recur`, so its behaviours are among those of `RecurSpec` by construction
  (a lemma, no result of its own), and `WalkIsComplete` applies.
* `DupemapTypes`: `Spec => []TypeOK`. `DupeInv` adds that `scan_file` acts on a node
  that was examined in this run.
* `TempDirRemoved`: `Spec => []NoTempDirLeft`. `TempDirInv` adds that the directory
  is gone once `main` has closed the database, and that the handlers are not
  installed before it is open.
* `OneOfEach`: `Spec => []OneOfEachRemains`. `KeptInv` adds that the checksum of
  each kept file is stored, or failed to be, and that a temporary database never
  comes with the mode that only reads.
* `DupemapMeetsOnce`: `Spec => NeverTwice` under `ArgumentsApart`.
* `RecordedStays`: `Spec => []RecordedFileStays` under three conditions on the
  command lines, which those of `Dupemap.cfg` satisfy. `ArgumentsApart`: paths and
  `-I` names of a command are apart from each other. `ScansApart`: what a
  command scans into the database on disk is apart from what another compares with
  it, as `doc/dupemap.pod:40-47` asks. `LinksApart`: with a temporary database, no
  link that is met leads to another file that is met; in both "file" is whatever
  has contents to read, a device or a fifo included. `DupemapLink.cfg`
  shows that this one is needed, and the manual does not ask for it. Besides the
  types the invariant has `PlaceInv` (the walk is over the command's paths), `OnceInv`,
  `SeenInv` (the files examined in this run, and that the one at hand is not among
  them) and `StayInv` (which files the checksums in each database are from).

`tlapm Extract_proofs.tla`, for any scans, recipes, proposals, sizes and leftovers.
`KeysAssumption` says that no two scans choose among the same names: two `device`
scans that match at the same offset do, and then race between `lstat` and the
command.

* `ExtractTypes`, `NeverOverwrites` (`NothingOverwritten`), `ReportedStays`
  (`ReportedIsThere`), `FileIsKept` (`ExtractedIsKept`). `ExtractInv` is about ownership: from the choice of a name to the
  return of `extract`, nothing is under that name but the file of this call
  (`NameIsOwn`), and after the check the file is there with the size to be reported
  (`FileIsThere`), unless the rename failed; then it is still there under some name, and
  only the report is wrong. A lemma shows that a step of one scan
  touches only files of its own call, so that what others know of theirs stays.

`tlapm Safecat_proofs.tla`, for any buffer, pipe, limits, input and command:

* `SafecatTypes`, `CopiedVerbatim`, `DiffHolds`, `UnchangedHolds`, `TotalHolds`, one for
  each safety property. `CopiedVerbatim` ties the block to the input: what is about to
  be written follows on what was sent, and nothing that was read is left when the
  next block is read. None of the bounds is inductive: between two looks at the
  file a block goes out. `Room` is what may still go out before the next look,
  and `WereWithin` says the limits hold with it counted in; `ChangeIsRecent` that a
  change not seen yet is at most a block old.

`tlapm TextExtract_proofs.tla`, for any table of characters, input, buffer and options:

* `TextTypes`, `BufferNeverStuck` (`FlushFindsLetter`), `OutputIsWhole`
  (`OutputIsOneStretch`), `NoLetterLost` (`LettersKept`), `BlocksAreInPlace`
  (`BlocksFromStart`). `TextInv` says where the bytes in the buffer and in the
  output are from, where the last letter is, and that each byte behind it has
  cost at least one point: so a buffer that is full without a letter to cut at
  needs a score as high as it is long.

* `LimitsAreKept`: `Spec => []OutputWithinLimits`. `LimitInv` says that the running
  score is at least the score of every stretch that ends with the byte inspected
  last (on the way back, that begins with it), though it is raised at blocks and cut
  off at zero: so while it is within `-s`, so is every stretch inspected. The byte that
  ends the text is written only if it is a letter, which costs nothing. The line
  counter counts from the last line end. `ScoreIsCost` turns the recursive sum of
  `ScoreOf` into a difference of running totals, with which the steps are arithmetic.

`tlapm Recipes_proofs.tla`, for any recipe files, command lines, windows, frequencies of
bytes and word size. The assumptions on the constants say what the code's inputs are:
the types; that no directory has a name twice; that byte 0 has the highest score in
`scoretable`, with which the search for the smallest in `scanner_string_init` starts.

* `Typed`: `Spec => []TypeOK`. `ITypes` adds which fields each kind of scanner has, that
  the cursor of a search is not before the scanner's offset, and where each variable
  of `parse_recipe` is used.
* `Overlap`: `Spec => []OverlapCovers`. `IOverlap` keeps what is needed of the recipe at
  hand and of the list below the maximum so far, which rounding only raises.
* `Once`: `Spec => []EachRecipeOnce`. `IPlaced` says of every `-r` read so far that each of
  its recipes, but for those still to be parsed, is at exactly one place of the list
  and that nothing else is there; `AddRecipeAdds` says what one recipe does to the list.
* `FuncFindsFirst`: the three search functions return the first place where the scanner's
  string, byte or block boundary is, and `Nowhere` if there is none; for strings this
  unfolds the search for the rarest byte, by induction on what is left of the window.
* `Matches`: `Spec => []MatchesFound`, from two hypotheses that `MCRecipes` has TLC
  evaluate for the small instance. `StringsMean` says that `Meaning`, the manual's
  reading of a parameter, is what `string_init` makes of it. `MatchLinesEnd` says that
  the last line of a file without a final newline is no match line, as `parse_recipe`
  cuts off its last character (360). `IMeaning` adds that each scanner and operation
  stands for a match line of its file, and the scanner for the first that can be
  searched for; `IFound` that what was found holds, and that every place a search has
  passed where a recipe holds was found.

Recursive definitions. The theorems on induction of the library take an operator
as a parameter, but well-foundedness is stated of sets there: `SetInduction` derives
induction over a set of naturals from it and `RecursiveFunction` that a recursion over
sets has a solution. With these `StringInit`, `scanner_string` and `ScoreOf`, written as
recursive functions, can be unfolded for every input.

Only model-checked: `Terminates`, `RunsEnd`, `ExtractionReturns` and `Stops`. They are
liveness, which is out of the prover's reach. `ResumeLosesLittle`, which counts
positions over several runs of the program, is checked on the small instance only.
Every other safety property of the passing runs is a theorem.

## Noticed on the way

Behaviour that the models have, or leave out, and that no run states as a finding:

* textextract may write one byte more than `-M` asks for, and does not count the
  backward part; `OutputWithinLimits` states the limit it keeps.
* textextract drops the last letter if the buffer was flushed just before it and
  the text ends before another letter follows; `LettersKept` says so.
* With `-s` as high as the buffer is long, textextract ends at the branch
  commented "this shouldn't happen"; `FlushFindsLetter` says exactly when.
* The last character of a recipe file is cut off if there is no newline after it.
* The manual of magicrescue calls `extension` mandatory; the code does not ask for it.
* `rename_output` ignores the result of `rename` and goes on with the new name.
* Nothing compares the size of the buffer with `overlap`: `LargeBuffer` and
  `FullReads` are conditions of the proofs for that reason.
* Deleting with dupemap over the same path twice takes each file for its own
  duplicate; `ArgumentsApart` excludes it.

## Not modelled

The Perl helpers and `laola.pl` (readers of single file formats), `checkrecipe` and
`magicsort` (stateless scripts), `inputseek` (one call of `rich_seek`, then `exec`),
the recipes that are shipped, build files and documentation.

Of the modelled parts:

* magicrescue: messages, `-M`, resource limits, the `-I` list (the same calls of
  `scan_disk`, with names from a file), and allocation failure, which the code
  does not handle. Recipe offsets below zero, which `sscanf` takes. `Recipes` has
  `scan_buf` without ranges and extraction, which are `ScanDisk`'s; there a recipe's
  decision is any of a set. What connects the two is `OverlapCovers`, which is
  `ScanDisk`'s assumption about its scanners.
* Extraction: descriptors left open after an error, a command that outlives its
  magicrescue, and two scans with the same names (`KeysAssumption`).
* dupemap: contents of files (a checksum is a constant of each), progress and
  messages, a signal inside `dbm_store` or in the few instructions around the
  second `csdb_close`, devices and fifos without an end, and an `-I` file whose last line has no newline. `rm_rf`,
  which dupemap calls on its own temporary directory, is one step.
* safecat: limits of zero or below. textextract: what `getopt` and `atoi` make of
  the command line; an input that grows while it is read.
