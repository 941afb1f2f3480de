------------------------------ MODULE ScanDisk ------------------------------
(***************************************************************************)
(* The scanning loop of magicrescue (src/src/magicrescue.c): main's loop   *)
(* over the devices, scan_disk's sliding read/scan buffer, scan_buf's      *)
(* passes of every scanner over the window, the skip ranges that stop it   *)
(* from extracting inside a file already extracted, the progress report of *)
(* the fatal-signal handler and the resumption with -O it invites.         *)
(*                                                                         *)
(* A byte is the device offset it was read from, so that the buffer shows  *)
(* which bytes of which place it holds.  What a device contains is the set *)
(* of positions where each scanner's pattern starts ("candidates").  What  *)
(* a recipe's operations say of a candidate, and how much its command      *)
(* extracts, is any outcome.                                               *)
(*                                                                         *)
(* Ten small definitions are faulty variants of the one that follows them  *)
(* (PROJECT.json, "mutants"): no action uses them, they are there to show  *)
(* that each property notices a mistake of that kind.                      *)
(***************************************************************************)
EXTENDS Integers, Sequences, FiniteSets

CONSTANTS
    DevLen,        \* the devices of the command line, by their readable length
    BufSize,       \* bufsize
    Overlap,       \* overlap
    Reach,         \* bytes from a candidate's start the recipes look at (overlap before rounding)
    MinRead,       \* no read returns less than this before the end of a device
    Offset,        \* scanner->offset of each scanner
    AllowOverlap,  \* allow_overlap of each recipe of each scanner
    Contents,      \* the possible contents: device -> scanner -> its candidates
    Starts,        \* the -O offsets of the command line
    OutSizes,      \* the sizes extract may return
    LeavesAt,      \* where a command may leave the file position it shares
    Faulty,        \* devices on which open, read, lseek or an extraction may fail
    MaxKills       \* bound: how often the program is killed

Devices  == 1..Len(DevLen)
Scanners == 1..Len(Offset)

ASSUME DevicesAssumption == DevLen \in Seq(Nat)
ASSUME BufferAssumption ==
    BufSize \in Nat /\ Overlap \in Nat /\ MinRead \in Nat /\ Reach \in 0..Overlap
ASSUME ScannersAssumption ==
    /\ Offset \in Seq(0..Reach)
    /\ AllowOverlap \in [Scanners -> Seq(Int)]
    /\ Contents \subseteq [Devices -> [Scanners -> SUBSET Nat]]
ASSUME OutcomesAssumption ==
    /\ Starts \subseteq Nat /\ OutSizes \subseteq Nat /\ LeavesAt \subseteq Nat
    /\ Faulty \subseteq Devices
    /\ MaxKills \in Nat

NoByte == -1     \* a cell of the buffer that holds nothing of this device
Cells  == 0..BufSize-1

VARIABLES
    pc,                             \* where the program is
    dev, startOff,                  \* main: device being scanned (optind), its -O offset
    pdev, position,                 \* progress.device (0: none yet), progress.position
    fdpos, obr, got, firsttime,     \* scan_disk: file position, offset_before_read, got
    buf,                            \* buf: cell -> device offset of its byte
    base, len, fpos,                \* scan_buf: scanbuf, scanbuf_len, scanbuf_filepos
    idx,                            \* the element an array_foreach has reached
    sc, p, changed,                 \* scanner, p - scanbuf, filepos_changed
    ranges,                         \* skip_ranges; begin < 0 marks an unused slot
    disk,                           \* what the devices contain
    kills,                          \* how often the program was killed
    origin, swept, tested, claimed  \* history, read by the properties only

mainVars     == <<dev, startOff>>
progressVars == <<pdev, position>>
fileVars     == <<fdpos, obr, got, firsttime, buf>>
windowVars   == <<base, len, fpos>>
loopVars     == <<idx, sc, p, changed>>
history      == <<origin, swept, tested, claimed>>
vars == <<pc, mainVars, progressVars, fileVars, windowVars, loopVars, ranges,
          disk, kills, history>>

Least(a, b) == IF a < b THEN a ELSE b

(***************************************************************************)
(* The buffer.                                                             *)
(***************************************************************************)

\* readbuf - scanbuf: the bytes kept from the previous block.
Kept == IF firsttime THEN 0 ELSE Overlap

\* What read may return: up to what the buffer takes and the device has.
ReadSizes ==
    LET left == IF fdpos < DevLen[dev] THEN DevLen[dev] - fdpos ELSE 0
        most == Least(BufSize - Kept, left)
    IN  {n \in 0..most : n >= MinRead \/ n = most}

\* The memcpy that moves the last overlap bytes to the front.  Its areas
\* overlap after a short first read, which leaves its order undefined.
TailAt == Kept + got - Overlap
CopiedForward  == [c \in Cells |-> IF c < Overlap THEN buf[c + TailAt] ELSE buf[c]]
CopiedBackward ==
    [c \in Cells |-> IF c < Overlap
                     THEN buf[c + TailAt * ((Overlap - 1 - c) \div TailAt + 1)]
                     ELSE buf[c]]

\* The file position scan_disk goes on reading from.
SeekNeglected == fdpos
SeekBack == IF changed THEN obr + got ELSE fdpos

\* A read this short ends the scan of the device.
EndsInputEarly(n) == n <= 2 * Overlap
EndsInput(n) == n <= Overlap

\* The bytes from cell c on are those of a candidate of scanner s.
HitAt(s, c) ==
    \E x \in disk[dev][s] :
        \A k \in 0..Reach-1 : c + k \in Cells /\ buf[c + k] = x + k

\* The starts scanner->func may still return; p already includes offset here.
HitsButLast == {h \in (p - Offset[sc])..(len - 2) : p < len /\ HitAt(sc, base + h)}
Hits == {h \in (p - Offset[sc])..(len - 1) : p < len /\ HitAt(sc, base + h)}

(***************************************************************************)
(* The skip ranges.                                                        *)
(***************************************************************************)

Used(r) == r.begin >= 0
StrictlyInside(x, r) == Used(r) /\ x > r.begin /\ x < r.end
NotReset(rs) == rs
AllUnused(rs) == [i \in DOMAIN rs |-> [rs[i] EXCEPT !.begin = -1]]

AnySlots(rs) == DOMAIN rs
FreeSlots(rs) == {i \in DOMAIN rs : ~Used(rs[i])}
\* A new range goes to the last unused slot, or to a new one.
PutRange(r) ==
    IF FreeSlots(ranges) = {} THEN ranges' = Append(ranges, r)
    ELSE \E i \in FreeSlots(ranges) :
            /\ \A j \in FreeSlots(ranges) : j <= i
            /\ ranges' = [ranges EXCEPT ![i] = r]

(***************************************************************************)
(* main and the head of scan_disk.                                         *)
(***************************************************************************)

Init ==
    /\ pc = "open"
    /\ dev = 1 /\ startOff \in Starts
    /\ pdev = 0 /\ position = 0
    /\ fdpos = 0 /\ obr = 0 /\ got = 0 /\ firsttime = TRUE
    /\ buf = [c \in Cells |-> NoByte]
    /\ base = 0 /\ len = 0 /\ fpos = 0
    /\ idx = 1 /\ sc = 1 /\ p = 0 /\ changed = FALSE
    /\ ranges = <<>>
    /\ disk \in Contents
    /\ kills = 0
    /\ origin = [d \in Devices |-> 0]
    /\ swept = [d \in Devices |-> {}]
    /\ tested = {} /\ claimed = {}

LeaveDevice ==
    /\ pc' = "open"
    /\ dev' = dev + 1 /\ startOff' = 0

\* Naming the device does not reset progress.position.
OpenDevice ==
    /\ pc = "open" /\ dev \in Devices
    /\ pc' = "read"
    /\ fdpos' = startOff /\ obr' = startOff /\ firsttime' = TRUE
    /\ buf' = [c \in Cells |-> NoByte]
    /\ pdev' = dev
    /\ origin' = [origin EXCEPT ![dev] = startOff]
    /\ UNCHANGED <<mainVars, position, got, windowVars, loopVars, ranges, disk, kills,
                   swept, tested, claimed>>

\* open or the first seek fails: the device is left before it is named.
OpenFails ==
    /\ pc = "open" /\ dev \in Faulty
    /\ LeaveDevice
    /\ UNCHANGED <<progressVars, fileVars, windowVars, loopVars, ranges, disk, kills, history>>

AllDevicesDone ==
    /\ pc = "open" /\ dev > Len(DevLen)
    /\ pc' = "exit"
    /\ UNCHANGED <<mainVars, progressVars, fileVars, windowVars, loopVars, ranges, disk,
                   kills, history>>

(***************************************************************************)
(* scan_disk's loop.                                                       *)
(***************************************************************************)

\* The offset reported if the program is killed from now on: that of the bytes read,
\* not of the window, which starts with the bytes kept.
ReportedPastBlock(n) == obr + n
Reported(n) == obr

\* read returns more than overlap bytes: scan_buf is called on the window.
ReadBlock ==
    /\ pc = "read"
    /\ \E n \in ReadSizes :
        /\ ~EndsInput(n)
        /\ got' = n
        /\ fdpos' = fdpos + n
        /\ buf' = [c \in Cells |-> IF c >= Kept /\ c < Kept + n THEN fdpos + c - Kept
                                   ELSE buf[c]]
        /\ len' = n + Kept - Overlap
        /\ position' = Reported(n)
    /\ pc' = "ranges"
    /\ base' = 0 /\ fpos' = obr - Kept
    /\ idx' = 1 /\ changed' = FALSE
    /\ UNCHANGED <<mainVars, pdev, obr, firsttime, sc, p, ranges, disk, kills, history>>

\* read returns overlap bytes or less, or fails: the ranges are reset and the
\* device is left.
EndOfInput ==
    /\ pc = "read"
    /\ dev \in Faulty \/ \E n \in ReadSizes : EndsInput(n)
    /\ ranges' = AllUnused(ranges)
    /\ LeaveDevice
    /\ UNCHANGED <<progressVars, fileVars, windowVars, loopVars, disk, kills, history>>

\* After scan_buf: back to the end of the block if a command moved the file
\* position, move the tail to the front, and read on.
ReturnFromScan ==
    /\ pc = "return"
    /\ pc' = "read"
    /\ fdpos' = SeekBack
    /\ buf' \in {CopiedForward} \cup (IF TailAt < Overlap THEN {CopiedBackward} ELSE {})
    /\ firsttime' = FALSE
    /\ obr' = obr + got
    /\ swept' = [swept EXCEPT ![dev] = @ \cup (obr - Kept)..(obr + got - Overlap - 1)]
    /\ UNCHANGED <<mainVars, progressVars, got, windowVars, loopVars, ranges, disk, kills,
                   origin, tested, claimed>>

\* That seek fails: the device is left, its ranges are not reset.
LseekFails ==
    /\ pc = "return" /\ changed /\ dev \in Faulty
    /\ LeaveDevice
    /\ UNCHANGED <<progressVars, fileVars, windowVars, loopVars, ranges, disk, kills, history>>

(***************************************************************************)
(* scan_buf, first part: drop the ranges the window has passed and cut the *)
(* ones it starts in off its front.                                        *)
(***************************************************************************)

\* The three cases of a range in force, in the order scan_buf tries them.
BeginPassed(r) == r.begin < fpos
Passed(r) == r.end < fpos
CoversWindow(r) == ~Passed(r) /\ r.end > fpos + len
CutsFrontUnbounded(r) == r.begin <= fpos /\ r.end > fpos
CutsFront(r) == ~Passed(r) /\ ~CoversWindow(r) /\ r.begin <= fpos /\ r.end > fpos

AtRange == pc = "ranges" /\ idx <= Len(ranges)

RangePassed ==
    /\ AtRange /\ Used(ranges[idx]) /\ Passed(ranges[idx])
    /\ ranges' = [ranges EXCEPT ![idx].begin = -1]
    /\ idx' = idx + 1
    /\ UNCHANGED <<pc, mainVars, progressVars, fileVars, windowVars, sc, p, changed, disk,
                   kills, history>>

RangeCoversWindow ==
    /\ AtRange /\ Used(ranges[idx]) /\ CoversWindow(ranges[idx])
    /\ pc' = "return"
    /\ UNCHANGED <<mainVars, progressVars, fileVars, windowVars, loopVars, ranges, disk,
                   kills, history>>

RangeCutsFront ==
    /\ AtRange /\ Used(ranges[idx]) /\ CutsFront(ranges[idx])
    /\ LET skip == ranges[idx].end - fpos IN
        /\ base' = base + skip
        /\ len' = len - skip
        /\ fpos' = fpos + skip
    /\ idx' = idx + 1
    /\ UNCHANGED <<pc, mainVars, progressVars, fileVars, sc, p, changed, ranges, disk,
                   kills, history>>

RangeLeftAlone ==
    /\ AtRange
    /\ Used(ranges[idx]) => LET r == ranges[idx] IN
                            ~Passed(r) /\ ~CoversWindow(r) /\ ~CutsFront(r)
    /\ idx' = idx + 1
    /\ UNCHANGED <<pc, mainVars, progressVars, fileVars, windowVars, sc, p, changed, ranges,
                   disk, kills, history>>

(***************************************************************************)
(* scan_buf, second part: every scanner over the window, every recipe of   *)
(* the scanner on each candidate it finds.                                 *)
(***************************************************************************)

ToScanner(s) == sc' = s /\ p' = IF s \in Scanners THEN Offset[s] ELSE 0

StartScanning ==
    /\ pc = "ranges" /\ idx > Len(ranges)
    /\ pc' = "scan"
    /\ ToScanner(1)
    /\ UNCHANGED <<mainVars, progressVars, fileVars, windowVars, idx, changed, ranges, disk,
                   kills, history>>

NextScanner ==
    /\ pc = "scan" /\ sc \in Scanners /\ Hits = {}
    /\ ToScanner(sc + 1)
    /\ UNCHANGED <<pc, mainVars, progressVars, fileVars, windowVars, idx, changed, ranges,
                   disk, kills, history>>

ScannersDone ==
    /\ pc = "scan" /\ sc \notin Scanners
    /\ pc' = "return"
    /\ UNCHANGED <<mainVars, progressVars, fileVars, windowVars, loopVars, ranges, disk,
                   kills, history>>

\* keep_scanning, from a candidate at h.
KeepScanningPastPattern(h) == p' = h + Offset[sc] + Reach + 1
KeepScanningHere(h) == p' = h + Offset[sc]
KeepScanning(h) == p' = h + Offset[sc] + 1

\* A candidate whose start is strictly inside a range in force is passed over.
SkipCandidate ==
    /\ pc = "scan" /\ sc \in Scanners
    /\ \E h \in Hits :
        /\ \A g \in Hits : h <= g
        /\ \E i \in DOMAIN ranges : StrictlyInside(fpos + h, ranges[i])
        /\ KeepScanning(h)
    /\ UNCHANGED <<pc, mainVars, progressVars, fileVars, windowVars, idx, sc, changed,
                   ranges, disk, kills, history>>

FindCandidate ==
    /\ pc = "scan" /\ sc \in Scanners
    /\ \E h \in Hits :
        /\ \A g \in Hits : h <= g
        /\ \A i \in DOMAIN ranges : ~StrictlyInside(fpos + h, ranges[i])
        /\ p' = h
        /\ tested' = tested \cup {<<dev, sc, fpos + h>>}
    /\ pc' = "recipes"
    /\ idx' = 1
    /\ UNCHANGED <<mainVars, progressVars, fileVars, windowVars, sc, changed, ranges, disk,
                   kills, origin, swept, claimed>>

AtRecipe == pc = "recipes" /\ idx \in DOMAIN AllowOverlap[sc]

RecipesDone ==
    /\ pc = "recipes" /\ idx \notin DOMAIN AllowOverlap[sc]
    /\ pc' = "scan"
    /\ KeepScanning(p)
    /\ UNCHANGED <<mainVars, progressVars, fileVars, windowVars, idx, sc, changed, ranges,
                   disk, kills, history>>

RecipeFails ==
    /\ AtRecipe
    /\ idx' = idx + 1
    /\ UNCHANGED <<pc, mainVars, progressVars, fileVars, windowVars, sc, p, changed, ranges,
                   disk, kills, history>>

\* Does an output of this size claim its bytes, under allow_overlap a?
Claims(a, size) == a >= 0 /\ size > a

\* The operations match and extract returns a size: the command has moved the
\* file position; a claim ends the trial of recipes on this candidate.
ExtractOutput ==
    /\ AtRecipe
    /\ \E size \in OutSizes :
        LET allow == AllowOverlap[sc][idx]
            x     == fpos + p
            range == [begin |-> x, end |-> x + size - allow]
        IN  IF Claims(allow, size)
            THEN /\ PutRange(range)
                 /\ claimed' = claimed \cup
                        {[dev |-> dev, run |-> kills, begin |-> x, end |-> range.end]}
                 /\ pc' = "scan" /\ KeepScanning(p) /\ UNCHANGED idx
            ELSE idx' = idx + 1 /\ UNCHANGED <<pc, p, ranges, claimed>>
    /\ fdpos' \in LeavesAt
    /\ changed' = TRUE
    /\ UNCHANGED <<mainVars, progressVars, obr, got, firsttime, buf, windowVars, sc, disk,
                   kills, origin, swept, tested>>

\* extract fails: scan_buf and scan_disk give the device up, without resetting
\* its ranges.
ExtractFails ==
    /\ AtRecipe /\ dev \in Faulty
    /\ LeaveDevice
    /\ UNCHANGED <<progressVars, fileVars, windowVars, loopVars, ranges, disk, kills, history>>

(***************************************************************************)
(* signal_beforedeath, and the user who resumes from the offset it names.  *)
(***************************************************************************)

Running == pc \notin {"exit", "killed"}

Kill ==
    /\ Running /\ kills < MaxKills
    /\ pc' = "killed"
    /\ kills' = kills + 1
    /\ UNCHANGED <<mainVars, progressVars, fileVars, windowVars, loopVars, ranges, disk, history>>

Resume ==
    /\ pc = "killed"
    /\ pc' = "open"
    /\ dev' = IF pdev = 0 THEN 1 ELSE pdev
    /\ startOff' = position
    /\ pdev' = 0 /\ position' = 0
    /\ fdpos' = 0 /\ obr' = 0 /\ got' = 0 /\ firsttime' = TRUE
    /\ buf' = [c \in Cells |-> NoByte]
    /\ base' = 0 /\ len' = 0 /\ fpos' = 0
    /\ idx' = 1 /\ sc' = 1 /\ p' = 0 /\ changed' = FALSE
    /\ ranges' = <<>>
    /\ UNCHANGED <<disk, kills, history>>

Resting == ~Running /\ UNCHANGED vars

(***************************************************************************)
(* The specification.                                                      *)
(***************************************************************************)

Step ==
    \/ OpenDevice \/ OpenFails \/ AllDevicesDone
    \/ ReadBlock \/ EndOfInput \/ ReturnFromScan \/ LseekFails
    \/ RangePassed \/ RangeCoversWindow \/ RangeCutsFront \/ RangeLeftAlone
    \/ StartScanning \/ NextScanner \/ ScannersDone
    \/ SkipCandidate \/ FindCandidate
    \/ RecipesDone \/ RecipeFails \/ ExtractOutput \/ ExtractFails

Next == Step \/ Kill \/ Resume \/ Resting

Spec == Init /\ [][Next]_vars
FairSpec == Spec /\ WF_vars(Step)

(***************************************************************************)
(* Properties.                                                             *)
(***************************************************************************)

InScanBuf == pc \in {"ranges", "scan", "recipes"}
OnDevice  == pc \in {"read", "ranges", "scan", "recipes", "return"}

\* The first start position scan_disk has not yet passed.
Cursor == obr - Kept
WindowEnd == obr + got - Overlap

ControlTypes ==
    /\ pc \in {"open", "read", "ranges", "scan", "recipes", "return", "exit", "killed"}
    /\ dev \in Nat \ {0} /\ startOff \in Nat
    /\ pdev \in 0..Len(DevLen) /\ position \in Nat
    /\ kills \in Nat
FileTypes ==
    /\ fdpos \in Nat /\ obr \in Nat /\ got \in Nat /\ firsttime \in BOOLEAN
    /\ buf \in [Cells -> Int]
    /\ disk \in [Devices -> [Scanners -> SUBSET Nat]]
WindowTypes ==
    /\ base \in Nat /\ len \in Nat /\ fpos \in Nat
    /\ idx \in Nat \ {0} /\ sc \in Nat \ {0} /\ p \in Nat /\ changed \in BOOLEAN
RangeTypes == ranges \in Seq([begin : Int, end : Nat])
HistoryTypes ==
    /\ origin \in [Devices -> Nat]
    /\ swept \in [Devices -> SUBSET Nat]
    /\ tested \subseteq Devices \X Scanners \X Nat
    /\ claimed \subseteq [dev : Devices, run : Nat, begin : Nat, end : Nat]

\* Every variable has the type the code gives it; the window scan_buf is left with
\* never has a negative length, nor does it begin before the device.
TypeOK == ControlTypes /\ FileTypes /\ WindowTypes /\ RangeTypes /\ HistoryTypes

\* No read but the last of a device is shorter than twice the overlap, or empty.
FullReads == MinRead > 0 /\ MinRead >= 2 * Overlap

\* The buffer takes more than two overlaps, as with every recipe that is shipped.
LargeBuffer == BufSize > 2 * Overlap

\* While scan_buf runs, the window and the overlap bytes after it lie inside the
\* buffer and are the device's bytes from scanbuf_filepos on, in order and without
\* a gap: the tail moved by memcpy, the block read behind it and the cuts made by
\* skip ranges always line up, wherever a command left the file position.
BufferCoherent ==
    InScanBuf => \A i \in 0..(len + Overlap - 1) :
                    base + i \in Cells /\ buf[base + i] = fpos + i

\* A device's start positions are passed without a gap: from where its scan began to
\* where it now is, and, once scan_disk has left it without an error, to at most
\* twice the overlap from its end.
SweptFromOrigin ==
    /\ OnDevice => origin[dev]..(Cursor - 1) \subseteq swept[dev]
    /\ \A d \in Devices \ Faulty :
        pc = "exit" => origin[d]..(DevLen[d] - 2 * Overlap - 1) \subseteq swept[d]

SameScan(c) == c.dev = dev /\ c.run = kills

\* A skip range in force was claimed by this scan of this device: none is left over
\* from another device, where the same offsets hold other data.
NoStaleRange ==
    OnDevice => \A i \in DOMAIN ranges :
        Used(ranges[i]) => \E c \in claimed : /\ SameScan(c)
                                              /\ ranges[i] = [begin |-> c.begin, end |-> c.end]

\* Where the scan will next look: ranges that end before it are of no more use.
Frontier == IF pc = "read" THEN Cursor ELSE IF pc = "return" THEN WindowEnd ELSE fpos

\* A claim the scan has not passed stays in force: reusing slots and dropping passed
\* ranges, in whatever order, never loses one that still has bytes ahead.
LiveClaimsKept ==
    OnDevice => \A c \in claimed :
        SameScan(c) /\ c.end > Frontier =>
            \E i \in DOMAIN ranges : ranges[i] = [begin |-> c.begin, end |-> c.end]

\* No recipe is tried on a candidate strictly inside a file already extracted by this
\* scan of the device.
NoClaimReentered ==
    [][pc = "scan" /\ pc' = "recipes" =>
        \A c \in claimed : SameScan(c) => ~(c.begin < fpos + p' /\ fpos + p' < c.end)]_vars

\* Its recipes were tried, or it lies inside an extracted file.
Settled(d, s, x) ==
    \/ <<d, s, x>> \in tested
    \/ \E c \in claimed : c.dev = d /\ c.begin < x /\ x < c.end

WindowSettled ==
    \A s \in Scanners : \A x \in disk[dev][s] :
        x \in Cursor..(WindowEnd - Offset[s] - 1) => Settled(dev, s, x)

\* When scan_disk moves on, every candidate whose start is in the window it leaves is
\* settled, except that the search of a scanner with an offset may stop as many start
\* positions before the end of the window.
OnlyTheMarginIsBlind == [][pc = "return" /\ pc' = "read" => WindowSettled]_vars

\* Every candidate among the start positions passed is settled, whatever its scanner:
\* "As long as the file data is there, it will find it" (README.md).
EveryCandidateSettled ==
    \A d \in Devices, s \in Scanners :
        \A x \in disk[d][s] \cap swept[d] : Settled(d, s, x)

\* The start positions of a device that are not in its tail, from o on.
Body(d, o) == o..(DevLen[d] - 2 * Overlap - 1)

\* Resuming from the reported offset loses little: when the program has ended, the
\* start positions of the first device that were not passed are at most the overlap
\* for each time it was killed.  (The window starts so much before the offset that
\* is reported.  A later device may lose more, see ResumeLosesNothing.)
ResumeLosesLittle ==
    pc = "exit" /\ 1 \notin Faulty =>
        \E o \in Starts : Cardinality(Body(1, o) \ swept[1]) <= kills * Overlap

\* "Use the -O option to resume from this offset later" (src/magicrescue.c): when the
\* program was stopped, resumed so, and has ended, it has passed every start position
\* of each device, of the first one from the offset that was asked for.
ResumeLosesNothing ==
    pc = "exit" => \A d \in Devices \ Faulty :
        \E o \in (IF d = 1 THEN Starts ELSE {0}) : Body(d, o) \subseteq swept[d]

\* Recipes do not match on overlapping byte ranges: two files claimed by one scan of a
\* device share no byte.
ClaimsDisjoint ==
    \A c, e \in claimed :
        c # e /\ c.dev = e.dev /\ c.run = e.run => c.end <= e.begin \/ e.end <= c.begin

\* If the commands it runs end, so does the program: no candidate, range or device
\* is worked on for ever.
Terminates == <>[]~Running

\* The scan implements the sweep of module Sweep for the scanners without an offset.
Prompt == {s \in Scanners : Offset[s] = 0}
AbstractCandidates == [d \in Devices |-> UNION {{<<s, x>> : x \in disk[d][s]} : s \in Prompt}]
AbstractSettled ==
    [d \in Devices |-> {c \in AbstractCandidates[d] : Settled(d, c[1], c[2])}]
AbstractAt == IF OnDevice THEN dev ELSE 0
AbstractCursor == IF OnDevice THEN Cursor ELSE 0

Abstract == INSTANCE Sweep WITH
    Margin <- 2 * Overlap, candidates <- AbstractCandidates, settled <- AbstractSettled,
    at <- AbstractAt, cursor <- AbstractCursor, interrupts <- kills

\* Every step of the scanning loop is a step of the sweep or leaves it unchanged.
ImplementsSweep == Abstract!Spec

=============================================================================
