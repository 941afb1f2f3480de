-------------------------- MODULE ScanDisk_proofs --------------------------
(***************************************************************************)
(* Proofs about module ScanDisk, for any devices, buffer, scanners and     *)
(* recipes: the variables keep their types (TypeCorrect), the buffer shows *)
(* scan_buf the device in order (BufferIsCoherent), and no start position  *)
(* is skipped between the offset a scan begins at and the tail of a sound  *)
(* device (NothingIsSkipped).  Each invariant rests on the ones before it. *)
(***************************************************************************)
EXTENDS ScanDisk, SequenceTheorems, TLAPS

(***************************************************************************)
(* Types.  What scan_disk and scan_buf rely on beyond them: the block fits *)
(* in the buffer, is longer than the overlap, and what the cuts leave of   *)
(* it is the window.                                                       *)
(***************************************************************************)

InBlock == pc \in {"ranges", "scan", "recipes", "return"}

BlockInBuffer ==
    /\ got > Overlap
    /\ Kept + got <= BufSize
    /\ base + len + Overlap = Kept + got
    /\ fpos = Cursor + base

TypeInv ==
    /\ TypeOK
    /\ OnDevice => dev \in Devices /\ Cursor >= 0
    /\ InBlock => BlockInBuffer
    /\ pc = "scan" /\ sc \in Scanners => p >= Offset[sc]
    /\ pc = "recipes" => sc \in Scanners
\* What the assumptions on the constants say of the numbers in them.
LEMMA ConstantTypes ==
    /\ BufSize \in Nat /\ Overlap \in Nat /\ MinRead \in Nat
    /\ Len(DevLen) \in Nat /\ \A d \in Devices : DevLen[d] \in Nat
    /\ \A s \in Scanners : Offset[s] \in Nat /\ Offset[s] <= Overlap
  BY DevicesAssumption, BufferAssumption, ScannersAssumption DEF Devices, Scanners

\* A quotient times its divisor is the largest multiple not above the dividend.
LEMMA DivisionBounds ==
    ASSUME NEW a \in Nat, NEW t \in Nat \ {0}
    PROVE  t * (a \div t) \in Nat /\ t * (a \div t) <= a /\ a < t * (a \div t) + t
  OBVIOUS

\* What read returns fits in the buffer and exists on the device.
LEMMA ReadSizeBounds ==
    ASSUME TypeInv, pc = "read", NEW n \in ReadSizes
    PROVE  /\ n \in Nat
           /\ n > 0 => n <= BufSize - Kept /\ fdpos + n <= DevLen[dev]
           /\ n < MinRead => n = BufSize - Kept \/ fdpos + n >= DevLen[dev]
  <1> DevLen[dev] \in Nat /\ fdpos \in Nat /\ Kept \in Nat
    BY ConstantTypes DEF TypeInv, TypeOK, FileTypes, OnDevice, Kept
  <1> QED
    BY ConstantTypes DEF ReadSizes, Least

\* The memcpy reads cells of the buffer only, whichever order it copies in.
LEMMA CopySource ==
    ASSUME TypeInv, pc = "return", NEW c \in Cells, c < Overlap
    PROVE  /\ TailAt \in Nat \ {0}
           /\ c + TailAt \in Cells
           /\ c + TailAt * ((Overlap - 1 - c) \div TailAt + 1) \in Cells
  <1>1. /\ got \in Nat /\ Kept \in Nat /\ got > Overlap /\ Kept + got <= BufSize
        /\ BufSize \in Nat /\ Overlap \in Nat
    BY ConstantTypes DEF TypeInv, TypeOK, FileTypes, InBlock, BlockInBuffer, Kept
  <1>2. TailAt \in Nat \ {0} /\ TailAt + Overlap <= BufSize
    BY <1>1 DEF TailAt
  <1>3. c \in Nat /\ Overlap - 1 - c \in Nat
    BY <1>1 DEF Cells
  <1> DEFINE q == (Overlap - 1 - c) \div TailAt
  <1>4. TailAt * q \in Nat /\ TailAt * q <= Overlap - 1 - c
    BY <1>2, <1>3, DivisionBounds
  <1>5. q \in Int
    BY <1>2, <1>3
  <1>6. TailAt * (q + 1) = TailAt * q + TailAt
    BY <1>2, <1>5
  <1> HIDE DEF q
  <1>7. c + TailAt * (q + 1) \in Cells
    BY <1>1, <1>2, <1>3, <1>4, <1>6 DEF Cells
  <1> QED
    BY <1>1, <1>2, <1>3, <1>7 DEF Cells, q

\* The program starts in a state of the invariant.
LEMMA TypeInvInit == Init => TypeInv
  <1> SUFFICES ASSUME Init PROVE TypeInv
    OBVIOUS
  <1>0. WindowTypes
    <2>1. changed \in BOOLEAN
      BY Zenon DEF Init
    <2> QED
      BY <2>1 DEF Init, WindowTypes
  <1>1. ControlTypes
    BY ConstantTypes, OutcomesAssumption DEF Init, ControlTypes
  <1>2. FileTypes
    BY ScannersAssumption DEF Init, FileTypes, NoByte
  <1>3. RangeTypes
    BY DEF Init, RangeTypes
  <1>4. HistoryTypes
    BY DEF Init, HistoryTypes
  <1> QED
    BY <1>0, <1>1, <1>2, <1>3, <1>4 DEF Init, TypeInv, TypeOK, OnDevice, InBlock

\* An element of skip_ranges is a range.
LEMMA RangeElement ==
    ASSUME RangeTypes, NEW i \in DOMAIN ranges
    PROVE  ranges[i] \in [begin : Int, end : Nat]
  BY ElementOfSeq, LenProperties DEF RangeTypes

\* Resetting every range at the end of a device keeps them ranges.
LEMMA ResetType == RangeTypes => AllUnused(ranges) \in Seq([begin : Int, end : Nat])
  <1> SUFFICES ASSUME RangeTypes PROVE AllUnused(ranges) \in Seq([begin : Int, end : Nat])
    OBVIOUS
  <1>1. \A i \in DOMAIN ranges : [ranges[i] EXCEPT !.begin = -1] \in [begin : Int, end : Nat]
    BY RangeElement
  <1> QED
    BY <1>1 DEF AllUnused, RangeTypes

\* Marking a passed range unused keeps it a range.
LEMMA DropType ==
    ASSUME RangeTypes, NEW i \in DOMAIN ranges
    PROVE  [ranges EXCEPT ![i].begin = -1] \in Seq([begin : Int, end : Nat])
  <1>1. [ranges[i] EXCEPT !.begin = -1] \in [begin : Int, end : Nat]
    BY RangeElement
  <1> QED
    BY <1>1 DEF RangeTypes

\* Reusing a slot and adding one both keep skip_ranges an array of ranges.
LEMMA PutType ==
    ASSUME RangeTypes, NEW r \in [begin : Int, end : Nat], PutRange(r)
    PROVE  RangeTypes'
  <1>1. CASE ranges' = Append(ranges, r)
    BY <1>1 DEF RangeTypes
  <1>2. ASSUME NEW i \in DOMAIN ranges, ranges' = [ranges EXCEPT ![i] = r]
        PROVE  RangeTypes'
    BY <1>2, ExceptSeq DEF RangeTypes
  <1> QED
    BY <1>1, <1>2 DEF PutRange, FreeSlots

\* A scanner only returns starts in the window.
LEMMA HitBounds ==
    ASSUME TypeInv, pc = "scan", sc \in Scanners, NEW h \in Hits
    PROVE  h \in Nat /\ h < len
  <1> p \in Nat /\ len \in Nat /\ p >= Offset[sc] /\ Offset[sc] \in Nat
    BY ConstantTypes DEF TypeInv, TypeOK, WindowTypes
  <1> QED
    BY DEF Hits

\* Every step keeps the invariant.
LEMMA TypeInvStep == TypeInv /\ [Next]_vars => TypeInv'
<1> SUFFICES ASSUME TypeInv, [Next]_vars PROVE TypeInv'
  OBVIOUS
<1> USE DEF mainVars, progressVars, fileVars, windowVars, loopVars, history
<1>1. CASE OpenDevice
  <2>1. ControlTypes'
    BY <1>1 DEF OpenDevice, TypeInv, TypeOK, ControlTypes, Devices
  <2>2. FileTypes'
    <3>1. [c \in Cells |-> NoByte] \in [Cells -> Int]
      BY DEF NoByte
    <3> QED
      BY <1>1, <3>1 DEF OpenDevice, TypeInv, TypeOK, ControlTypes, FileTypes
  <2>3. WindowTypes' /\ RangeTypes'
    BY <1>1 DEF OpenDevice, TypeInv, TypeOK, WindowTypes, RangeTypes
  <2>4. HistoryTypes'
    BY <1>1 DEF OpenDevice, TypeInv, TypeOK, ControlTypes, HistoryTypes
  <2> QED
    BY <1>1, <2>1, <2>2, <2>3, <2>4
    DEF OpenDevice, TypeInv, TypeOK, FileTypes, OnDevice, InBlock, Cursor, Kept
<1>2. CASE OpenFails
  <2>1. ControlTypes'
    BY <1>2 DEF OpenFails, TypeInv, TypeOK, ControlTypes, LeaveDevice
  <2>2. FileTypes' /\ WindowTypes' /\ RangeTypes' /\ HistoryTypes'
    BY <1>2 DEF OpenFails, TypeInv, TypeOK, FileTypes, WindowTypes, RangeTypes, HistoryTypes
  <2> QED
    BY <1>2, <2>1, <2>2 DEF OpenFails, TypeInv, TypeOK, LeaveDevice, OnDevice, InBlock
<1>3. CASE AllDevicesDone
  <2>1. ControlTypes'
    BY <1>3 DEF AllDevicesDone, TypeInv, TypeOK, ControlTypes, LeaveDevice
  <2>2. FileTypes' /\ WindowTypes' /\ RangeTypes' /\ HistoryTypes'
    BY <1>3 DEF AllDevicesDone, TypeInv, TypeOK, FileTypes, WindowTypes, RangeTypes, HistoryTypes
  <2> QED
    BY <1>3, <2>1, <2>2 DEF AllDevicesDone, TypeInv, TypeOK, LeaveDevice, OnDevice, InBlock
<1>4. CASE ReadBlock
  <2>0. PICK n \in ReadSizes :
          /\ ~(n <= Overlap)
          /\ got' = n
          /\ fdpos' = fdpos + n
          /\ buf' = [c \in Cells |-> IF c >= Kept /\ c < Kept + n THEN fdpos + c - Kept
                                     ELSE buf[c]]
          /\ len' = n + Kept - Overlap
    BY <1>4 DEF ReadBlock, EndsInput
  <2>1. /\ n \in Nat /\ n > 0 /\ Kept + n <= BufSize
        /\ Kept \in Nat /\ fdpos \in Nat /\ obr \in Nat /\ obr - Kept >= 0
    <3>1. pc = "read"
      BY <1>4 DEF ReadBlock
    <3>2. n \in Nat /\ (n > 0 => n <= BufSize - Kept)
      BY <3>1, ReadSizeBounds
    <3>3. Kept \in Nat
      BY ConstantTypes DEF Kept
    <3>4. fdpos \in Nat /\ obr \in Nat /\ obr - Kept >= 0
      BY <3>1 DEF TypeInv, TypeOK, FileTypes, OnDevice, Cursor
    <3>5. n > 0
      BY <2>0, <3>2, ConstantTypes
    <3> QED
      BY <3>2, <3>3, <3>4, <3>5, ConstantTypes
  <2>2. ControlTypes'
    BY <1>4 DEF ReadBlock, Reported, TypeInv, TypeOK, ControlTypes, FileTypes
  <2>3. FileTypes'
    <3>1. buf' \in [Cells -> Int]
      BY <2>0, <2>1 DEF TypeInv, TypeOK, FileTypes, Cells
    <3> QED
      BY <1>4, <2>0, <2>1, <3>1 DEF ReadBlock, TypeInv, TypeOK, FileTypes
  <2>4. WindowTypes'
    <3>1. changed' \in BOOLEAN
      BY <1>4, Zenon DEF ReadBlock
    <3>2. len' \in Nat /\ fpos' \in Nat
      BY <1>4, <2>0, <2>1, ConstantTypes DEF ReadBlock
    <3> QED
      BY <1>4, <3>1, <3>2 DEF ReadBlock, TypeInv, TypeOK, WindowTypes
  <2>5. RangeTypes' /\ HistoryTypes'
    BY <1>4 DEF ReadBlock, TypeInv, TypeOK, RangeTypes, HistoryTypes
  <2>6. Kept' = Kept
    BY <1>4 DEF ReadBlock, Kept
  <2>7. BlockInBuffer'
    BY <1>4, <2>0, <2>1, <2>6, ConstantTypes DEF ReadBlock, BlockInBuffer, Cursor
  <2> QED
    BY <1>4, <2>1, <2>2, <2>3, <2>4, <2>5, <2>6, <2>7
    DEF ReadBlock, TypeInv, TypeOK, OnDevice, Cursor
<1>5. CASE EndOfInput
  <2>1. ControlTypes'
    BY <1>5 DEF EndOfInput, TypeInv, TypeOK, ControlTypes, LeaveDevice
  <2>2. FileTypes' /\ WindowTypes' /\ HistoryTypes'
    BY <1>5 DEF EndOfInput, TypeInv, TypeOK, FileTypes, WindowTypes, HistoryTypes
  <2>3. RangeTypes'
    BY <1>5, ResetType DEF EndOfInput, TypeInv, TypeOK, RangeTypes
  <2> QED
    BY <1>5, <2>1, <2>2, <2>3 DEF EndOfInput, TypeInv, TypeOK, LeaveDevice, OnDevice, InBlock
<1>6. CASE ReturnFromScan
  <2>1. /\ pc = "return" /\ obr \in Nat /\ got \in Nat /\ Kept \in Nat
        /\ obr - Kept >= 0 /\ got > Overlap /\ dev \in Devices
    BY <1>6, ConstantTypes
    DEF ReturnFromScan, TypeInv, TypeOK, FileTypes, OnDevice, InBlock, BlockInBuffer,
        Cursor, Kept
  <2>2. ControlTypes' /\ WindowTypes' /\ RangeTypes'
    BY <1>6 DEF ReturnFromScan, TypeInv, TypeOK, ControlTypes, WindowTypes, RangeTypes
  <2>3. CopiedForward \in [Cells -> Int] /\ CopiedBackward \in [Cells -> Int]
    BY <2>1, CopySource DEF TypeInv, TypeOK, FileTypes, CopiedForward, CopiedBackward
  <2>4. FileTypes'
    <3>1. firsttime' \in BOOLEAN
      BY <1>6, Zenon DEF ReturnFromScan
    <3>2. fdpos' \in Nat
      BY <1>6, <2>1 DEF ReturnFromScan, TypeInv, TypeOK, FileTypes, SeekBack
    <3>3. buf' \in [Cells -> Int]
      BY <1>6, <2>3 DEF ReturnFromScan
    <3> QED
      BY <1>6, <2>1, <3>1, <3>2, <3>3 DEF ReturnFromScan, TypeInv, TypeOK, FileTypes
  <2>5. HistoryTypes'
    <3>1. (obr - Kept)..(obr + got - Overlap - 1) \subseteq Nat
      BY <2>1, ConstantTypes
    <3> QED
      BY <1>6, <2>1, <3>1 DEF ReturnFromScan, TypeInv, TypeOK, HistoryTypes
  <2>6. Cursor' >= 0
    BY <1>6, <2>1, ConstantTypes DEF ReturnFromScan, Cursor, Kept
  <2> QED
    BY <1>6, <2>1, <2>2, <2>4, <2>5, <2>6
    DEF ReturnFromScan, TypeInv, TypeOK, OnDevice, InBlock
<1>7. CASE LseekFails
  <2>1. ControlTypes'
    BY <1>7 DEF LseekFails, TypeInv, TypeOK, ControlTypes, LeaveDevice
  <2>2. FileTypes' /\ WindowTypes' /\ RangeTypes' /\ HistoryTypes'
    BY <1>7 DEF LseekFails, TypeInv, TypeOK, FileTypes, WindowTypes, RangeTypes, HistoryTypes
  <2> QED
    BY <1>7, <2>1, <2>2 DEF LseekFails, TypeInv, TypeOK, LeaveDevice, OnDevice, InBlock
<1>8. CASE RangePassed
  <2>1. ControlTypes' /\ FileTypes' /\ HistoryTypes'
    BY <1>8 DEF RangePassed, TypeInv, TypeOK, ControlTypes, FileTypes, HistoryTypes
  <2>2. WindowTypes'
    BY <1>8 DEF RangePassed, TypeInv, TypeOK, WindowTypes
  <2>3. RangeTypes'
    <3>1. idx \in DOMAIN ranges
      BY <1>8 DEF RangePassed, AtRange, TypeInv, TypeOK, WindowTypes, RangeTypes
    <3>2. RangeTypes
      BY DEF TypeInv, TypeOK
    <3>3. [ranges EXCEPT ![idx].begin = -1] \in Seq([begin : Int, end : Nat])
      BY <3>1, <3>2, DropType
    <3> QED
      BY <1>8, <3>3 DEF RangePassed, RangeTypes
  <2> QED
    BY <1>8, <2>1, <2>2, <2>3
    DEF RangePassed, AtRange, TypeInv, TypeOK, OnDevice, InBlock, BlockInBuffer, Cursor, Kept
<1>9. CASE RangeCoversWindow
  <2>1. TypeOK'
    <3>1. ControlTypes' /\ FileTypes'
      BY <1>9 DEF RangeCoversWindow, AtRange, TypeInv, TypeOK, ControlTypes, FileTypes
    <3>2. WindowTypes' /\ RangeTypes' /\ HistoryTypes'
      BY <1>9 DEF RangeCoversWindow, AtRange, TypeInv, TypeOK, WindowTypes, RangeTypes, HistoryTypes
    <3> QED
      BY <3>1, <3>2 DEF TypeOK
  <2> QED
    BY <1>9, <2>1
    DEF RangeCoversWindow, AtRange, TypeInv, OnDevice, InBlock, BlockInBuffer, Cursor, Kept
<1>10. CASE RangeCutsFront
  <2> DEFINE cut == ranges[idx].end - fpos
  <2>1. cut \in Nat /\ cut <= len
    <3>1. idx \in DOMAIN ranges
      BY <1>10 DEF RangeCutsFront, AtRange, TypeInv, TypeOK, WindowTypes, RangeTypes
    <3>2. ranges[idx].end \in Nat
      BY <3>1, RangeElement DEF TypeInv, TypeOK
    <3>3. ranges[idx].end > fpos /\ ~(ranges[idx].end > fpos + len)
      BY <1>10 DEF RangeCutsFront, CutsFront, CoversWindow, Passed
    <3>4. fpos \in Nat /\ len \in Nat
      BY DEF TypeInv, TypeOK, WindowTypes
    <3> QED
      BY <3>2, <3>3, <3>4
  <2>2. ControlTypes' /\ FileTypes' /\ RangeTypes' /\ HistoryTypes'
    BY <1>10 DEF RangeCutsFront, TypeInv, TypeOK, ControlTypes, FileTypes, RangeTypes, HistoryTypes
  <2>3. base' = base + cut /\ len' = len - cut /\ fpos' = fpos + cut
    BY <1>10 DEF RangeCutsFront
  <2> HIDE DEF cut
  <2>4. WindowTypes'
    BY <1>10, <2>1, <2>3 DEF RangeCutsFront, TypeInv, TypeOK, WindowTypes
  <2>5. BlockInBuffer'
    <3>1. BlockInBuffer
      BY <1>10 DEF RangeCutsFront, AtRange, TypeInv, InBlock
    <3>2. got' = got /\ obr' = obr /\ Kept' = Kept
      BY <1>10 DEF RangeCutsFront, Kept
    <3>3. base \in Nat /\ len \in Nat /\ fpos \in Nat /\ got \in Nat /\ obr \in Nat
          /\ Kept \in Nat /\ Overlap \in Nat
      BY ConstantTypes DEF TypeInv, TypeOK, FileTypes, WindowTypes, Kept
    <3> QED
      BY <2>1, <2>3, <3>1, <3>2, <3>3 DEF BlockInBuffer, Cursor
  <2>6. TypeOK'
    BY <2>2, <2>4 DEF TypeOK
  <2>7. Cursor' = Cursor /\ dev' = dev /\ pc' = pc /\ pc = "ranges"
    BY <1>10 DEF RangeCutsFront, AtRange, Cursor, Kept
  <2>8. dev \in Devices /\ Cursor >= 0
    BY <2>7 DEF TypeInv, OnDevice
  <2> QED
    BY <2>5, <2>6, <2>7, <2>8 DEF TypeInv
<1>11. CASE RangeLeftAlone
  <2>1. TypeOK'
    <3>1. ControlTypes' /\ FileTypes'
      BY <1>11 DEF RangeLeftAlone, AtRange, TypeInv, TypeOK, ControlTypes, FileTypes
    <3>2. WindowTypes'
      BY <1>11 DEF RangeLeftAlone, TypeInv, TypeOK, WindowTypes
    <3>3. RangeTypes' /\ HistoryTypes'
      BY <1>11 DEF RangeLeftAlone, TypeInv, TypeOK, RangeTypes, HistoryTypes
    <3> QED
      BY <3>1, <3>2, <3>3 DEF TypeOK
  <2> QED
    BY <1>11, <2>1
    DEF RangeLeftAlone, AtRange, TypeInv, OnDevice, InBlock, BlockInBuffer, Cursor, Kept
<1>12. CASE StartScanning
  <2>1. ControlTypes' /\ FileTypes' /\ RangeTypes' /\ HistoryTypes'
    BY <1>12 DEF StartScanning, TypeInv, TypeOK, ControlTypes, FileTypes, RangeTypes, HistoryTypes
  <2>2. WindowTypes' /\ (sc' \in Scanners => p' >= Offset[sc'])
    BY <1>12, ConstantTypes DEF StartScanning, ToScanner, TypeInv, TypeOK, WindowTypes
  <2> QED
    BY <1>12, <2>1, <2>2
    DEF StartScanning, TypeInv, TypeOK, OnDevice, InBlock, BlockInBuffer, Cursor, Kept
<1>13. CASE NextScanner
  <2>1. ControlTypes' /\ FileTypes' /\ RangeTypes' /\ HistoryTypes'
    BY <1>13 DEF NextScanner, TypeInv, TypeOK, ControlTypes, FileTypes, RangeTypes, HistoryTypes
  <2>2. WindowTypes' /\ (sc' \in Scanners => p' >= Offset[sc'])
    BY <1>13, ConstantTypes DEF NextScanner, ToScanner, TypeInv, TypeOK, WindowTypes
  <2> QED
    BY <1>13, <2>1, <2>2
    DEF NextScanner, TypeInv, TypeOK, OnDevice, InBlock, BlockInBuffer, Cursor, Kept
<1>14. CASE ScannersDone
  <2>1. TypeOK'
    BY <1>14 DEF ScannersDone, TypeInv, TypeOK, ControlTypes, FileTypes, WindowTypes,
             RangeTypes, HistoryTypes
  <2> QED
    BY <1>14, <2>1
    DEF ScannersDone, TypeInv, OnDevice, InBlock, BlockInBuffer, Cursor, Kept
<1>15. CASE SkipCandidate
  <2>1. PICK h \in Hits : KeepScanning(h)
    BY <1>15 DEF SkipCandidate
  <2>2. h \in Nat /\ sc \in Scanners
    BY <1>15, HitBounds DEF SkipCandidate
  <2>3. ControlTypes' /\ FileTypes' /\ RangeTypes' /\ HistoryTypes'
    BY <1>15 DEF SkipCandidate, TypeInv, TypeOK, ControlTypes, FileTypes, RangeTypes, HistoryTypes
  <2>4. p' \in Nat /\ p' >= Offset[sc]
    BY <2>1, <2>2, ConstantTypes DEF KeepScanning
  <2>5. WindowTypes'
    BY <1>15, <2>4 DEF SkipCandidate, TypeInv, TypeOK, WindowTypes
  <2> QED
    BY <1>15, <2>3, <2>4, <2>5
    DEF SkipCandidate, TypeInv, TypeOK, OnDevice, InBlock, BlockInBuffer, Cursor, Kept
<1>16. CASE FindCandidate
  <2>1. PICK h \in Hits : p' = h /\ tested' = tested \cup {<<dev, sc, fpos + h>>}
    BY <1>16 DEF FindCandidate
  <2>2. h \in Nat /\ sc \in Scanners /\ dev \in Devices
    BY <1>16, HitBounds DEF FindCandidate, TypeInv, OnDevice
  <2>3. ControlTypes' /\ FileTypes' /\ RangeTypes'
    BY <1>16 DEF FindCandidate, TypeInv, TypeOK, ControlTypes, FileTypes, RangeTypes
  <2>4. WindowTypes'
    BY <1>16, <2>1, <2>2 DEF FindCandidate, TypeInv, TypeOK, WindowTypes
  <2>5. HistoryTypes'
    BY <1>16, <2>1, <2>2 DEF FindCandidate, TypeInv, TypeOK, WindowTypes, HistoryTypes
  <2> QED
    BY <1>16, <2>2, <2>3, <2>4, <2>5
    DEF FindCandidate, TypeInv, TypeOK, OnDevice, InBlock, BlockInBuffer, Cursor, Kept
<1>17. CASE RecipesDone
  <2>1. ControlTypes' /\ FileTypes' /\ RangeTypes' /\ HistoryTypes'
    BY <1>17 DEF RecipesDone, TypeInv, TypeOK, ControlTypes, FileTypes, RangeTypes, HistoryTypes
  <2>2. p' \in Nat /\ p' >= Offset[sc]
    BY <1>17, ConstantTypes DEF RecipesDone, KeepScanning, TypeInv, TypeOK, WindowTypes
  <2>3. WindowTypes'
    BY <1>17, <2>2 DEF RecipesDone, TypeInv, TypeOK, WindowTypes
  <2> QED
    BY <1>17, <2>1, <2>2, <2>3
    DEF RecipesDone, TypeInv, TypeOK, OnDevice, InBlock, BlockInBuffer, Cursor, Kept
<1>18. CASE RecipeFails
  <2>1. ControlTypes' /\ FileTypes' /\ RangeTypes' /\ HistoryTypes'
    BY <1>18 DEF RecipeFails, TypeInv, TypeOK, ControlTypes, FileTypes, RangeTypes, HistoryTypes
  <2>2. WindowTypes'
    BY <1>18 DEF RecipeFails, TypeInv, TypeOK, WindowTypes
  <2> QED
    BY <1>18, <2>1, <2>2
    DEF RecipeFails, AtRecipe, TypeInv, TypeOK, OnDevice, InBlock, BlockInBuffer, Cursor, Kept
<1>19. CASE ExtractOutput
  <2>1. PICK size \in OutSizes :
          \/ /\ Claims(AllowOverlap[sc][idx], size)
             /\ PutRange([begin |-> fpos + p, end |-> fpos + p + size - AllowOverlap[sc][idx]])
             /\ claimed' = claimed \cup
                   {[dev |-> dev, run |-> kills, begin |-> fpos + p,
                     end |-> fpos + p + size - AllowOverlap[sc][idx]]}
             /\ pc' = "scan" /\ KeepScanning(p) /\ idx' = idx
          \/ idx' = idx + 1 /\ UNCHANGED <<pc, p, ranges, claimed>>
    BY <1>19 DEF ExtractOutput
  <2>2. /\ sc \in Scanners /\ AllowOverlap[sc][idx] \in Int /\ size \in Nat
        /\ pc = "recipes" /\ fpos \in Nat /\ p \in Nat /\ dev \in Devices /\ kills \in Nat
    BY <1>19, <2>1, ScannersAssumption, OutcomesAssumption
    DEF ExtractOutput, AtRecipe, TypeInv, TypeOK, ControlTypes, WindowTypes, OnDevice
  <2> DEFINE end == fpos + p + size - AllowOverlap[sc][idx]
  <2>3. Claims(AllowOverlap[sc][idx], size) => end \in Nat
    BY <2>2 DEF Claims
  <2> HIDE DEF end
  <2>4. ControlTypes'
    BY <1>19, <2>1 DEF ExtractOutput, TypeInv, TypeOK, ControlTypes
  <2>5. FileTypes'
    BY <1>19, OutcomesAssumption DEF ExtractOutput, TypeInv, TypeOK, FileTypes
  <2>6. pc' = "scan" => p' \in Nat /\ p' >= Offset[sc]
    BY <2>1, <2>2, ConstantTypes DEF KeepScanning
  <2>7. WindowTypes'
    BY <1>19, <2>1, <2>2, <2>6 DEF ExtractOutput, TypeInv, TypeOK, WindowTypes
  <2>8. RangeTypes'
    BY <2>1, <2>2, <2>3, PutType DEF end, TypeInv, TypeOK, RangeTypes
  <2>9. HistoryTypes'
    BY <1>19, <2>1, <2>2, <2>3 DEF end, ExtractOutput, TypeInv, TypeOK, HistoryTypes
  <2> QED
    BY <1>19, <2>1, <2>2, <2>4, <2>5, <2>6, <2>7, <2>8, <2>9
    DEF ExtractOutput, TypeInv, TypeOK, OnDevice, InBlock, BlockInBuffer, Cursor, Kept
<1>20. CASE ExtractFails
  <2>1. ControlTypes'
    BY <1>20 DEF ExtractFails, TypeInv, TypeOK, ControlTypes, LeaveDevice
  <2>2. FileTypes' /\ WindowTypes' /\ RangeTypes' /\ HistoryTypes'
    BY <1>20 DEF ExtractFails, TypeInv, TypeOK, FileTypes, WindowTypes, RangeTypes, HistoryTypes
  <2> QED
    BY <1>20, <2>1, <2>2 DEF ExtractFails, TypeInv, TypeOK, LeaveDevice, OnDevice, InBlock
<1>21. CASE Kill
  <2>1. ControlTypes'
    BY <1>21 DEF Kill, TypeInv, TypeOK, ControlTypes, LeaveDevice
  <2>2. FileTypes' /\ WindowTypes' /\ RangeTypes' /\ HistoryTypes'
    BY <1>21 DEF Kill, TypeInv, TypeOK, FileTypes, WindowTypes, RangeTypes, HistoryTypes
  <2> QED
    BY <1>21, <2>1, <2>2 DEF Kill, TypeInv, TypeOK, LeaveDevice, OnDevice, InBlock
<1>22. CASE Resume
  <2>1. ControlTypes'
    BY <1>22, ConstantTypes DEF Resume, TypeInv, TypeOK, ControlTypes
  <2>2. FileTypes'
    <3>1. [c \in Cells |-> NoByte] \in [Cells -> Int]
      BY DEF NoByte
    <3> QED
      BY <1>22, <3>1 DEF Resume, TypeInv, TypeOK, FileTypes
  <2>3. WindowTypes' /\ RangeTypes'
    <3>1. changed' \in BOOLEAN
      BY <1>22, Zenon DEF Resume
    <3> QED
      BY <1>22, <3>1 DEF Resume, WindowTypes, RangeTypes
  <2>4. HistoryTypes'
    BY <1>22 DEF Resume, TypeInv, TypeOK, HistoryTypes
  <2> QED
    BY <1>22, <2>1, <2>2, <2>3, <2>4 DEF Resume, TypeInv, TypeOK, OnDevice, InBlock
<1>23. CASE Resting \/ UNCHANGED vars
  <2>1. UNCHANGED vars
    BY <1>23 DEF Resting
  <2>2. TypeOK'
    BY <2>1 DEF vars, TypeInv, TypeOK, ControlTypes, FileTypes, WindowTypes, RangeTypes,
                HistoryTypes
  <2> QED
    BY <2>1, <2>2 DEF vars, TypeInv, OnDevice, Cursor, Kept, InBlock, BlockInBuffer
<1> QED
  BY <1>1, <1>2, <1>3, <1>4, <1>5, <1>6, <1>7, <1>8, <1>9, <1>10, <1>11, <1>12,
     <1>13, <1>14, <1>15, <1>16, <1>17, <1>18, <1>19, <1>20, <1>21, <1>22, <1>23
  DEF Next, Step

\* Every variable keeps its type: in particular the window is never of negative length
\* and the reported position never before the device, whatever the skip ranges cut.
THEOREM TypeCorrect == Spec => []TypeOK
<1>1. Spec => []TypeInv
  BY TypeInvInit, TypeInvStep, PTL DEF Spec
<1> QED
  BY <1>1, PTL DEF TypeInv

(***************************************************************************)
(* The buffer.  Between reads the tail of the last block is in front and   *)
(* the file position is behind it; otherwise no further block is read.     *)
(* While a block is scanned, the cells from the window on hold the device  *)
(* in order.                                                               *)
(***************************************************************************)

TailInPlace == \A c \in 0..Overlap-1 : buf[c] = obr - Overlap + c
NoMoreBlocks == BufSize <= 2 * Overlap \/ obr >= DevLen[dev]
BlockInPlace == \A c \in base..(Kept + got - 1) : buf[c] = Cursor + c

CoherenceInv ==
    /\ pc = "read" => fdpos = obr
    /\ pc = "read" /\ ~firsttime => TailInPlace \/ NoMoreBlocks
    /\ InBlock /\ ~changed => fdpos = obr + got
    /\ InBlock => BlockInPlace
    /\ InBlock /\ got < 2 * Overlap => got = BufSize - Kept \/ obr + got >= DevLen[dev]

\* No block has been read yet.
LEMMA CoherenceInit == Init => CoherenceInv
  BY DEF Init, CoherenceInv, InBlock

\* read puts the block behind the kept tail.
LEMMA CoherenceRead ==
    ASSUME FullReads, TypeInv, CoherenceInv, ReadBlock
    PROVE  CoherenceInv'
  <1>0. PICK n \in ReadSizes :
          /\ ~(n <= Overlap)
          /\ got' = n
          /\ fdpos' = fdpos + n
          /\ buf' = [c \in Cells |-> IF c >= Kept /\ c < Kept + n THEN fdpos + c - Kept
                                     ELSE buf[c]]
    BY DEF ReadBlock, EndsInput
  <1>1. /\ pc = "read" /\ pc' = "ranges" /\ base' = 0 /\ Kept' = Kept /\ Cursor' = Cursor
        /\ obr' = obr /\ dev' = dev /\ fdpos = obr
    BY DEF ReadBlock, Kept, Cursor, CoherenceInv, mainVars
  <1>2. /\ n \in Nat /\ (n > 0 => n <= BufSize - Kept /\ fdpos + n <= DevLen[dev])
        /\ (n < MinRead => n = BufSize - Kept \/ fdpos + n >= DevLen[dev])
    BY <1>1, ReadSizeBounds
  <1>3. /\ Kept \in Nat /\ obr \in Nat /\ dev \in Devices /\ DevLen[dev] \in Nat
        /\ Overlap \in Nat /\ BufSize \in Nat /\ MinRead \in Nat
    BY <1>1, ConstantTypes DEF TypeInv, TypeOK, FileTypes, OnDevice, Kept
  <1>4. n > Overlap /\ n <= BufSize - Kept /\ obr + n <= DevLen[dev]
    BY <1>0, <1>1, <1>2, <1>3
  <1>5. BlockInPlace'
    <2> SUFFICES ASSUME NEW c \in 0..(Kept + n - 1) PROVE buf'[c] = Cursor + c
      BY <1>0, <1>1 DEF BlockInPlace
    <2>1. c \in Cells
      BY <1>2, <1>3, <1>4 DEF Cells
    <2>2. CASE c >= Kept
      BY <1>0, <1>1, <1>2, <1>3, <2>1, <2>2 DEF Cursor
    <2>3. CASE c < Kept
      <3>1. ~firsttime /\ Kept = Overlap
        BY <2>3 DEF Kept
      <3>2. ~NoMoreBlocks
        BY <1>2, <1>3, <1>4, <3>1 DEF NoMoreBlocks
      <3>3. buf[c] = obr - Overlap + c
        BY <1>1, <1>3, <2>3, <3>1, <3>2 DEF CoherenceInv, TailInPlace
      <3> QED
        BY <1>0, <1>3, <2>1, <2>3, <3>1, <3>3 DEF Cursor
    <2> QED
      BY <1>3, <2>2, <2>3
  <1>6. got' < 2 * Overlap => got' = BufSize - Kept \/ obr + got' >= DevLen[dev]
    BY <1>0, <1>1, <1>2, <1>3 DEF FullReads
  <1> QED
    BY <1>0, <1>1, <1>5, <1>6 DEF CoherenceInv, InBlock

\* The seek and the memcpy restore what the next read relies on: if the two areas of
\* the memcpy overlap, there is no further block.
LEMMA CoherenceReturn ==
    ASSUME TypeInv, CoherenceInv, ReturnFromScan
    PROVE  CoherenceInv'
  <1>1. /\ pc = "return" /\ pc' = "read" /\ obr' = obr + got /\ fdpos' = SeekBack
        /\ dev' = dev /\ BlockInPlace /\ BlockInBuffer
    BY DEF ReturnFromScan, mainVars, CoherenceInv, TypeInv, InBlock
  <1>2. /\ obr \in Nat /\ got \in Nat /\ Kept \in {0, Overlap} /\ base \in Nat /\ len \in Nat
        /\ Overlap \in Nat /\ BufSize \in Nat /\ dev \in Devices /\ DevLen[dev] \in Nat
    BY <1>1, ConstantTypes DEF TypeInv, TypeOK, FileTypes, WindowTypes, OnDevice, Kept
  <1>3. fdpos' = obr'
    BY <1>1 DEF CoherenceInv, InBlock, SeekBack
  <1>4. TailAt \in Nat /\ TailAt >= base /\ TailAt + Overlap = Kept + got
    BY <1>1, <1>2 DEF BlockInBuffer, TailAt
  <1>5. CASE buf' = CopiedForward
    <2>1. ASSUME NEW c \in 0..Overlap-1 PROVE buf'[c] = obr' - Overlap + c
      <3>1. c \in Cells /\ c \in Nat /\ c < Overlap
        BY <1>1, <1>2 DEF BlockInBuffer, Cells
      <3>2. c + TailAt \in base..(Kept + got - 1)
        BY <1>2, <1>4, <3>1
      <3>3. buf[c + TailAt] = Cursor + (c + TailAt)
        BY <1>1, <3>2 DEF BlockInPlace
      <3>4. buf'[c] = buf[c + TailAt]
        BY <1>5, <3>1 DEF CopiedForward
      <3> QED
        BY <1>1, <1>2, <1>4, <3>1, <3>3, <3>4 DEF Cursor
    <2> QED
      BY <1>1, <1>3, <2>1 DEF CoherenceInv, TailInPlace, InBlock
  <1>6. CASE TailAt < Overlap
    <2>1. got < 2 * Overlap /\ Kept = 0
      BY <1>1, <1>2, <1>4, <1>6 DEF BlockInBuffer
    <2>2. got = BufSize - Kept \/ obr + got >= DevLen[dev]
      BY <1>1, <2>1 DEF CoherenceInv, InBlock
    <2>3. NoMoreBlocks'
      BY <1>1, <1>2, <2>1, <2>2 DEF NoMoreBlocks
    <2> QED
      BY <1>1, <1>3, <2>3 DEF CoherenceInv, InBlock
  <1> QED
    BY <1>5, <1>6 DEF ReturnFromScan

\* Steps of scan_buf that leave the buffer and the block alone, and can only move
\* the window forward.
LEMMA CoherenceInBlock ==
    ASSUME TypeInv, CoherenceInv, InBlock, pc' # "read",
           UNCHANGED <<dev, obr, got, firsttime, buf>>,
           base' \in Nat, base' >= base,
           changed' \/ (~changed /\ fdpos' = fdpos)
    PROVE  CoherenceInv'
  <1>1. Kept' = Kept /\ Cursor' = Cursor
    BY DEF Kept, Cursor
  <1>2. Kept \in Nat /\ got \in Nat /\ base \in Nat
    BY ConstantTypes DEF TypeInv, TypeOK, FileTypes, WindowTypes, Kept
  <1>3. BlockInPlace'
    BY <1>1, <1>2 DEF CoherenceInv, BlockInPlace
  <1> QED
    BY <1>1, <1>3 DEF CoherenceInv

\* Every step keeps the buffer coherent.
LEMMA CoherenceStep ==
    ASSUME FullReads, TypeInv, TypeInv', CoherenceInv, [Next]_vars
    PROVE  CoherenceInv'
<1> USE DEF mainVars, progressVars, fileVars, windowVars, loopVars, history
<1>1. CASE OpenDevice
  BY <1>1 DEF OpenDevice, CoherenceInv, InBlock
<1>2. CASE ReadBlock
  BY <1>2, CoherenceRead
<1>3. CASE ReturnFromScan
  BY <1>3, CoherenceReturn
<1>4. CASE RangePassed
  BY <1>4, CoherenceInBlock DEF RangePassed, AtRange, InBlock, TypeInv, TypeOK, WindowTypes
<1>5. CASE RangeCoversWindow
  BY <1>5, CoherenceInBlock DEF RangeCoversWindow, AtRange, InBlock, TypeInv, TypeOK, WindowTypes
<1>6. CASE RangeCutsFront
  <2>1. base' >= base
    <3>1. idx \in DOMAIN ranges
      BY <1>6 DEF RangeCutsFront, AtRange, TypeInv, TypeOK, WindowTypes, RangeTypes
    <3>2. ranges[idx].end \in Nat /\ base \in Nat /\ fpos \in Nat
      BY <3>1, RangeElement DEF TypeInv, TypeOK, WindowTypes
    <3>3. ranges[idx].end > fpos /\ base' = base + (ranges[idx].end - fpos)
      BY <1>6 DEF RangeCutsFront, CutsFront
    <3> QED
      BY <3>2, <3>3
  <2>2. base' \in Nat
    BY DEF TypeInv, TypeOK, WindowTypes
  <2> QED
    BY <1>6, <2>1, <2>2, CoherenceInBlock DEF RangeCutsFront, AtRange, InBlock
<1>7. CASE RangeLeftAlone
  BY <1>7, CoherenceInBlock DEF RangeLeftAlone, AtRange, InBlock, TypeInv, TypeOK, WindowTypes
<1>8. CASE StartScanning
  BY <1>8, CoherenceInBlock DEF StartScanning, InBlock, TypeInv, TypeOK, WindowTypes
<1>9. CASE NextScanner
  BY <1>9, CoherenceInBlock DEF NextScanner, InBlock, TypeInv, TypeOK, WindowTypes
<1>10. CASE ScannersDone
  BY <1>10, CoherenceInBlock DEF ScannersDone, InBlock, TypeInv, TypeOK, WindowTypes
<1>11. CASE SkipCandidate
  BY <1>11, CoherenceInBlock DEF SkipCandidate, InBlock, TypeInv, TypeOK, WindowTypes
<1>12. CASE FindCandidate
  BY <1>12, CoherenceInBlock DEF FindCandidate, InBlock, TypeInv, TypeOK, WindowTypes
<1>13. CASE RecipesDone
  BY <1>13, CoherenceInBlock DEF RecipesDone, InBlock, TypeInv, TypeOK, WindowTypes
<1>14. CASE RecipeFails
  BY <1>14, CoherenceInBlock DEF RecipeFails, AtRecipe, InBlock, TypeInv, TypeOK, WindowTypes
<1>15. CASE ExtractOutput
  BY <1>15, CoherenceInBlock DEF ExtractOutput, AtRecipe, InBlock, TypeInv, TypeOK, WindowTypes
<1>16. CASE OpenFails \/ AllDevicesDone \/ EndOfInput \/ LseekFails \/ ExtractFails
             \/ Kill \/ Resume
  <2>1. pc' \in {"open", "exit", "killed"}
    BY <1>16 DEF OpenFails, AllDevicesDone, EndOfInput, LseekFails, ExtractFails, Kill, Resume,
                LeaveDevice
  <2> QED
    BY <2>1 DEF CoherenceInv, InBlock
<1>17. CASE Resting \/ UNCHANGED vars
  BY <1>17 DEF Resting, vars, CoherenceInv, InBlock, TailInPlace, NoMoreBlocks, BlockInPlace,
             Kept, Cursor
<1> QED
  BY <1>1, <1>2, <1>3, <1>4, <1>5, <1>6, <1>7, <1>8, <1>9, <1>10, <1>11, <1>12,
     <1>13, <1>14, <1>15, <1>16, <1>17
  DEF Next, Step

\* The window and the overlap behind it are the cells the invariant speaks of.
LEMMA CoherenceImplies == TypeInv /\ CoherenceInv => BufferCoherent
  <1> SUFFICES ASSUME TypeInv, CoherenceInv, InScanBuf,
                      NEW i \in 0..(len + Overlap - 1)
               PROVE  base + i \in Cells /\ buf[base + i] = fpos + i
    BY DEF BufferCoherent
  <1>1. BlockInBuffer /\ BlockInPlace
    BY DEF TypeInv, CoherenceInv, InScanBuf, InBlock
  <1>2. /\ got \in Nat /\ base \in Nat /\ len \in Nat /\ obr \in Nat /\ Kept \in Nat
        /\ Overlap \in Nat /\ BufSize \in Nat
    BY ConstantTypes DEF TypeInv, TypeOK, FileTypes, WindowTypes, Kept
  <1>3. base + i \in base..(Kept + got - 1) /\ base + i \in Cells
    BY <1>1, <1>2 DEF BlockInBuffer, Cells
  <1>4. buf[base + i] = Cursor + (base + i)
    BY <1>1, <1>3 DEF BlockInPlace
  <1> QED
    BY <1>1, <1>2, <1>3, <1>4 DEF BlockInBuffer, Cursor

\* Whenever scan_buf runs, the window and the overlap bytes behind it are the device's
\* bytes in order, for any devices, recipes, read lengths of at least two overlaps, any
\* outcome of the commands and any number of interrupts.
THEOREM BufferIsCoherent ==
    ASSUME FullReads
    PROVE  Spec => []BufferCoherent
<1>1. Init => TypeInv /\ CoherenceInv
  BY TypeInvInit, CoherenceInit
<1>2. TypeInv /\ CoherenceInv /\ [Next]_vars => TypeInv' /\ CoherenceInv'
  BY TypeInvStep, CoherenceStep
<1>3. TypeInv /\ CoherenceInv => BufferCoherent
  BY CoherenceImplies
<1> QED
  BY <1>1, <1>2, <1>3, PTL DEF Spec

(***************************************************************************)
(* The sweep.  Every block extends the positions passed on the device at   *)
(* hand; the devices before it were passed up to their tails when they     *)
(* were left, and a resumption never goes beyond the device reported.      *)
(***************************************************************************)

SweptTo(d, x) == origin[d]..(x - 1) \subseteq swept[d]

SweepInv ==
    /\ OnDevice => SweptTo(dev, Cursor)
    /\ \A d \in Devices \ Faulty : d < dev => SweptTo(d, DevLen[d] - 2 * Overlap)
    /\ pdev <= dev
    /\ pc = "exit" => dev > Len(DevLen)

\* No device has been opened yet.
LEMMA SweepInit == Init => SweepInv
  BY DEF Init, SweepInv, OnDevice, Devices

\* A read of overlap bytes or less happens within two overlaps of the end of a sound
\* device.
LEMMA SweepEndOfInput ==
    ASSUME FullReads, LargeBuffer, TypeInv, CoherenceInv, SweepInv, EndOfInput, dev \notin Faulty
    PROVE  SweptTo(dev, DevLen[dev] - 2 * Overlap)
  <1>1. pc = "read" /\ fdpos = obr /\ SweptTo(dev, Cursor)
    BY DEF EndOfInput, CoherenceInv, SweepInv, OnDevice
  <1>2. PICK n \in ReadSizes : n <= Overlap
    BY DEF EndOfInput, EndsInput
  <1>3. /\ n \in Nat
        /\ n < MinRead => n = BufSize - Kept \/ obr + n >= DevLen[dev]
    BY <1>1, ReadSizeBounds
  <1>4. /\ Kept \in {0, Overlap} /\ obr \in Nat /\ dev \in Devices /\ DevLen[dev] \in Nat
        /\ Overlap \in Nat /\ BufSize \in Nat /\ MinRead \in Nat /\ origin[dev] \in Nat
    BY <1>1, ConstantTypes DEF TypeInv, TypeOK, FileTypes, HistoryTypes, OnDevice, Kept
  <1>5. obr + n >= DevLen[dev]
    BY <1>2, <1>3, <1>4 DEF FullReads, LargeBuffer
  <1>6. DevLen[dev] - 2 * Overlap <= Cursor
    BY <1>2, <1>3, <1>4, <1>5 DEF Cursor
  <1>7. Cursor \in Int /\ DevLen[dev] - 2 * Overlap \in Int
    BY <1>4 DEF Cursor
  <1>8. origin[dev]..(DevLen[dev] - 2 * Overlap - 1) \subseteq origin[dev]..(Cursor - 1)
    BY <1>4, <1>6, <1>7
  <1> QED
    BY <1>1, <1>8 DEF SweptTo

\* Leaving the device keeps what was passed and adds it to the devices done.
LEMMA SweepLeave ==
    ASSUME TypeInv, SweepInv, LeaveDevice, UNCHANGED <<origin, swept, pdev>>,
           dev \in Devices \ Faulty => SweptTo(dev, DevLen[dev] - 2 * Overlap)
    PROVE  SweepInv'
  <1>1. dev \in Nat /\ pdev \in Nat /\ dev' = dev + 1 /\ pc' = "open"
    BY ConstantTypes DEF LeaveDevice, TypeInv, TypeOK, ControlTypes
  <1>2. ASSUME NEW d \in Devices \ Faulty, d < dev + 1
        PROVE  SweptTo(d, DevLen[d] - 2 * Overlap)'
    <2>1. d < dev \/ d = dev
      BY <1>1, <1>2 DEF Devices
    <2> QED
      BY <2>1 DEF SweepInv, SweptTo
  <1> QED
    BY <1>1, <1>2 DEF SweepInv, OnDevice

\* Opening a device starts its sweep at its first offset.
LEMMA SweepOpen ==
    ASSUME TypeInv, SweepInv, OpenDevice
    PROVE  SweepInv'
  <1>1. /\ dev \in Devices /\ dev' = dev /\ pdev' = dev /\ swept' = swept
        /\ origin' = [origin EXCEPT ![dev] = startOff] /\ pc' = "read"
        /\ obr' = startOff /\ firsttime' = TRUE
    BY DEF OpenDevice, mainVars
  <1>2. dev \in Nat /\ startOff \in Nat /\ origin \in [Devices -> Nat]
    BY DEF TypeInv, TypeOK, ControlTypes, HistoryTypes
  <1>3. Cursor' = startOff
    BY <1>1, <1>2 DEF Cursor, Kept
  <1>4. SweptTo(dev, Cursor)'
    BY <1>1, <1>2, <1>3 DEF SweptTo
  <1>5. ASSUME NEW d \in Devices \ Faulty, d < dev
        PROVE  SweptTo(d, DevLen[d] - 2 * Overlap)'
    <2>1. d # dev
      BY <1>2, <1>5 DEF Devices
    <2> QED
      BY <1>1, <1>2, <1>5, <2>1 DEF SweepInv, SweptTo
  <1> QED
    BY <1>1, <1>2, <1>4, <1>5 DEF SweepInv

\* Returning from scan_buf extends the sweep by the window, without a gap.
LEMMA SweepReturn ==
    ASSUME TypeInv, SweepInv, ReturnFromScan
    PROVE  SweepInv'
  <1> DEFINE window == (obr - Kept)..(obr + got - Overlap - 1)
  <1>1. /\ pc = "return" /\ pc' = "read" /\ dev' = dev /\ pdev' = pdev /\ origin' = origin
        /\ swept' = [swept EXCEPT ![dev] = @ \cup window]
        /\ obr' = obr + got /\ firsttime' = FALSE
    BY DEF ReturnFromScan, mainVars, progressVars
  <1>2. /\ dev \in Devices /\ obr \in Nat /\ got \in Nat /\ got > Overlap /\ Kept \in Nat
        /\ Overlap \in Nat /\ origin[dev] \in Nat /\ swept \in [Devices -> SUBSET Nat]
    BY <1>1, ConstantTypes
    DEF TypeInv, TypeOK, FileTypes, HistoryTypes, OnDevice, InBlock, BlockInBuffer, Kept
  <1>3. Cursor' = obr + got - Overlap
    <2>1. Kept' = Overlap
      BY <1>1, Zenon DEF Kept
    <2>2. obr' = obr + got
      BY <1>1
    <2> QED
      BY <1>2, <2>1, <2>2 DEF Cursor
  <1>4. SweptTo(dev, Cursor)'
    <2> HIDE DEF window
    <2> SUFFICES ASSUME NEW x \in origin[dev]..(obr + got - Overlap - 1)
                 PROVE  x \in swept'[dev]
      BY <1>1, <1>2, <1>3 DEF SweptTo
    <2>1. swept'[dev] = swept[dev] \cup window
      BY <1>1, <1>2
    <2>2. CASE x < Cursor
      BY <1>1, <1>2, <2>1, <2>2 DEF SweepInv, OnDevice, SweptTo, Cursor
    <2>3. CASE x >= Cursor
      BY <1>2, <2>1, <2>3 DEF Cursor, window
    <2> QED
      BY <1>2, <2>2, <2>3 DEF Cursor
  <1>5. ASSUME NEW d \in Devices \ Faulty, d < dev
        PROVE  SweptTo(d, DevLen[d] - 2 * Overlap)'
    BY <1>1, <1>2, <1>5 DEF SweepInv, SweptTo
  <1> QED
    BY <1>1, <1>4, <1>5 DEF SweepInv

\* Steps on a device that neither read nor pass anything.
LEMMA SweepInBlock ==
    ASSUME SweepInv, OnDevice, pc' # "exit", UNCHANGED <<dev, pdev, obr, firsttime, origin, swept>>
    PROVE  SweepInv'
  BY DEF SweepInv, SweptTo, Cursor, Kept

\* Resuming goes back to a device that was already reached.
LEMMA SweepResume ==
    ASSUME TypeInv, SweepInv, Resume
    PROVE  SweepInv'
  <1>1. /\ dev' = (IF pdev = 0 THEN 1 ELSE pdev) /\ pdev' = 0 /\ pc' = "open"
        /\ origin' = origin /\ swept' = swept
    BY DEF Resume, history
  <1>2. dev \in Nat \ {0} /\ pdev \in Nat /\ pdev <= dev
    BY ConstantTypes DEF TypeInv, TypeOK, ControlTypes, SweepInv
  <1>3. dev' \in Nat /\ dev' <= dev /\ 0 <= dev'
    BY <1>1, <1>2
  <1>4. ASSUME NEW d \in Devices \ Faulty, d < dev'
        PROVE  SweptTo(d, DevLen[d] - 2 * Overlap)'
    <2>1. d < dev
      BY <1>2, <1>3, <1>4 DEF Devices
    <2> QED
      BY <1>1, <2>1 DEF SweepInv, SweptTo
  <1> QED
    BY <1>1, <1>3, <1>4 DEF SweepInv, OnDevice

\* Every step keeps the sweep without gaps.
LEMMA SweepStep ==
    ASSUME FullReads, LargeBuffer, TypeInv, CoherenceInv, SweepInv, [Next]_vars
    PROVE  SweepInv'
<1> USE DEF mainVars, progressVars, fileVars, windowVars, loopVars, history
<1>1. CASE OpenDevice
  BY <1>1, SweepOpen
<1>2. CASE EndOfInput
  BY <1>2, SweepEndOfInput, SweepLeave DEF EndOfInput
<1>3. CASE ReturnFromScan
  BY <1>3, SweepReturn
<1>4. CASE OpenFails \/ LseekFails \/ ExtractFails
  BY <1>4, SweepLeave DEF OpenFails, LseekFails, ExtractFails
<1>5. CASE ReadBlock
  BY <1>5, SweepInBlock DEF ReadBlock, OnDevice
<1>6. CASE RangePassed \/ RangeCoversWindow \/ RangeCutsFront \/ RangeLeftAlone
  BY <1>6, SweepInBlock
  DEF RangePassed, RangeCoversWindow, RangeCutsFront, RangeLeftAlone, AtRange, OnDevice
<1>7. CASE StartScanning \/ NextScanner \/ ScannersDone \/ SkipCandidate \/ FindCandidate
  BY <1>7, SweepInBlock
  DEF StartScanning, NextScanner, ScannersDone, SkipCandidate, FindCandidate, OnDevice
<1>8. CASE RecipesDone \/ RecipeFails \/ ExtractOutput
  BY <1>8, SweepInBlock DEF RecipesDone, RecipeFails, ExtractOutput, AtRecipe, OnDevice
<1>9. CASE AllDevicesDone
  BY <1>9 DEF AllDevicesDone, SweepInv, SweptTo, OnDevice
<1>10. CASE Kill
  BY <1>10 DEF Kill, SweepInv, SweptTo, OnDevice
<1>11. CASE Resume
  BY <1>11, SweepResume
<1>12. CASE Resting \/ UNCHANGED vars
  BY <1>12 DEF Resting, vars, SweepInv, SweptTo, OnDevice, Cursor, Kept
<1> QED
  BY <1>1, <1>2, <1>3, <1>4, <1>5, <1>6, <1>7, <1>8, <1>9, <1>10, <1>11, <1>12 DEF Next, Step

\* The invariant gives the property.
LEMMA SweepImplies == TypeInv /\ SweepInv => SweptFromOrigin
  <1> SUFFICES ASSUME TypeInv, SweepInv PROVE SweptFromOrigin
    OBVIOUS
  <1>1. ASSUME NEW d \in Devices \ Faulty, pc = "exit" PROVE d < dev
    BY <1>1, ConstantTypes DEF SweepInv, Devices, TypeInv, TypeOK, ControlTypes
  <1> QED
    BY <1>1 DEF SweepInv, SweptFromOrigin, SweptTo

\* No start position between the offset a scan begins at and the tail of a sound device
\* is ever skipped, for any devices, read lengths, recipes and interrupts.
THEOREM NothingIsSkipped ==
    ASSUME FullReads, LargeBuffer
    PROVE  Spec => []SweptFromOrigin
<1>1. Init => TypeInv /\ CoherenceInv /\ SweepInv
  BY TypeInvInit, CoherenceInit, SweepInit
<1>2. TypeInv /\ CoherenceInv /\ SweepInv /\ [Next]_vars => (TypeInv /\ CoherenceInv /\ SweepInv)'
  BY TypeInvStep, CoherenceStep, SweepStep
<1>3. TypeInv /\ SweepInv => SweptFromOrigin
  BY SweepImplies
<1> QED
  BY <1>1, <1>2, <1>3, PTL DEF Spec

=============================================================================
