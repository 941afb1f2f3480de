------------------------- MODULE ScanRanges_proofs -------------------------
(***************************************************************************)
(* Proofs about the skip ranges of module ScanDisk: what a scan has        *)
(* claimed is in force until the window has passed it, nothing else is,    *)
(* and so every candidate the window passes is settled but for the margin  *)
(* a scanner with an offset leaves at its end.  With the theorems of       *)
(* ScanDisk_proofs it follows that the loop implements Sweep.              *)
(***************************************************************************)
EXTENDS ScanDisk_proofs

(***************************************************************************)
(* A claim that the scan has not passed is in force.                       *)
(***************************************************************************)

\* Claims of this run are of devices it has opened, and were made behind the end of
\* the window.
ClaimsAreOlder ==
    \A c \in claimed :
        /\ c.run <= kills
        /\ c.run = kills => pc # "killed" /\ c.dev <= dev
        /\ c.run = kills /\ pc = "open" => c.dev < dev

LiveInv == ClaimsAreOlder /\ LiveClaimsKept

LEMMA FrontierTypes ==
    ASSUME TypeInv, OnDevice
    PROVE  /\ Frontier \in Int
           /\ InScanBuf => Frontier = fpos /\ fpos + len = WindowEnd /\ fpos <= WindowEnd /\ Cursor <= fpos
           /\ obr \in Nat /\ got \in Nat /\ Kept \in Nat /\ Overlap \in Nat /\ Cursor \in Int /\ WindowEnd \in Int
  <1>1. /\ obr \in Nat /\ got \in Nat /\ Kept \in Nat /\ Overlap \in Nat
        /\ fpos \in Nat /\ base \in Nat /\ len \in Nat
    BY ConstantTypes DEF TypeInv, TypeOK, FileTypes, WindowTypes, Kept
  <1>2. Cursor \in Int /\ WindowEnd \in Int
    BY <1>1 DEF Cursor, WindowEnd
  <1>3. ASSUME InScanBuf
        PROVE  Frontier = fpos /\ fpos + len = WindowEnd /\ fpos <= WindowEnd /\ Cursor <= fpos
    <2>1. BlockInBuffer /\ Frontier = fpos
      BY <1>3 DEF InScanBuf, TypeInv, InBlock, Frontier
    <2>2. base + len + Overlap = Kept + got /\ fpos = (obr - Kept) + base
      BY <2>1 DEF BlockInBuffer, Cursor
    <2> QED
      BY <1>1, <2>1, <2>2 DEF WindowEnd, Cursor
  <1> QED
    BY <1>1, <1>2, <1>3 DEF Frontier

LEMMA FrontierTypeNext == ASSUME TypeInv', OnDevice' PROVE Frontier' \in Int
  <1>1. obr' \in Nat /\ got' \in Nat /\ fpos' \in Nat /\ Overlap \in Nat /\ Kept' \in Nat
    BY ConstantTypes DEF TypeInv, TypeOK, FileTypes, WindowTypes, Kept
  <1> QED
    BY <1>1 DEF Frontier, Cursor, WindowEnd

\* A step on a device that leaves the ranges alone and does not go back.
LEMMA LiveForward ==
    ASSUME TypeInv, TypeInv', LiveInv, OnDevice, OnDevice',
           UNCHANGED <<dev, kills, ranges, claimed>>, Frontier' >= Frontier
    PROVE  LiveInv'
  <1>1. Frontier \in Int /\ Frontier' \in Int
    BY FrontierTypes, FrontierTypeNext
  <1>2. \A c \in claimed : c.end \in Nat
    BY DEF TypeInv, TypeOK, HistoryTypes
  <1>3. ClaimsAreOlder'
    BY DEF LiveInv, ClaimsAreOlder, OnDevice
  <1>4. LiveClaimsKept'
    BY <1>1, <1>2 DEF LiveInv, LiveClaimsKept, SameScan
  <1> QED
    BY <1>3, <1>4 DEF LiveInv

LEMMA LiveOpen == ASSUME TypeInv, LiveInv, OpenDevice PROVE LiveInv'
  <1>1. \A c \in claimed : c.dev \in Nat
    BY DEF TypeInv, TypeOK, HistoryTypes, Devices
  <1> QED
    BY <1>1 DEF OpenDevice, LiveInv, ClaimsAreOlder, LiveClaimsKept, SameScan, OnDevice, mainVars, TypeInv,
                TypeOK, ControlTypes

LEMMA LiveLeave ==
    ASSUME TypeInv, LiveInv, LeaveDevice, pc # "killed", UNCHANGED <<kills, claimed>>
    PROVE  LiveInv'
  <1>1. \A c \in claimed : c.dev \in Nat
    BY DEF TypeInv, TypeOK, HistoryTypes, Devices
  <1>2. dev \in Nat /\ dev' = dev + 1 /\ pc' = "open"
    BY DEF LeaveDevice, TypeInv, TypeOK, ControlTypes
  <1> QED
    BY <1>1, <1>2 DEF LiveInv, ClaimsAreOlder, LiveClaimsKept, OnDevice

\* A range that is passed protects nothing any more.
LEMMA LivePassed ==
    ASSUME TypeInv, LiveInv, RangePassed
    PROVE  LiveInv'
  <1>1. /\ idx \in DOMAIN ranges /\ ranges[idx].end < fpos
        /\ ranges' = [ranges EXCEPT ![idx].begin = -1]
        /\ pc = "ranges" /\ pc' = pc /\ fpos' = fpos
        /\ UNCHANGED <<dev, kills, claimed>>
    <2>1. idx \in DOMAIN ranges
      BY DEF RangePassed, AtRange, TypeInv, TypeOK, WindowTypes, RangeTypes
    <2> QED
      BY <2>1 DEF RangePassed, AtRange, Passed, mainVars, windowVars, history
  <1>2. fpos \in Nat /\ ranges[idx].end \in Nat
    BY <1>1, RangeElement DEF TypeInv, TypeOK, WindowTypes
  <1>3. ClaimsAreOlder'
    BY <1>1 DEF LiveInv, ClaimsAreOlder
  <1>4. ASSUME NEW c \in claimed, SameScan(c), c.end > fpos
        PROVE  \E i \in DOMAIN ranges : ranges'[i] = [begin |-> c.begin, end |-> c.end]
    <2>1. PICK i \in DOMAIN ranges : ranges[i] = [begin |-> c.begin, end |-> c.end]
      BY <1>1, <1>4 DEF LiveInv, LiveClaimsKept, OnDevice, Frontier
    <2>2. c.end \in Nat
      BY DEF TypeInv, TypeOK, HistoryTypes
    <2>3. ranges[i].end = c.end
      BY <2>1
    <2>4. i # idx
      BY <1>1, <1>2, <1>4, <2>2, <2>3
    <2>5. ranges'[i] = ranges[i]
      BY <1>1, <2>4
    <2> QED
      BY <2>1, <2>5
  <1>5. DOMAIN ranges' = DOMAIN ranges
    BY <1>1
  <1>6. LiveClaimsKept'
    BY <1>1, <1>4, <1>5 DEF LiveClaimsKept, SameScan, Frontier
  <1> QED
    BY <1>3, <1>6 DEF LiveInv

LEMMA PutKeeps ==
    ASSUME RangeTypes, NEW r \in [begin : Nat, end : Nat], PutRange(r)
    PROVE  /\ \A i \in DOMAIN ranges : Used(ranges[i]) => i \in DOMAIN ranges' /\ ranges'[i] = ranges[i]
           /\ \E i \in DOMAIN ranges' : ranges'[i] = r
           /\ \A i \in DOMAIN ranges' : ranges'[i] = r \/ (i \in DOMAIN ranges /\ ranges'[i] = ranges[i])
  <1>0. ranges \in Seq([begin : Int, end : Nat]) /\ Len(ranges) \in Nat /\ DOMAIN ranges = 1..Len(ranges)
    BY LenProperties DEF RangeTypes
  <1>1. CASE ranges' = Append(ranges, r)
    <2> DEFINE n == Len(ranges)
    <2>1. /\ DOMAIN ranges' = 1..(n + 1) /\ ranges'[n + 1] = r
          /\ \A i \in 1..n : ranges'[i] = ranges[i]
      BY <1>0, <1>1, AppendProperties
    <2> HIDE DEF n
    <2>2. n \in Nat /\ DOMAIN ranges = 1..n
      BY <1>0 DEF n
    <2>3. n + 1 \in 1..(n + 1) /\ 1..n \subseteq 1..(n + 1) /\ \A i \in 1..(n + 1) : i = n + 1 \/ i \in 1..n
      BY <2>2
    <2> QED
      BY <2>1, <2>2, <2>3
  <1>2. ASSUME NEW i \in FreeSlots(ranges), ranges' = [ranges EXCEPT ![i] = r]
        PROVE  /\ \A k \in DOMAIN ranges : Used(ranges[k]) => k \in DOMAIN ranges' /\ ranges'[k] = ranges[k]
               /\ \E k \in DOMAIN ranges' : ranges'[k] = r
               /\ \A k \in DOMAIN ranges' : ranges'[k] = r \/ (k \in DOMAIN ranges /\ ranges'[k] = ranges[k])
    <2>1. i \in DOMAIN ranges /\ ~Used(ranges[i])
      BY <1>2 DEF FreeSlots
    <2>2. /\ DOMAIN ranges' = DOMAIN ranges /\ ranges'[i] = r
          /\ \A k \in DOMAIN ranges : k # i => ranges'[k] = ranges[k]
      BY <1>0, <1>2, <2>1
    <2> QED
      BY <2>1, <2>2
  <1> QED
    BY <1>1, <1>2 DEF PutRange

\* What ExtractOutput claims.
LEMMA ClaimFacts ==
    ASSUME TypeInv, ExtractOutput
    PROVE  /\ pc = "recipes" /\ pc' \in {"recipes", "scan"} /\ UNCHANGED <<dev, kills, fpos, len, obr, got, firsttime, base, sc>>
           /\ \/ UNCHANGED <<pc, p, ranges, claimed>>
              \/ \E r \in [begin : Nat, end : Nat] :
                    /\ r.begin = fpos + p
                    /\ PutRange(r) /\ pc' = "scan" /\ KeepScanning(p)
                    /\ claimed' = claimed \cup {[dev |-> dev, run |-> kills, begin |-> r.begin, end |-> r.end]}
  <1>1. PICK size \in OutSizes :
            LET allow == AllowOverlap[sc][idx]
                x     == fpos + p
                range == [begin |-> x, end |-> x + size - allow]
            IN  IF Claims(allow, size)
                THEN /\ PutRange(range)
                     /\ claimed' = claimed \cup
                            {[dev |-> dev, run |-> kills, begin |-> x, end |-> range.end]}
                     /\ pc' = "scan" /\ KeepScanning(p) /\ UNCHANGED idx
                ELSE idx' = idx + 1 /\ UNCHANGED <<pc, p, ranges, claimed>>
    BY DEF ExtractOutput
  <1> DEFINE allow == AllowOverlap[sc][idx]
             r == [begin |-> fpos + p, end |-> fpos + p + size - allow]
  <1>2. /\ pc = "recipes" /\ sc \in Scanners /\ idx \in DOMAIN AllowOverlap[sc]
        /\ UNCHANGED <<dev, kills, fpos, len, obr, got, firsttime, base, sc>>
    BY DEF ExtractOutput, AtRecipe, TypeInv, mainVars, windowVars
  <1>3. AllowOverlap[sc] \in Seq(Int) /\ size \in Nat /\ fpos \in Nat /\ p \in Nat
    BY <1>2, ScannersAssumption, OutcomesAssumption DEF TypeInv, TypeOK, WindowTypes
  <1>4. allow \in Int
    BY <1>2, <1>3, ElementOfSeq, LenProperties
  <1>5. CASE Claims(allow, size)
    <2>1. size > allow
      BY <1>5 DEF Claims
    <2> HIDE DEF allow
    <2>2. r \in [begin : Nat, end : Nat] /\ r.begin = fpos + p /\ r.end = fpos + p + size - allow
      BY <1>3, <1>4, <2>1
    <2> QED
      BY <1>1, <1>2, <1>5, <2>2 DEF allow
  <1>6. CASE ~Claims(allow, size)
    BY <1>1, <1>2, <1>6
  <1> QED
    BY <1>5, <1>6

LEMMA LiveExtract == ASSUME TypeInv, TypeInv', LiveInv, ExtractOutput PROVE LiveInv'
  <1>1. /\ pc = "recipes" /\ pc' \in {"recipes", "scan"}
        /\ UNCHANGED <<dev, kills, fpos>>
    BY ClaimFacts
  <1>2. CASE UNCHANGED <<pc, p, ranges, claimed>>
    BY <1>1, <1>2 DEF LiveInv, ClaimsAreOlder, LiveClaimsKept, SameScan, Frontier, OnDevice
  <1>3. ASSUME NEW r \in [begin : Nat, end : Nat], PutRange(r),
               claimed' = claimed \cup {[dev |-> dev, run |-> kills, begin |-> r.begin, end |-> r.end]}
        PROVE  LiveInv'
    <2> DEFINE new == [dev |-> dev, run |-> kills, begin |-> r.begin, end |-> r.end]
    <2>1. /\ \A i \in DOMAIN ranges : Used(ranges[i]) => i \in DOMAIN ranges' /\ ranges'[i] = ranges[i]
          /\ \E i \in DOMAIN ranges' : ranges'[i] = r
      BY <1>3, PutKeeps DEF TypeInv, TypeOK
    <2>2. r = [begin |-> r.begin, end |-> r.end]
      BY <1>3
    <2>3. ASSUME NEW c \in claimed, SameScan(c), c.end > fpos
          PROVE  \E i \in DOMAIN ranges' : ranges'[i] = [begin |-> c.begin, end |-> c.end]
      <3>1. PICK i \in DOMAIN ranges : ranges[i] = [begin |-> c.begin, end |-> c.end]
        BY <1>1, <2>3 DEF LiveInv, LiveClaimsKept, OnDevice, Frontier
      <3>2. c.begin \in Nat /\ ranges[i].begin = c.begin
        BY <3>1 DEF TypeInv, TypeOK, HistoryTypes
      <3> QED
        BY <2>1, <3>1, <3>2 DEF Used
    <2>4. LiveClaimsKept'
      <3> SUFFICES ASSUME NEW c \in claimed \cup {new}, c.dev = dev, c.run = kills, c.end > fpos
                   PROVE  \E i \in DOMAIN ranges' : ranges'[i] = [begin |-> c.begin, end |-> c.end]
        BY <1>1, <1>3 DEF LiveClaimsKept, SameScan, Frontier
      <3>1. CASE c \in claimed
        BY <2>3, <3>1 DEF SameScan
      <3>2. CASE c = new
        <4>1. c.begin = r.begin /\ c.end = r.end
          BY <3>2
        <4> QED
          BY <2>1, <2>2, <4>1
      <3> QED
        BY <3>1, <3>2
    <2>5. ClaimsAreOlder'
      <3> SUFFICES ASSUME NEW c \in claimed \cup {new} PROVE c.run <= kills /\ (c.run = kills => c.dev <= dev)
        BY <1>1, <1>3 DEF ClaimsAreOlder
      <3>1. CASE c \in claimed
        BY <3>1 DEF LiveInv, ClaimsAreOlder
      <3>2. CASE c = new
        <4>1. c.run = kills /\ c.dev = dev
          BY <3>2
        <4> QED
          BY <4>1 DEF TypeInv, TypeOK, ControlTypes
      <3> QED
        BY <3>1, <3>2
    <2> QED
      BY <2>4, <2>5 DEF LiveInv
  <1> QED
    BY <1>2, <1>3, ClaimFacts

LEMMA LiveStep == ASSUME TypeInv, TypeInv', LiveInv, [Next]_vars PROVE LiveInv'
<1> USE DEF mainVars, progressVars, fileVars, windowVars, loopVars, history
<1>1. CASE OpenDevice
  BY <1>1, LiveOpen
<1>2. CASE OpenFails \/ EndOfInput \/ LseekFails \/ ExtractFails
  BY <1>2, LiveLeave DEF OpenFails, EndOfInput, LseekFails, ExtractFails, AtRecipe
<1>3. CASE ReadBlock
  <2>1. Frontier' = Frontier
    BY <1>3 DEF ReadBlock, Frontier, Cursor, Kept
  <2> QED
    BY <1>3, <2>1, LiveForward, FrontierTypes DEF ReadBlock, OnDevice
<1>4. CASE ReturnFromScan
  <2>1. pc = "return" /\ pc' = "read" /\ obr' = obr + got /\ firsttime' = FALSE
    BY <1>4 DEF ReturnFromScan
  <2>2. Kept' = Overlap
    BY <2>1, Zenon DEF Kept
  <2>3. Frontier' = Frontier
    <3>1. obr \in Nat /\ got \in Nat /\ Overlap \in Nat
      BY <2>1, FrontierTypes DEF OnDevice
    <3> QED
      BY <2>1, <2>2, <3>1 DEF Frontier, Cursor, WindowEnd
  <2> QED
    BY <1>4, <2>3, LiveForward, FrontierTypes DEF ReturnFromScan, OnDevice
<1>5. CASE RangePassed
  BY <1>5, LivePassed
<1>6. CASE RangeCutsFront
  <2>1. fpos' >= fpos /\ fpos \in Nat
    <3>1. idx \in DOMAIN ranges
      BY <1>6 DEF RangeCutsFront, AtRange, TypeInv, TypeOK, WindowTypes, RangeTypes
    <3>2. ranges[idx].end \in Nat /\ fpos \in Nat
      BY <3>1, RangeElement DEF TypeInv, TypeOK, WindowTypes
    <3>3. ranges[idx].end > fpos /\ fpos' = fpos + (ranges[idx].end - fpos)
      BY <1>6 DEF RangeCutsFront, CutsFront
    <3> QED
      BY <3>2, <3>3
  <2>2. Frontier' >= Frontier
    BY <1>6, <2>1 DEF RangeCutsFront, AtRange, Frontier
  <2> QED
    BY <1>6, <2>2, LiveForward DEF RangeCutsFront, AtRange, OnDevice
<1>7. CASE RangeCoversWindow \/ ScannersDone
  <2>1. Frontier = fpos /\ fpos <= WindowEnd /\ pc' = "return" /\ OnDevice /\ OnDevice'
        /\ UNCHANGED <<dev, kills, ranges, claimed, obr, got>>
    BY <1>7, FrontierTypes DEF RangeCoversWindow, ScannersDone, AtRange, OnDevice, InScanBuf
  <2>2. Frontier' = WindowEnd
    BY <2>1 DEF Frontier, WindowEnd
  <2> QED
    BY <2>1, <2>2, LiveForward
<1>8. CASE RangeLeftAlone \/ StartScanning \/ NextScanner \/ SkipCandidate \/ FindCandidate
           \/ RecipesDone \/ RecipeFails
  <2>1. /\ OnDevice /\ OnDevice' /\ InScanBuf /\ pc' \in {"ranges", "scan", "recipes"}
        /\ UNCHANGED <<dev, kills, ranges, claimed, fpos>>
    BY <1>8 DEF RangeLeftAlone, StartScanning, NextScanner, SkipCandidate, FindCandidate, RecipesDone,
                RecipeFails, AtRange, AtRecipe, OnDevice, InScanBuf
  <2>2. Frontier' = Frontier /\ Frontier \in Int
    BY <2>1, FrontierTypes DEF Frontier, InScanBuf
  <2> QED
    BY <2>1, <2>2, LiveForward
<1>9. CASE ExtractOutput
  BY <1>9, LiveExtract
<1>10. CASE AllDevicesDone
  BY <1>10 DEF AllDevicesDone, LiveInv, ClaimsAreOlder, LiveClaimsKept, OnDevice
<1>11. CASE Kill
  <2>1. kills \in Nat /\ \A c \in claimed : c.run \in Nat
    BY DEF TypeInv, TypeOK, ControlTypes, HistoryTypes
  <2> QED
    BY <1>11, <2>1 DEF Kill, LiveInv, ClaimsAreOlder, LiveClaimsKept, OnDevice
<1>12. CASE Resume
  BY <1>12 DEF Resume, LiveInv, ClaimsAreOlder, LiveClaimsKept, OnDevice
<1>13. CASE Resting \/ UNCHANGED vars
  BY <1>13 DEF Resting, vars, LiveInv, ClaimsAreOlder, LiveClaimsKept, SameScan, OnDevice, Frontier, Cursor,
               WindowEnd, Kept
<1> QED
  BY <1>1, <1>2, <1>3, <1>4, <1>5, <1>6, <1>7, <1>8, <1>9, <1>10, <1>11, <1>12, <1>13 DEF Next, Step

LEMMA LiveInit == Init => LiveInv
  BY DEF Init, LiveInv, ClaimsAreOlder, LiveClaimsKept, OnDevice

\* Reusing slots and dropping passed ranges, in whatever order, never loses a claim
\* that still has bytes ahead of the scan.
THEOREM ClaimsStayInForce == Spec => []LiveClaimsKept
<1>1. LiveInv => LiveClaimsKept
  BY DEF LiveInv
<1> QED
  BY <1>1, TypeInvInit, TypeInvStep, LiveInit, LiveStep, PTL DEF Spec

\* Nothing is tried inside a file that this scan of the device has extracted.
THEOREM NeverReentered == Spec => NoClaimReentered
<1> DEFINE Outside == pc = "scan" /\ pc' = "recipes" =>
               \A c \in claimed : SameScan(c) => ~(c.begin < fpos + p' /\ fpos + p' < c.end)
<1>1. TypeInv /\ LiveInv /\ [Next]_vars => [Outside]_vars
  <2> SUFFICES ASSUME TypeInv, LiveInv, Next, pc = "scan", pc' = "recipes",
                      NEW c \in claimed, SameScan(c), c.begin < fpos + p', fpos + p' < c.end
               PROVE  FALSE
    OBVIOUS
  <2>1. FindCandidate
    BY DEF Next, Step, OpenDevice, OpenFails, AllDevicesDone, ReadBlock, EndOfInput, ReturnFromScan, LseekFails,
           RangePassed, RangeCoversWindow, RangeCutsFront, RangeLeftAlone, AtRange, StartScanning, NextScanner,
           ScannersDone, SkipCandidate, RecipesDone, RecipeFails, ExtractOutput, AtRecipe, ExtractFails,
           LeaveDevice, Kill, Resume, Resting, vars
  <2>2. PICK h \in Hits : p' = h /\ \A i \in DOMAIN ranges : ~StrictlyInside(fpos + h, ranges[i])
    BY <2>1 DEF FindCandidate
  <2>3. h \in Nat /\ fpos \in Nat /\ c.begin \in Nat /\ c.end \in Nat
    BY <2>1, HitBounds DEF FindCandidate, TypeInv, TypeOK, WindowTypes, HistoryTypes
  <2>4. c.end > Frontier
    BY <2>2, <2>3 DEF Frontier
  <2>5. PICK i \in DOMAIN ranges : ranges[i] = [begin |-> c.begin, end |-> c.end]
    BY <2>4 DEF LiveInv, LiveClaimsKept, OnDevice
  <2>6. ranges[i].begin = c.begin /\ ranges[i].end = c.end
    BY <2>5
  <2> QED
    BY <2>2, <2>3, <2>6 DEF StrictlyInside, Used
<1>2. [][Outside]_vars <=> NoClaimReentered
  BY PTL DEF NoClaimReentered
<1> QED
  BY <1>1, <1>2, TypeInvInit, TypeInvStep, LiveInit, LiveStep, PTL DEF Spec

(***************************************************************************)
(* Nothing is in force that this scan has not claimed, as long as only the *)
(* last device is given up.                                                *)
(***************************************************************************)

OnlyLastFails == Faulty \subseteq {Len(DevLen)}

StaleInv ==
    /\ NoStaleRange
    /\ pc = "open" /\ dev \in Devices => \A i \in DOMAIN ranges : ~Used(ranges[i])

\* Steps on a device that put no range in force.
LEMMA StaleQuiet ==
    ASSUME StaleInv, OnDevice, OnDevice', UNCHANGED <<dev, kills, claimed>>,
           \A i \in DOMAIN ranges' : Used(ranges'[i]) => i \in DOMAIN ranges /\ ranges'[i] = ranges[i]
    PROVE  StaleInv'
  BY DEF StaleInv, NoStaleRange, SameScan, OnDevice

LEMMA StaleExtract == ASSUME TypeInv, StaleInv, ExtractOutput PROVE StaleInv'
  <1>1. /\ pc = "recipes" /\ pc' \in {"recipes", "scan"}
        /\ UNCHANGED <<dev, kills, fpos>>
    BY ClaimFacts
  <1>2. CASE UNCHANGED <<pc, p, ranges, claimed>>
    BY <1>1, <1>2 DEF StaleInv, NoStaleRange, SameScan, OnDevice
  <1>3. ASSUME NEW r \in [begin : Nat, end : Nat], PutRange(r),
               claimed' = claimed \cup {[dev |-> dev, run |-> kills, begin |-> r.begin, end |-> r.end]}
        PROVE  StaleInv'
    <2> DEFINE new == [dev |-> dev, run |-> kills, begin |-> r.begin, end |-> r.end]
    <2>1. \A i \in DOMAIN ranges' : ranges'[i] = r \/ (i \in DOMAIN ranges /\ ranges'[i] = ranges[i])
      BY <1>3, PutKeeps DEF TypeInv, TypeOK
    <2>2. r = [begin |-> new.begin, end |-> new.end] /\ new.dev = dev /\ new.run = kills /\ new \in claimed'
      BY <1>3
    <2> HIDE DEF new
    <2>3. NoStaleRange'
      <3> SUFFICES ASSUME NEW i \in DOMAIN ranges', Used(ranges'[i])
                   PROVE  \E c \in claimed' : /\ c.dev = dev /\ c.run = kills
                                              /\ ranges'[i] = [begin |-> c.begin, end |-> c.end]
        BY <1>1 DEF NoStaleRange, SameScan, Used
      <3>1. CASE ranges'[i] = r
        BY <2>2, <3>1
      <3>2. CASE i \in DOMAIN ranges /\ ranges'[i] = ranges[i]
        BY <1>1, <1>3, <3>2 DEF StaleInv, NoStaleRange, SameScan, OnDevice, Used
      <3> QED
        BY <2>1, <3>1, <3>2
    <2> QED
      BY <1>1, <2>3 DEF StaleInv
  <1> QED
    BY <1>2, <1>3, ClaimFacts

LEMMA StaleStep == ASSUME OnlyLastFails, TypeInv, StaleInv, [Next]_vars PROVE StaleInv'
<1> USE DEF mainVars, progressVars, fileVars, windowVars, loopVars, history
<1>1. CASE OpenDevice
  BY <1>1 DEF OpenDevice, StaleInv, NoStaleRange, OnDevice
<1>2. CASE OpenFails \/ LseekFails \/ ExtractFails
  <2>1. dev = Len(DevLen) /\ dev' = dev + 1 /\ pc' = "open"
    BY <1>2 DEF OpenFails, LseekFails, ExtractFails, AtRecipe, LeaveDevice, OnlyLastFails
  <2>2. dev' \notin Devices
    BY <2>1, ConstantTypes DEF Devices
  <2> QED
    BY <2>1, <2>2 DEF StaleInv, NoStaleRange, OnDevice
<1>3. CASE EndOfInput
  <2>1. \A i \in DOMAIN ranges' : ~Used(ranges'[i])
    <3>1. \A i \in DOMAIN ranges' : i \in DOMAIN ranges /\ ranges'[i] = [ranges[i] EXCEPT !.begin = -1]
      BY <1>3 DEF EndOfInput, AllUnused
    <3>2. \A i \in DOMAIN ranges : [ranges[i] EXCEPT !.begin = -1].begin = -1
      BY RangeElement DEF TypeInv, TypeOK
    <3>3. \A i \in DOMAIN ranges' : ranges'[i].begin = -1
      BY <3>1, <3>2
    <3> QED
      BY <3>3 DEF Used
  <2> QED
    BY <1>3, <2>1 DEF EndOfInput, LeaveDevice, StaleInv, NoStaleRange, OnDevice
<1>4. CASE RangePassed
  <2>1. idx \in DOMAIN ranges /\ ranges' = [ranges EXCEPT ![idx].begin = -1]
    BY <1>4 DEF RangePassed, AtRange, TypeInv, TypeOK, WindowTypes, RangeTypes
  <2>2. ranges'[idx].begin = -1 /\ DOMAIN ranges' = DOMAIN ranges
    BY <2>1, RangeElement DEF TypeInv, TypeOK
  <2>3. \A i \in DOMAIN ranges' : Used(ranges'[i]) => i \in DOMAIN ranges /\ ranges'[i] = ranges[i]
    BY <2>1, <2>2 DEF Used
  <2> QED
    BY <1>4, <2>3, StaleQuiet DEF RangePassed, AtRange, OnDevice
<1>5. CASE ReadBlock \/ ReturnFromScan \/ RangeCoversWindow \/ RangeCutsFront \/ RangeLeftAlone
           \/ StartScanning \/ NextScanner \/ ScannersDone \/ SkipCandidate \/ FindCandidate
           \/ RecipesDone \/ RecipeFails
  <2>1. OnDevice /\ OnDevice' /\ UNCHANGED <<dev, kills, claimed, ranges>>
    BY <1>5 DEF ReadBlock, ReturnFromScan, RangeCoversWindow, RangeCutsFront, RangeLeftAlone, StartScanning,
                NextScanner, ScannersDone, SkipCandidate, FindCandidate, RecipesDone, RecipeFails, AtRange,
                AtRecipe, OnDevice
  <2> QED
    BY <2>1, StaleQuiet
<1>6. CASE ExtractOutput
  BY <1>6, StaleExtract
<1>7. CASE AllDevicesDone \/ Kill
  BY <1>7 DEF AllDevicesDone, Kill, StaleInv, NoStaleRange, OnDevice
<1>8. CASE Resume
  BY <1>8 DEF Resume, StaleInv, NoStaleRange, OnDevice
<1>9. CASE Resting \/ UNCHANGED vars
  BY <1>9 DEF Resting, vars, StaleInv, NoStaleRange, SameScan, OnDevice
<1> QED
  BY <1>1, <1>2, <1>3, <1>4, <1>5, <1>6, <1>7, <1>8, <1>9 DEF Next, Step

LEMMA StaleInit == Init => StaleInv
  BY DEF Init, StaleInv, NoStaleRange, OnDevice

\* Unless a device before the last is given up, every range in force was claimed by the
\* scan of the device at hand.
THEOREM NothingStale ==
    ASSUME OnlyLastFails
    PROVE  Spec => []NoStaleRange
<1>1. StaleInv => NoStaleRange
  BY DEF StaleInv
<1> QED
  BY <1>1, TypeInvInit, TypeInvStep, StaleInit, StaleStep, PTL DEF Spec

(***************************************************************************)
(* Every candidate is settled.  Cut off the front or covered means inside  *)
(* a claim; between there and the place a scanner has reached, it finds    *)
(* every candidate, since the buffer is coherent.                          *)
(***************************************************************************)

\* The candidates of s between the cursor and x are settled.
Done(s, x) == \A y \in disk[dev][s] : Cursor <= y /\ y < x => Settled(dev, s, y)
DoneNext(s, x) == \A y \in disk'[dev'][s] : Cursor' <= y /\ y < x => Settled(dev, s, y)'

ClaimsBehind ==
    \A c \in claimed : SameScan(c) =>
        /\ pc \in {"read", "ranges"} => c.begin < Cursor
        /\ pc \in {"scan", "recipes", "return"} => c.begin < WindowEnd

DoneInv ==
    \A s \in Scanners :
        /\ InScanBuf => Done(s, fpos)
        /\ pc \in {"scan", "recipes"} /\ s < sc => Done(s, WindowEnd - Offset[s])
        /\ pc = "scan" /\ s = sc => Done(s, fpos + p - Offset[s])
        /\ pc = "recipes" /\ s = sc => Done(s, fpos + p + 1)
        /\ pc = "return" => Done(s, WindowEnd - Offset[s])

MarginInv == ClaimsBehind /\ DoneInv /\ (pc = "recipes" => p < len)

\* The invariants this one rests on.
AllInv == TypeInv /\ CoherenceInv /\ LiveInv /\ StaleInv

LEMMA DoneTypes ==
    ASSUME TypeInv, InBlock, NEW s \in Scanners
    PROVE  /\ dev \in Devices /\ disk[dev][s] \subseteq Nat /\ Offset[s] \in Nat
           /\ obr \in Nat /\ got \in Nat /\ Overlap \in Nat /\ Cursor \in Int /\ WindowEnd \in Int
           /\ Cursor <= fpos /\ fpos + len = WindowEnd /\ Cursor <= WindowEnd
           /\ fpos \in Nat /\ len \in Nat /\ base \in Nat /\ p \in Nat /\ sc \in Nat
  <1>1. /\ obr \in Nat /\ got \in Nat /\ Kept \in Nat /\ Overlap \in Nat
        /\ fpos \in Nat /\ base \in Nat /\ len \in Nat /\ p \in Nat /\ sc \in Nat
    BY ConstantTypes DEF TypeInv, TypeOK, FileTypes, WindowTypes, Kept
  <1>2. dev \in Devices /\ disk[dev][s] \subseteq Nat /\ Offset[s] \in Nat
    BY ConstantTypes DEF TypeInv, TypeOK, FileTypes, OnDevice, InBlock
  <1>3. base + len + Overlap = Kept + got /\ fpos = (obr - Kept) + base
    BY DEF TypeInv, BlockInBuffer, Cursor
  <1> QED
    BY <1>1, <1>2, <1>3 DEF Cursor, WindowEnd

LEMMA DoneGrows ==
    ASSUME UNCHANGED <<dev, disk, obr, firsttime>>, tested \subseteq tested', claimed \subseteq claimed',
           NEW s, NEW x, Done(s, x)
    PROVE  DoneNext(s, x)
  <1>1. Cursor' = Cursor
    BY DEF Cursor, Kept
  <1> SUFFICES ASSUME NEW y \in disk[dev][s], Cursor <= y, y < x PROVE Settled(dev, s, y)'
    BY <1>1 DEF DoneNext
  <1>2. Settled(dev, s, y)
    BY DEF Done
  <1> QED
    BY <1>2 DEF Settled

\* Where a candidate is in the window, the scanner's bytes are.
LEMMA CandidateShows ==
    ASSUME TypeInv, CoherenceInv, pc = "scan", sc \in Scanners,
           NEW x \in disk[dev][sc], fpos <= x, x < fpos + len
    PROVE  HitAt(sc, base + (x - fpos))
  <1>1. /\ disk[dev][sc] \subseteq Nat /\ Overlap \in Nat /\ Reach \in Nat /\ Reach <= Overlap
        /\ fpos \in Nat /\ len \in Nat /\ base \in Nat
    BY DoneTypes, BufferAssumption DEF InBlock
  <1>2. ASSUME NEW k \in 0..Reach-1
        PROVE  base + (x - fpos) + k \in Cells /\ buf[base + (x - fpos) + k] = x + k
    <2> DEFINE i == (x - fpos) + k
    <2>1. i \in 0..(len + Overlap - 1) /\ base + i = base + (x - fpos) + k /\ fpos + i = x + k
      BY <1>1, <1>2
    <2>2. base + i \in Cells /\ buf[base + i] = fpos + i
      BY <2>1, CoherenceImplies DEF BufferCoherent, InScanBuf
    <2> QED
      BY <2>1, <2>2
  <1> QED
    BY <1>2 DEF HitAt

\* Up to the first hit, or to the margin if there is none, the scanner passes nothing
\* unsettled.
LEMMA SearchedToHit ==
    ASSUME TypeInv, CoherenceInv, DoneInv, pc = "scan", sc \in Scanners,
           NEW h \in Hits, \A g \in Hits : h <= g
    PROVE  Done(sc, fpos + h)
  <1> SUFFICES ASSUME NEW x \in disk[dev][sc], Cursor <= x, x < fpos + h PROVE Settled(dev, sc, x)
    BY DEF Done
  <1>1. /\ disk[dev][sc] \subseteq Nat /\ Offset[sc] \in Nat /\ p >= Offset[sc]
        /\ fpos \in Nat /\ len \in Nat /\ base \in Nat /\ p \in Nat /\ h \in Nat /\ h < len
    BY DoneTypes, HitBounds DEF InBlock, TypeInv
  <1>2. CASE x < fpos + p - Offset[sc]
    BY <1>2 DEF DoneInv, Done
  <1>3. CASE x >= fpos + p - Offset[sc]
    <2>1. HitAt(sc, base + (x - fpos))
      BY <1>1, <1>3, CandidateShows
    <2>2. p < len
      BY DEF Hits
    <2>3. x - fpos \in Hits
      BY <1>1, <1>3, <2>1, <2>2 DEF Hits
    <2> QED
      BY <1>1, <2>3
  <1> QED
    BY <1>1, <1>2, <1>3

LEMMA SearchedToMargin ==
    ASSUME TypeInv, CoherenceInv, DoneInv, pc = "scan", sc \in Scanners, Hits = {}
    PROVE  Done(sc, WindowEnd - Offset[sc])
  <1> SUFFICES ASSUME NEW x \in disk[dev][sc], Cursor <= x, x < WindowEnd - Offset[sc] PROVE Settled(dev, sc, x)
    BY DEF Done
  <1>1. /\ disk[dev][sc] \subseteq Nat /\ Offset[sc] \in Nat /\ p >= Offset[sc] /\ WindowEnd = fpos + len
        /\ fpos \in Nat /\ len \in Nat /\ base \in Nat /\ p \in Nat
    BY DoneTypes DEF InBlock, TypeInv
  <1>2. CASE x < fpos + p - Offset[sc]
    BY <1>2 DEF DoneInv, Done
  <1>3. CASE x >= fpos + p - Offset[sc]
    <2>1. HitAt(sc, base + (x - fpos))
      BY <1>1, <1>3, CandidateShows
    <2>2. x - fpos \in (p - Offset[sc])..(len - 1) /\ p < len
      BY <1>1, <1>3
    <2>3. x - fpos \in Hits
      BY <2>1, <2>2 DEF Hits
    <2> QED
      BY <2>3
  <1> QED
    BY <1>1, <1>2, <1>3

\* What is inside a range in force is settled, except where the range begins.
LEMMA InsideIsSettled ==
    ASSUME TypeInv, StaleInv, OnDevice, NEW i \in DOMAIN ranges, Used(ranges[i])
    PROVE  \E c \in claimed : /\ SameScan(c) /\ c.begin = ranges[i].begin /\ c.end = ranges[i].end
                              /\ \A s, x : c.begin < x /\ x < c.end => Settled(dev, s, x)
  <1>1. PICK c \in claimed : SameScan(c) /\ ranges[i] = [begin |-> c.begin, end |-> c.end]
    BY DEF StaleInv, NoStaleRange
  <1>2. c.begin = ranges[i].begin /\ c.end = ranges[i].end
    BY <1>1
  <1>3. \A s, x : c.begin < x /\ x < c.end => Settled(dev, s, x)
    BY <1>1 DEF Settled, SameScan
  <1> QED
    BY <1>1, <1>2, <1>3

\* Steps of scan_buf that leave the window alone.
LEMMA MarginInWindow ==
    ASSUME TypeInv, MarginInv, InScanBuf, pc' \in {"ranges", "scan", "recipes"},
           pc' = "ranges" => pc = "ranges",
           UNCHANGED <<dev, kills, disk, obr, got, firsttime, fpos, len>>,
           \/ claimed' = claimed
           \/ pc = "recipes" /\ \E c : c.begin = fpos + p /\ claimed' = claimed \cup {c},
           tested \subseteq tested', claimed \subseteq claimed'
    PROVE  /\ ClaimsBehind'
           /\ \A s \in Scanners : DoneNext(s, fpos) /\ \A x : Done(s, x) => DoneNext(s, x)
           /\ WindowEnd' = WindowEnd
  <1>1. Cursor' = Cursor /\ WindowEnd' = WindowEnd
    BY DEF Cursor, WindowEnd, Kept
  <1>2. \A s \in Scanners : \A x : Done(s, x) => DoneNext(s, x)
    BY DoneGrows
  <1>3. \A s \in Scanners : DoneNext(s, fpos)
    BY <1>2 DEF MarginInv, DoneInv
  <1>4. /\ Cursor <= WindowEnd /\ Cursor \in Int /\ WindowEnd \in Int /\ fpos \in Nat /\ p \in Nat /\ len \in Nat
        /\ fpos + len = WindowEnd
    BY FrontierTypes DEF OnDevice, InScanBuf, TypeInv, TypeOK, WindowTypes
  <1>5. ASSUME NEW c \in claimed', SameScan(c)
        PROVE  /\ pc' \in {"read", "ranges"} => c.begin < Cursor
               /\ pc' \in {"scan", "recipes", "return"} => c.begin < WindowEnd
    <2>1. CASE c \in claimed
      <3>1. c.begin \in Nat
        BY <2>1 DEF TypeInv, TypeOK, HistoryTypes
      <3> QED
        BY <1>4, <1>5, <2>1, <3>1 DEF MarginInv, ClaimsBehind, InScanBuf
    <2>2. CASE c \notin claimed
      <3>1. pc = "recipes" /\ c.begin = fpos + p /\ p < len
        BY <2>2 DEF MarginInv
      <3> QED
        BY <1>4, <3>1
    <2> QED
      BY <2>1, <2>2
  <1>6. ClaimsBehind'
    BY <1>1, <1>5 DEF ClaimsBehind, SameScan
  <1> QED
    BY <1>1, <1>2, <1>3, <1>6

LEMMA MarginCuts == ASSUME AllInv, MarginInv, RangeCutsFront PROVE MarginInv'
  <1>1. /\ pc = "ranges" /\ pc' = pc /\ idx \in DOMAIN ranges /\ Used(ranges[idx])
        /\ ranges[idx].begin <= fpos /\ ranges[idx].end > fpos /\ fpos' = fpos + (ranges[idx].end - fpos)
        /\ UNCHANGED <<dev, kills, disk, obr, got, firsttime, tested, claimed>>
    BY DEF RangeCutsFront, AtRange, CutsFront, AllInv, TypeInv, TypeOK, WindowTypes, RangeTypes, mainVars,
           fileVars, history
  <1>2. Cursor' = Cursor
    BY <1>1 DEF Cursor, Kept
  <1>3. ClaimsBehind'
    BY <1>1, <1>2 DEF MarginInv, ClaimsBehind, SameScan
  <1>4. /\ fpos \in Nat /\ ranges[idx].end \in Nat /\ Cursor \in Int /\ Cursor <= fpos
    BY <1>1, RangeElement, FrontierTypes DEF AllInv, TypeInv, TypeOK, WindowTypes, OnDevice, InScanBuf
  <1>5. PICK c \in claimed : /\ SameScan(c) /\ c.begin = ranges[idx].begin /\ c.end = ranges[idx].end
                             /\ \A s, x : c.begin < x /\ x < c.end => Settled(dev, s, x)
    BY <1>1, InsideIsSettled DEF AllInv, OnDevice
  <1>6. c.begin < Cursor /\ c.begin \in Nat
    BY <1>1, <1>5 DEF MarginInv, ClaimsBehind, AllInv, TypeInv, TypeOK, HistoryTypes
  <1>7. ASSUME NEW s \in Scanners PROVE Done(s, fpos)'
    <2>1. Done(s, fpos) /\ disk[dev][s] \subseteq Nat
      BY <1>1, DoneTypes DEF MarginInv, DoneInv, InScanBuf, InBlock, AllInv
    <2>2. ASSUME NEW x \in disk[dev][s], Cursor <= x, x < fpos' PROVE Settled(dev, s, x)
      <3>1. CASE x < fpos
        BY <2>1, <2>2, <3>1 DEF Done
      <3>2. CASE x >= fpos
        BY <1>1, <1>4, <1>5, <1>6, <2>1, <2>2, <3>2
      <3> QED
        BY <1>4, <2>1, <3>1, <3>2
    <2> QED
      BY <1>1, <1>2, <2>2 DEF Done, Settled
  <1> QED
    BY <1>1, <1>3, <1>7 DEF MarginInv, DoneInv

LEMMA MarginCovers == ASSUME AllInv, MarginInv, RangeCoversWindow PROVE MarginInv'
  <1>1. /\ pc = "ranges" /\ pc' = "return" /\ idx \in DOMAIN ranges /\ Used(ranges[idx])
        /\ ranges[idx].end > fpos + len
        /\ UNCHANGED <<dev, kills, disk, obr, got, firsttime, tested, claimed>>
    BY DEF RangeCoversWindow, AtRange, CoversWindow, AllInv, TypeInv, TypeOK, WindowTypes, RangeTypes, mainVars,
           fileVars, history
  <1>2. Cursor' = Cursor /\ WindowEnd' = WindowEnd
    BY <1>1 DEF Cursor, WindowEnd, Kept
  <1>3. /\ fpos \in Nat /\ ranges[idx].end \in Nat /\ Cursor \in Int /\ WindowEnd \in Int /\ Cursor <= WindowEnd
        /\ fpos + len = WindowEnd
    BY <1>1, RangeElement, FrontierTypes DEF AllInv, TypeInv, TypeOK, WindowTypes, OnDevice, InScanBuf
  <1>4. ClaimsBehind'
    <2>1. \A c \in claimed : c.begin \in Nat
      BY DEF AllInv, TypeInv, TypeOK, HistoryTypes
    <2> QED
      BY <1>1, <1>2, <1>3, <2>1 DEF MarginInv, ClaimsBehind, SameScan
  <1>5. PICK c \in claimed : /\ SameScan(c) /\ c.begin = ranges[idx].begin /\ c.end = ranges[idx].end
                             /\ \A s, x : c.begin < x /\ x < c.end => Settled(dev, s, x)
    BY <1>1, InsideIsSettled DEF AllInv, OnDevice
  <1>6. c.begin < Cursor /\ c.begin \in Nat
    BY <1>1, <1>5 DEF MarginInv, ClaimsBehind, AllInv, TypeInv, TypeOK, HistoryTypes
  <1>7. ASSUME NEW s \in Scanners PROVE Done(s, WindowEnd - Offset[s])'
    <2>1. disk[dev][s] \subseteq Nat /\ Offset[s] \in Nat
      BY <1>1, DoneTypes DEF InBlock, AllInv
    <2>2. ASSUME NEW x \in disk[dev][s], Cursor <= x, x < WindowEnd - Offset[s] PROVE Settled(dev, s, x)
      <3>1. c.begin < x /\ x < c.end
        BY <1>1, <1>3, <1>5, <1>6, <2>1, <2>2
      <3> QED
        BY <1>5, <3>1
    <2> QED
      BY <1>1, <1>2, <2>2 DEF Done, Settled
  <1> QED
    BY <1>1, <1>4, <1>7 DEF MarginInv, DoneInv, InScanBuf

LEMMA MarginRanges == ASSUME AllInv, MarginInv, RangePassed \/ RangeLeftAlone \/ StartScanning PROVE MarginInv'
  <1>1. /\ pc = "ranges" /\ pc' \in {"ranges", "scan"} /\ InScanBuf
        /\ UNCHANGED <<dev, kills, disk, obr, got, firsttime, fpos, len, claimed, tested>>
        /\ pc' = "scan" => sc' = 1 /\ p' = IF 1 \in Scanners THEN Offset[1] ELSE 0
    BY DEF RangePassed, RangeLeftAlone, StartScanning, ToScanner, AtRange, InScanBuf, mainVars, fileVars,
           windowVars, history
  <1>2. ClaimsBehind' /\ \A s \in Scanners : DoneNext(s, fpos)
    BY <1>1, MarginInWindow DEF AllInv
  <1>3. ASSUME NEW s \in Scanners, pc' = "scan"
        PROVE  ~(s < sc') /\ (s = sc' => fpos' + p' - Offset[s] = fpos)
    <2>1. s \in Nat \ {0} /\ Offset[s] \in Nat /\ fpos \in Nat
      BY <1>1, DoneTypes DEF AllInv, InBlock, Scanners
    <2>2. sc' = 1 /\ (s = 1 => p' = Offset[s])
      BY <1>1, <1>3
    <2> QED
      BY <1>1, <2>1, <2>2
  <1>4. DoneInv'
    BY <1>1, <1>2, <1>3 DEF DoneInv, Done, DoneNext
  <1> QED
    BY <1>1, <1>2, <1>4 DEF MarginInv

\* The searches of one scanner after the other.
LEMMA MarginScan ==
    ASSUME AllInv, MarginInv, pc = "scan", sc \in Scanners, pc' = "scan",
           UNCHANGED <<dev, kills, disk, obr, got, firsttime, fpos, len, claimed, tested>>,
           \/ sc' = sc + 1 /\ Done(sc, WindowEnd - Offset[sc])
              /\ (sc + 1 \in Scanners => p' = Offset[sc + 1])
           \/ sc' = sc /\ p' \in Nat /\ Done(sc, fpos + p' - Offset[sc])
    PROVE  MarginInv'
  <1>1. /\ ClaimsBehind' /\ WindowEnd' = WindowEnd
        /\ \A s \in Scanners : DoneNext(s, fpos) /\ \A x : Done(s, x) => DoneNext(s, x)
    BY MarginInWindow DEF AllInv, InScanBuf
  <1>2. ASSUME NEW s \in Scanners
        PROVE  /\ s < sc' => DoneNext(s, WindowEnd - Offset[s])
               /\ s = sc' => DoneNext(s, fpos + p' - Offset[s])
    <2>0. s \in Nat /\ sc \in Nat /\ Offset[s] \in Nat /\ fpos \in Nat
      BY DoneTypes DEF AllInv, InBlock, Scanners
    <2>1. s < sc => Done(s, WindowEnd - Offset[s])
      BY DEF MarginInv, DoneInv
    <2>2. CASE sc' = sc /\ p' \in Nat /\ Done(sc, fpos + p' - Offset[sc])
      BY <1>1, <2>1, <2>2
    <2>3. CASE sc' = sc + 1 /\ Done(sc, WindowEnd - Offset[sc]) /\ (sc + 1 \in Scanners => p' = Offset[sc + 1])
      <3>1. s < sc' => s < sc \/ s = sc
        BY <2>0, <2>3
      <3>2. s = sc' => fpos + p' - Offset[s] = fpos
        BY <2>0, <2>3
      <3> QED
        BY <1>1, <2>1, <2>3, <3>1, <3>2
    <2> QED
      BY <2>2, <2>3
  <1>3. DoneInv'
    BY <1>1, <1>2 DEF DoneInv, Done, DoneNext
  <1> QED
    BY <1>1, <1>3 DEF MarginInv

LEMMA MarginNextScanner == ASSUME AllInv, MarginInv, NextScanner PROVE MarginInv'
  <1>1. Done(sc, WindowEnd - Offset[sc])
    BY SearchedToMargin DEF NextScanner, AllInv, MarginInv
  <1> QED
    BY <1>1, MarginScan DEF NextScanner, ToScanner, mainVars, fileVars, windowVars, history

LEMMA MarginSkip == ASSUME AllInv, MarginInv, SkipCandidate PROVE MarginInv'
  <1>1. PICK h \in Hits : /\ \A g \in Hits : h <= g
                          /\ \E i \in DOMAIN ranges : StrictlyInside(fpos + h, ranges[i])
                          /\ p' = h + Offset[sc] + 1
    BY DEF SkipCandidate, KeepScanning
  <1>2. pc = "scan" /\ pc' = pc /\ sc \in Scanners
        /\ UNCHANGED <<dev, kills, disk, obr, got, firsttime, fpos, len, claimed, tested, sc>>
    BY DEF SkipCandidate, mainVars, fileVars, windowVars, history
  <1>3. Done(sc, fpos + h)
    BY <1>1, <1>2, SearchedToHit DEF AllInv, MarginInv
  <1>4. PICK i \in DOMAIN ranges : Used(ranges[i]) /\ fpos + h > ranges[i].begin /\ fpos + h < ranges[i].end
    BY <1>1 DEF StrictlyInside
  <1>5. Settled(dev, sc, fpos + h)
    BY <1>2, <1>4, InsideIsSettled DEF AllInv, OnDevice
  <1>6. h \in Nat /\ fpos \in Nat /\ Offset[sc] \in Nat /\ disk[dev][sc] \subseteq Nat
    BY <1>1, <1>2, HitBounds, DoneTypes DEF AllInv, InBlock
  <1>7. p' \in Nat /\ fpos + p' - Offset[sc] = fpos + h + 1
    BY <1>1, <1>6
  <1>8. Done(sc, fpos + h + 1)
    BY <1>3, <1>5, <1>6 DEF Done
  <1> QED
    BY <1>2, <1>7, <1>8, MarginScan

LEMMA MarginFind == ASSUME AllInv, MarginInv, FindCandidate PROVE MarginInv'
  <1>1. PICK h \in Hits : /\ \A g \in Hits : h <= g
                          /\ p' = h /\ tested' = tested \cup {<<dev, sc, fpos + h>>}
    BY DEF FindCandidate
  <1>2. pc = "scan" /\ pc' = "recipes" /\ sc \in Scanners
        /\ UNCHANGED <<dev, kills, disk, obr, got, firsttime, fpos, len, claimed, sc>>
    BY DEF FindCandidate, mainVars, fileVars, windowVars
  <1>3. Done(sc, fpos + h)
    BY <1>1, <1>2, SearchedToHit DEF AllInv, MarginInv
  <1>4. /\ ClaimsBehind' /\ WindowEnd' = WindowEnd
        /\ \A s \in Scanners : DoneNext(s, fpos) /\ \A x : Done(s, x) => DoneNext(s, x)
    BY <1>1, <1>2, MarginInWindow DEF AllInv, InScanBuf
  <1>5. h \in Nat /\ h < len /\ fpos \in Nat /\ disk[dev][sc] \subseteq Nat
    BY <1>1, <1>2, HitBounds, DoneTypes DEF AllInv, InBlock
  <1>6. Settled(dev, sc, fpos + h)'
    BY <1>1, <1>2 DEF Settled
  <1>7. DoneNext(sc, fpos + h + 1)
    <2>1. DoneNext(sc, fpos + h)
      BY <1>2, <1>3, <1>4
    <2> SUFFICES ASSUME NEW y \in disk[dev][sc], Cursor' <= y, y < fpos + h + 1 PROVE Settled(dev, sc, y)'
      BY <1>2 DEF DoneNext
    <2>2. y < fpos + h \/ y = fpos + h
      BY <1>5
    <2> QED
      BY <1>2, <1>6, <2>1, <2>2 DEF DoneNext
  <1>8. \A s \in Scanners : s < sc => DoneNext(s, WindowEnd - Offset[s])
    BY <1>2, <1>4 DEF MarginInv, DoneInv
  <1>9. DoneInv'
    BY <1>1, <1>2, <1>4, <1>7, <1>8 DEF DoneInv, Done, DoneNext
  <1> QED
    BY <1>1, <1>2, <1>4, <1>5, <1>9 DEF MarginInv

\* The recipes of one scanner on the candidate at p.
LEMMA MarginRecipes == ASSUME AllInv, MarginInv, RecipesDone \/ RecipeFails \/ ExtractOutput PROVE MarginInv'
  <1>1. /\ pc = "recipes" /\ sc \in Scanners /\ InScanBuf /\ p < len
        /\ UNCHANGED <<dev, kills, disk, obr, got, firsttime, fpos, len, tested, sc>>
    BY DEF RecipesDone, RecipeFails, ExtractOutput, AtRecipe, AllInv, TypeInv, InScanBuf, MarginInv, mainVars,
           fileVars, windowVars, history
  <1>2. /\ \/ pc' = "recipes" /\ p' = p
           \/ pc' = "scan" /\ KeepScanning(p)
        /\ \/ claimed' = claimed
           \/ \E c : c.begin = fpos + p /\ claimed' = claimed \cup {c}
    <2>1. CASE RecipesDone \/ RecipeFails
      BY <2>1 DEF RecipesDone, RecipeFails, AtRecipe, history
    <2>2. CASE ExtractOutput
      <3>1. CASE UNCHANGED <<pc, p, ranges, claimed>>
        BY <1>1, <3>1
      <3>2. ASSUME NEW r \in [begin : Nat, end : Nat], r.begin = fpos + p, pc' = "scan", KeepScanning(p),
                   claimed' = claimed \cup {[dev |-> dev, run |-> kills, begin |-> r.begin, end |-> r.end]}
            PROVE  \E c : c.begin = fpos + p /\ claimed' = claimed \cup {c}
        <4>1. [dev |-> dev, run |-> kills, begin |-> r.begin, end |-> r.end].begin = fpos + p
          BY <3>2
        <4> QED
          BY <3>2, <4>1
      <3> QED
        BY <2>2, <3>1, <3>2, ClaimFacts DEF AllInv
    <2> QED
      BY <2>1, <2>2
  <1>3. /\ ClaimsBehind' /\ WindowEnd' = WindowEnd
        /\ \A s \in Scanners : DoneNext(s, fpos) /\ \A x : Done(s, x) => DoneNext(s, x)
    BY <1>1, <1>2, MarginInWindow DEF AllInv
  <1>4. \A s \in Scanners : /\ s < sc => DoneNext(s, WindowEnd - Offset[s])
                            /\ s = sc => DoneNext(s, fpos + p + 1)
    BY <1>1, <1>3 DEF MarginInv, DoneInv
  <1>5. KeepScanning(p) => fpos + p' - Offset[sc] = fpos + p + 1
    <2>1. fpos \in Nat /\ p \in Nat /\ Offset[sc] \in Nat
      BY <1>1, DoneTypes DEF AllInv, InBlock
    <2> QED
      BY <2>1 DEF KeepScanning
  <1>6. DoneInv'
    BY <1>1, <1>2, <1>3, <1>4, <1>5 DEF DoneInv, Done, DoneNext
  <1> QED
    BY <1>1, <1>2, <1>3, <1>6 DEF MarginInv

LEMMA MarginScannersDone == ASSUME AllInv, MarginInv, ScannersDone PROVE MarginInv'
  <1>1. /\ pc = "scan" /\ pc' = "return" /\ sc \notin Scanners
        /\ UNCHANGED <<dev, kills, disk, obr, got, firsttime, tested, claimed>>
    BY DEF ScannersDone, mainVars, fileVars, history
  <1>2. Cursor' = Cursor /\ WindowEnd' = WindowEnd
    BY <1>1 DEF Cursor, WindowEnd, Kept
  <1>3. ASSUME NEW s \in Scanners PROVE s < sc
    <2>1. sc \in Nat \ {0} /\ Len(Offset) \in Nat
      BY ScannersAssumption, LenProperties DEF AllInv, TypeInv, TypeOK, WindowTypes
    <2> QED
      BY <1>1, <2>1 DEF Scanners
  <1>4. \A s \in Scanners : DoneNext(s, WindowEnd - Offset[s])
    BY <1>1, <1>3, DoneGrows DEF MarginInv, DoneInv
  <1>5. DoneInv'
    BY <1>1, <1>2, <1>4 DEF DoneInv, Done, DoneNext, InScanBuf
  <1>6. ClaimsBehind'
    BY <1>1, <1>2 DEF MarginInv, ClaimsBehind, SameScan
  <1> QED
    BY <1>1, <1>5, <1>6 DEF MarginInv

LEMMA MarginReads == ASSUME AllInv, MarginInv, OpenDevice \/ ReadBlock \/ ReturnFromScan PROVE MarginInv'
  <1>1. CASE OpenDevice
    <2>1. pc = "open" /\ pc' = "read" /\ UNCHANGED <<dev, kills, claimed>>
      BY <1>1 DEF OpenDevice, mainVars
    <2>2. dev \in Nat /\ \A c \in claimed : c.dev \in Nat
      BY DEF AllInv, TypeInv, TypeOK, ControlTypes, HistoryTypes, Devices
    <2>3. \A c \in claimed : ~(c.dev = dev /\ c.run = kills)
      BY <2>1, <2>2 DEF AllInv, LiveInv, ClaimsAreOlder
    <2> QED
      BY <2>1, <2>3 DEF MarginInv, ClaimsBehind, SameScan, DoneInv, InScanBuf
  <1>2. CASE ReadBlock
    <2>1. /\ pc = "read" /\ pc' = "ranges" /\ fpos' = obr - Kept
          /\ UNCHANGED <<dev, kills, disk, obr, firsttime, claimed>>
      BY <1>2 DEF ReadBlock, mainVars, history
    <2>2. Cursor' = Cursor /\ fpos' = Cursor /\ Cursor \in Int
      BY <2>1, FrontierTypes DEF Cursor, Kept, AllInv, OnDevice
    <2>3. disk'[dev'] = disk[dev] /\ \A s \in Scanners : disk[dev][s] \subseteq Nat
      BY <2>1 DEF AllInv, TypeInv, TypeOK, FileTypes, OnDevice
    <2>4. \A s \in Scanners : Done(s, fpos)'
      BY <2>2, <2>3 DEF Done
    <2> QED
      BY <2>1, <2>2, <2>4 DEF MarginInv, ClaimsBehind, SameScan, DoneInv
  <1>3. CASE ReturnFromScan
    <2>1. /\ pc = "return" /\ pc' = "read" /\ obr' = obr + got /\ firsttime' = FALSE
          /\ UNCHANGED <<dev, kills, claimed>>
      BY <1>3 DEF ReturnFromScan, mainVars
    <2>2. Kept' = Overlap
      BY <2>1, Zenon DEF Kept
    <2>3. Cursor' = WindowEnd
      <3>1. obr \in Nat /\ got \in Nat /\ Overlap \in Nat
        BY <2>1, FrontierTypes DEF AllInv, OnDevice
      <3> QED
        BY <2>1, <2>2, <3>1 DEF Cursor, WindowEnd
    <2> QED
      BY <2>1, <2>3 DEF MarginInv, ClaimsBehind, SameScan, DoneInv, InScanBuf
  <1> QED
    BY <1>1, <1>2, <1>3

LEMMA MarginStep == ASSUME AllInv, MarginInv, [Next]_vars PROVE MarginInv'
<1>1. CASE OpenDevice \/ ReadBlock \/ ReturnFromScan
  BY <1>1, MarginReads
<1>2. CASE OpenFails \/ AllDevicesDone \/ EndOfInput \/ LseekFails \/ ExtractFails \/ Kill \/ Resume
  <2>1. pc' \in {"open", "exit", "killed"}
    BY <1>2 DEF OpenFails, AllDevicesDone, EndOfInput, LseekFails, ExtractFails, Kill, Resume, LeaveDevice
  <2> QED
    BY <2>1 DEF MarginInv, ClaimsBehind, DoneInv, InScanBuf
<1>3. CASE RangePassed \/ RangeLeftAlone \/ StartScanning
  BY <1>3, MarginRanges
<1>4. CASE RangeCoversWindow \/ RangeCutsFront
  BY <1>4, MarginCovers, MarginCuts
<1>5. CASE NextScanner \/ SkipCandidate \/ FindCandidate \/ ScannersDone
  BY <1>5, MarginNextScanner, MarginSkip, MarginFind, MarginScannersDone
<1>6. CASE RecipesDone \/ RecipeFails \/ ExtractOutput
  BY <1>6, MarginRecipes
<1>7. CASE Resting \/ UNCHANGED vars
  <2>1. UNCHANGED <<pc, dev, kills, disk, obr, got, firsttime, fpos, len, p, sc, tested, claimed>>
    BY <1>7 DEF Resting, vars, mainVars, fileVars, windowVars, loopVars, history
  <2>2. Cursor' = Cursor /\ WindowEnd' = WindowEnd
    BY <2>1 DEF Cursor, WindowEnd, Kept
  <2>3. \A s \in Scanners : \A x : Done(s, x) => DoneNext(s, x)
    BY <2>1, DoneGrows
  <2>4. DoneInv'
    BY <2>1, <2>2, <2>3 DEF MarginInv, DoneInv, Done, DoneNext, InScanBuf
  <2> QED
    BY <2>1, <2>2, <2>4 DEF MarginInv, ClaimsBehind, SameScan
<1> QED
  BY <1>1, <1>2, <1>3, <1>4, <1>5, <1>6, <1>7 DEF Next, Step

LEMMA AllInit == Init => AllInv /\ MarginInv
  <1>1. Init => MarginInv
    BY DEF Init, MarginInv, ClaimsBehind, DoneInv, InScanBuf
  <1> QED
    BY <1>1, TypeInvInit, CoherenceInit, LiveInit, StaleInit DEF AllInv

LEMMA AllStep ==
    ASSUME FullReads, OnlyLastFails
    PROVE  AllInv /\ MarginInv /\ [Next]_vars => AllInv' /\ MarginInv'
  BY TypeInvStep, CoherenceStep, LiveStep, StaleStep, MarginStep DEF AllInv

\* When the scan moves on, every candidate in the window it leaves is settled, but for
\* as many positions before its end as the scanner's offset.
THEOREM CandidatesAreSettled ==
    ASSUME FullReads, OnlyLastFails
    PROVE  Spec => OnlyTheMarginIsBlind
<1>1. AllInv /\ MarginInv /\ [Next]_vars => [pc = "return" /\ pc' = "read" => WindowSettled]_vars
  <2> SUFFICES ASSUME AllInv, MarginInv, pc = "return", NEW s \in Scanners, NEW x \in disk[dev][s],
                      x \in Cursor..(WindowEnd - Offset[s] - 1)
               PROVE  Settled(dev, s, x)
    BY DEF WindowSettled
  <2>1. Cursor \in Int /\ WindowEnd \in Int /\ Offset[s] \in Nat
    BY DoneTypes DEF InBlock, AllInv
  <2>2. Cursor <= x /\ x < WindowEnd - Offset[s]
    BY <2>1
  <2> QED
    BY <2>2 DEF MarginInv, DoneInv, Done
<1> QED
  BY <1>1, AllInit, AllStep, PTL DEF Spec, OnlyTheMarginIsBlind

(***************************************************************************)
(* Refinement.  The scanning loop implements the sweep of module Sweep:    *)
(* each step begins a device, settles candidates of the one at hand,       *)
(* passes a window without leaving a candidate of a scanner without offset *)
(* behind, finishes the device at its end, is an interrupt, or changes     *)
(* nothing of the sweep.                                                   *)
(***************************************************************************)

LEMMA CandidatesKept ==
    ASSUME disk' = disk
    PROVE  AbstractCandidates' = AbstractCandidates
  BY DEF AbstractCandidates

LEMMA SettledKept ==
    ASSUME UNCHANGED <<disk, tested, claimed>>
    PROVE  AbstractSettled' = AbstractSettled
  BY CandidatesKept DEF AbstractSettled, Settled

LEMMA CandidateTypes ==
    ASSUME TypeInv, NEW d \in Devices, NEW c \in AbstractCandidates[d]
    PROVE  /\ c[1] \in Prompt /\ c[2] \in disk[d][c[1]] /\ c = <<c[1], c[2]>>
           /\ c[2] \in Nat
  <1>1. PICK s \in Prompt : c \in {<<s, x>> : x \in disk[d][s]}
    BY DEF AbstractCandidates
  <1>2. PICK x \in disk[d][s] : c = <<s, x>>
    BY <1>1
  <1>3. disk[d][s] \subseteq Nat
    BY <1>1 DEF TypeInv, TypeOK, FileTypes, Prompt
  <1> QED
    BY <1>1, <1>2, <1>3

\* Steps the sweep does not see.
LEMMA SweepStutters ==
    ASSUME UNCHANGED <<disk, tested, claimed, kills>>,
           AbstractAt' = AbstractAt, AbstractCursor' = AbstractCursor
    PROVE  UNCHANGED Abstract!vars
  BY CandidatesKept, SettledKept DEF Abstract!vars

LEMMA OffDeviceStutters ==
    ASSUME ~OnDevice, ~OnDevice', UNCHANGED <<disk, tested, claimed, kills>>
    PROVE  UNCHANGED Abstract!vars
  BY SweepStutters DEF AbstractAt, AbstractCursor

LEMMA InBlockStutters ==
    ASSUME OnDevice, OnDevice', UNCHANGED <<disk, tested, claimed, kills, dev, obr, firsttime>>
    PROVE  UNCHANGED Abstract!vars
  BY SweepStutters DEF AbstractAt, AbstractCursor, Cursor, Kept

LEMMA DevicesAre == DOMAIN DevLen = Devices /\ 0 \notin Devices
  BY DevicesAssumption, LenProperties DEF Devices

LEMMA SweepBegins ==
    ASSUME TypeInv, OpenDevice
    PROVE  Abstract!Begin
  <1>1. ~OnDevice /\ OnDevice' /\ dev \in Devices /\ dev' = dev /\ obr' = startOff /\ startOff \in Nat
        /\ firsttime' = TRUE /\ UNCHANGED <<disk, tested, claimed, kills>>
    BY DEF OpenDevice, OnDevice, mainVars, TypeInv, TypeOK, ControlTypes
  <1>2. Kept' = 0
    BY <1>1, Zenon DEF Kept
  <1>3. AbstractCursor' >= 0
    BY <1>1, <1>2 DEF AbstractCursor, Cursor
  <1>4. AbstractAt = 0 /\ AbstractAt' \in DOMAIN DevLen
    BY <1>1, DevicesAre DEF AbstractAt
  <1> QED
    BY <1>1, <1>3, <1>4, CandidatesKept, SettledKept DEF Abstract!Begin

LEMMA SweepFinishes ==
    ASSUME TypeInv, OnDevice, LeaveDevice, UNCHANGED <<disk, tested, claimed, kills>>,
           dev \in Faulty \/ Cursor >= DevLen[dev] - 2 * Overlap
    PROVE  Abstract!Finish
  <1>1. dev \in Devices /\ AbstractAt = dev /\ AbstractCursor = Cursor
    BY DEF TypeInv, AbstractAt, AbstractCursor
  <1>2. AbstractAt' = 0 /\ AbstractCursor' = 0
    BY DEF LeaveDevice, OnDevice, AbstractAt, AbstractCursor
  <1> QED
    BY <1>1, <1>2, CandidatesKept, SettledKept, DevicesAre DEF Abstract!Finish

LEMMA SweepInterrupts ==
    ASSUME Kill
    PROVE  Abstract!Interrupt
  <1>1. UNCHANGED <<disk, tested, claimed>> /\ kills' = kills + 1 /\ pc' = "killed"
    BY DEF Kill, history
  <1>2. AbstractAt' = 0 /\ AbstractCursor' = 0
    BY <1>1 DEF OnDevice, AbstractAt, AbstractCursor
  <1> QED
    BY <1>1, <1>2, CandidatesKept, SettledKept DEF Abstract!Interrupt

LEMMA SweepPasses ==
    ASSUME AllInv, MarginInv, ReturnFromScan
    PROVE  Abstract!Pass
  <1>1. /\ pc = "return" /\ OnDevice /\ OnDevice' /\ obr' = obr + got /\ firsttime' = FALSE
        /\ UNCHANGED <<disk, tested, claimed, kills, dev>>
    BY DEF ReturnFromScan, OnDevice, mainVars
  <1>2. Kept' = Overlap
    BY <1>1, Zenon DEF Kept
  <1>3. /\ obr \in Nat /\ got \in Nat /\ Overlap \in Nat /\ Kept \in Nat /\ Cursor \in Int /\ WindowEnd \in Int
        /\ dev \in Devices /\ got > Overlap
    BY <1>1, FrontierTypes DEF AllInv, TypeInv, InBlock, BlockInBuffer
  <1>4. Cursor' = WindowEnd /\ Cursor < WindowEnd
    BY <1>1, <1>2, <1>3 DEF Cursor, WindowEnd
  <1>5. AbstractAt = dev /\ AbstractAt' = dev /\ AbstractCursor = Cursor /\ AbstractCursor' = WindowEnd
    BY <1>1, <1>4 DEF AbstractAt, AbstractCursor
  <1>6. ASSUME NEW c \in Abstract!Pending(dev) PROVE c[2] < Cursor \/ c[2] >= WindowEnd
    <2>1. c \in AbstractCandidates[dev] /\ ~Settled(dev, c[1], c[2])
      BY <1>3 DEF Abstract!Pending, AbstractSettled
    <2>2. c[1] \in Scanners /\ Offset[c[1]] = 0 /\ c[2] \in disk[dev][c[1]] /\ c[2] \in Nat
      BY <1>3, <2>1, CandidateTypes DEF AllInv, Prompt
    <2>3. Done(c[1], WindowEnd)
      <3>1. WindowEnd - Offset[c[1]] = WindowEnd
        BY <1>3, <2>2
      <3>2. Done(c[1], WindowEnd - Offset[c[1]])
        BY <1>1, <2>2 DEF MarginInv, DoneInv
      <3> QED
        BY <3>1, <3>2
    <2> QED
      BY <1>3, <2>1, <2>2, <2>3 DEF Done
  <1> QED
    BY <1>1, <1>3, <1>4, <1>5, <1>6, CandidatesKept, SettledKept, DevicesAre DEF Abstract!Pass

LEMMA SweepSettles ==
    ASSUME TypeInv, OnDevice, OnDevice', UNCHANGED <<disk, kills, dev, obr, firsttime>>,
           tested \subseteq tested', claimed \subseteq claimed',
           \A e \in tested' \ tested : \E s, x : e = <<dev, s, x>>,
           \A c \in claimed' \ claimed : c.dev = dev
    PROVE  Abstract!Settle
  <1>1. dev \in Devices /\ AbstractAt = dev /\ AbstractAt' = dev /\ AbstractCursor' = AbstractCursor
    BY DEF TypeInv, AbstractAt, AbstractCursor, Cursor, Kept
  <1>2. AbstractCandidates' = AbstractCandidates
    BY CandidatesKept
  <1>3. AbstractSettled[dev] \subseteq AbstractSettled'[dev]
    BY <1>1, <1>2 DEF AbstractSettled, Settled
  <1>4. ASSUME NEW d \in Devices \ {dev} PROVE AbstractSettled'[d] = AbstractSettled[d]
    <2>1. \A s, x : Settled(d, s, x)' <=> Settled(d, s, x)
      BY DEF Settled
    <2> QED
      BY <1>2, <2>1 DEF AbstractSettled
  <1> QED
    BY <1>1, <1>2, <1>3, <1>4, DevicesAre DEF Abstract!Settle

\* A sound device is left only when the cursor is within two overlaps of its end.
LEMMA EndOfSoundDevice ==
    ASSUME FullReads, LargeBuffer, TypeInv, CoherenceInv, EndOfInput, dev \notin Faulty
    PROVE  Cursor >= DevLen[dev] - 2 * Overlap
  <1>1. pc = "read" /\ fdpos = obr
    BY DEF EndOfInput, CoherenceInv, OnDevice
  <1>2. PICK n \in ReadSizes : n <= Overlap
    BY DEF EndOfInput, EndsInput
  <1>3. /\ n \in Nat
        /\ n < MinRead => n = BufSize - Kept \/ obr + n >= DevLen[dev]
    BY <1>1, ReadSizeBounds
  <1>4. /\ Kept \in {0, Overlap} /\ obr \in Nat /\ DevLen[dev] \in Nat
        /\ Overlap \in Nat /\ BufSize \in Nat /\ MinRead \in Nat
    BY <1>1, ConstantTypes DEF TypeInv, TypeOK, FileTypes, OnDevice, Kept
  <1>5. obr + n >= DevLen[dev]
    BY <1>2, <1>3, <1>4 DEF FullReads, LargeBuffer
  <1> QED
    BY <1>2, <1>3, <1>4, <1>5 DEF Cursor

\* Finding a candidate and extracting it settle candidates of the device at hand only.
LEMMA FindSettles == ASSUME TypeInv, FindCandidate PROVE Abstract!Settle
  <1>1. /\ OnDevice /\ OnDevice'
        /\ UNCHANGED <<disk, kills, dev, obr, firsttime, claimed>>
        /\ tested \subseteq tested' /\ \A e \in tested' \ tested : \E s, x : e = <<dev, s, x>>
    BY DEF FindCandidate, OnDevice, mainVars, fileVars
  <1> QED
    BY <1>1, SweepSettles

LEMMA ExtractSettles == ASSUME TypeInv, ExtractOutput PROVE Abstract!Settle
  <1>1. OnDevice /\ OnDevice' /\ UNCHANGED <<disk, kills, dev, obr, firsttime, tested>>
    BY ClaimFacts DEF ExtractOutput, OnDevice
  <1>2. claimed \subseteq claimed' /\ \A c \in claimed' \ claimed : c.dev = dev
    BY ClaimFacts
  <1> QED
    BY <1>1, <1>2, SweepSettles

\* Every step is a step of the sweep or changes nothing of it.
LEMMA SweepSimulated ==
    ASSUME FullReads, LargeBuffer, AllInv, MarginInv, [Next]_vars
    PROVE  [Abstract!Next]_(Abstract!vars)
<1> USE DEF mainVars, progressVars, fileVars, windowVars, loopVars, history, AllInv, Abstract!Next
<1>1. CASE OpenDevice
  BY <1>1, SweepBegins
<1>2. CASE EndOfInput
  <2>1. OnDevice /\ LeaveDevice /\ UNCHANGED <<disk, tested, claimed, kills>>
    BY <1>2 DEF EndOfInput, OnDevice
  <2> QED
    BY <1>2, <2>1, EndOfSoundDevice, SweepFinishes
<1>3. CASE LseekFails \/ ExtractFails
  <2>1. OnDevice /\ LeaveDevice /\ UNCHANGED <<disk, tested, claimed, kills>> /\ dev \in Faulty
    BY <1>3 DEF LseekFails, ExtractFails, AtRecipe, OnDevice
  <2> QED
    BY <2>1, SweepFinishes
<1>4. CASE OpenFails \/ AllDevicesDone \/ Resume
  <2>1. ~OnDevice /\ ~OnDevice' /\ UNCHANGED <<disk, tested, claimed, kills>>
    BY <1>4 DEF OpenFails, AllDevicesDone, Resume, LeaveDevice, OnDevice
  <2> QED
    BY <2>1, OffDeviceStutters
<1>5. CASE ReadBlock \/ RangePassed \/ RangeCoversWindow \/ RangeCutsFront \/ RangeLeftAlone
  <2>1. OnDevice /\ OnDevice' /\ UNCHANGED <<disk, tested, claimed, kills, dev, obr, firsttime>>
    BY <1>5 DEF ReadBlock, RangePassed, RangeCoversWindow, RangeCutsFront, RangeLeftAlone,
                AtRange, OnDevice
  <2> QED
    BY <2>1, InBlockStutters
<1>6. CASE \/ StartScanning \/ NextScanner \/ ScannersDone \/ SkipCandidate
           \/ RecipesDone \/ RecipeFails
  <2>1. OnDevice /\ OnDevice' /\ UNCHANGED <<disk, tested, claimed, kills, dev, obr, firsttime>>
    BY <1>6 DEF StartScanning, NextScanner, ScannersDone, SkipCandidate, RecipesDone,
                RecipeFails, AtRecipe, OnDevice
  <2> QED
    BY <2>1, InBlockStutters
<1>7. CASE FindCandidate \/ ExtractOutput
  BY <1>7, FindSettles, ExtractSettles
<1>8. CASE ReturnFromScan
  BY <1>8, SweepPasses
<1>9. CASE Kill
  BY <1>9, SweepInterrupts
<1>10. CASE Resting \/ UNCHANGED vars
  <2>1. UNCHANGED <<disk, tested, claimed, kills, pc, dev, obr, firsttime>>
    BY <1>10 DEF Resting, vars
  <2>2. AbstractAt' = AbstractAt /\ AbstractCursor' = AbstractCursor
    BY <2>1 DEF AbstractAt, AbstractCursor, OnDevice, Cursor, Kept
  <2> QED
    BY <2>1, <2>2, SweepStutters
<1> QED
  BY <1>1, <1>2, <1>3, <1>4, <1>5, <1>6, <1>7, <1>8, <1>9, <1>10 DEF Next, Step

LEMMA SweepStarts == Init => Abstract!Init
  <1> SUFFICES ASSUME Init PROVE Abstract!Init
    OBVIOUS
  <1>1. ~OnDevice /\ tested = {} /\ claimed = {} /\ kills = 0
    BY DEF Init, OnDevice
  <1>2. AbstractAt = 0 /\ AbstractCursor = 0
    BY <1>1 DEF AbstractAt, AbstractCursor
  <1>3. AbstractSettled = [d \in Devices |-> {}]
    BY <1>1 DEF AbstractSettled, Settled
  <1> QED
    BY <1>1, <1>2, <1>3, DevicesAre DEF Abstract!Init

\* The scanning loop implements the sweep: when reads are full and only the last device
\* may fail, no candidate of a scanner without an offset is ever passed unsettled.
THEOREM ScanImplementsSweep ==
    ASSUME FullReads, LargeBuffer, OnlyLastFails
    PROVE  Spec => ImplementsSweep
<1>1. AllInv /\ MarginInv /\ [Next]_vars => [Abstract!Next]_(Abstract!vars)
  BY SweepSimulated
<1> QED
  BY <1>1, AllInit, AllStep, SweepStarts, PTL DEF Spec, ImplementsSweep, Abstract!Spec

=============================================================================
