--------------------------- MODULE Safecat_proofs ---------------------------
(***************************************************************************)
(* Proofs about module Safecat, for any buffer, pipe, limits, input and    *)
(* command: what safecat has sent is bounded by each of its three limits,  *)
(* and it is the input.                                                    *)
(***************************************************************************)
EXTENDS Safecat, TLAPS

(***************************************************************************)
(* Types, in parts: the Boolean variables apart from the numbers.          *)
(***************************************************************************)

Numbers ==
    /\ max \in [diff : Nat \ {0}, unchanged : Nat \ {0}, total : Nat \ {0}]
    /\ readCount \in 0..BufSize
    /\ totalIn \in Nat /\ totalOut \in Nat /\ inAtLastOut \in 0..totalIn
    /\ size \in Sizes /\ inAtChange \in 0..totalIn
    /\ pc = "stat" => readCount = 0

Others ==
    /\ pc \in {"read", "write", "stat", "done"} /\ max \in Limits
    /\ pipe \in 0..PipeSize

\* The rest of a block lies between what was sent and what was read, and outside the
\* inner loop there is none.
Positions ==
    /\ input \in Nat \cup {Endless}
    /\ taken \in Nat /\ first \in Nat /\ sent \in Nat
    /\ input = Endless \/ taken <= input
    /\ pc = "write" => first = sent /\ taken = sent + readCount
    /\ pc \in {"read", "stat"} => taken = sent

Flags == alive \in BOOLEAN /\ shrunk \in BOOLEAN

(***************************************************************************)
(* The strengthening.  Room is how much of a block may still go out before *)
(* the next look at the file.                                              *)
(***************************************************************************)

Room == IF pc = "read" THEN BufSize ELSE readCount

\* At the last look the limits were not reached.
WereWithin ==
    pc # "done" =>
        /\ totalOut < max.total
        /\ (totalIn + Room) - totalOut < max.diff + BufSize
        /\ (totalIn + Room) - inAtLastOut < max.unchanged + BufSize

\* What has not been seen of the file changed since the last look; what has been
\* seen was seen at most a block after it happened.
ChangeIsRecent ==
    /\ pc # "done" /\ totalOut # Produced => totalIn + Room <= inAtChange + BufSize
    /\ inAtLastOut <= inAtChange + BufSize

OnlyGrew == ~shrunk /\ pc # "done" => totalOut <= Produced

Bounded == DiffBounded /\ UnchangedBounded /\ TotalBounded

SafecatInv ==
    /\ Numbers /\ Others /\ Positions /\ Flags
    /\ WereWithin /\ ChangeIsRecent /\ OnlyGrew /\ Bounded

(***************************************************************************)
(* Init and the steps.                                                     *)
(***************************************************************************)

LEMMA InitHolds == Init => SafecatInv
  <1> SUFFICES ASSUME Init PROVE SafecatInv
    OBVIOUS
  <1> USE SizesAssumption, LimitsAssumption
  <1>1. Numbers
    BY DEF Init, Numbers, Sizes, Missing
  <1>2. Others /\ Positions
    BY DEF Init, Others, Positions
  <1>3. Flags
    BY Zenon DEF Init, Flags
  <1>4. Produced = 0
    BY DEF Init, Produced, Missing
  <1>5. WereWithin /\ ChangeIsRecent /\ OnlyGrew
    BY <1>1, <1>4 DEF Init, Numbers, WereWithin, ChangeIsRecent, OnlyGrew, Room
  <1>6. Bounded
    <2>1. /\ totalIn = 0 /\ inAtChange = 0 /\ BufSize \in Nat \ {0}
          /\ max.diff \in Nat \ {0} /\ max.unchanged \in Nat \ {0} /\ max.total \in Nat \ {0}
      BY <1>1 DEF Init, Numbers
    <2>2. DiffBounded
      BY <1>4, <2>1 DEF DiffBounded
    <2>3. UnchangedBounded /\ TotalBounded
      BY <2>1 DEF UnchangedBounded, TotalBounded
    <2> QED
      BY <2>2, <2>3 DEF Bounded
  <1> QED
    BY <1>1, <1>2, <1>3, <1>5, <1>6 DEF SafecatInv

\* A step that sends nothing and looks at nothing, and after which less or as much
\* may go out before the next look.
LEMMA QuietStep ==
    ASSUME SafecatInv, UNCHANGED <<max, totalIn, totalOut, inAtLastOut, size, inAtChange, shrunk>>,
           pc' = "done" \/ (pc # "done" /\ Room' \in Int /\ Room' <= Room)
    PROVE  WereWithin' /\ ChangeIsRecent' /\ OnlyGrew' /\ Bounded'
  <1> USE SizesAssumption DEF SafecatInv
  <1>1. Produced' = Produced /\ Produced \in Nat
    BY DEF Produced, Numbers, Sizes
  <1>2. Room \in Int
    BY DEF Room, Numbers
  <1>3. WereWithin'
    BY <1>2 DEF WereWithin, Numbers
  <1>4. ChangeIsRecent'
    BY <1>1, <1>2 DEF ChangeIsRecent, Numbers
  <1>5. OnlyGrew'
    BY <1>1 DEF OnlyGrew
  <1>6. Bounded'
    BY <1>1 DEF Bounded, DiffBounded, UnchangedBounded, TotalBounded
  <1> QED
    BY <1>3, <1>4, <1>5, <1>6

LEMMA ReadKeeps == ASSUME SafecatInv, Read PROVE SafecatInv'
  <1> USE SizesAssumption DEF SafecatInv
  <1> PICK n \in 1..Available : readCount' = n /\ taken' = taken + n
    BY DEF Read
  <1>1. n \in 1..BufSize /\ (input # Endless => n <= input - taken)
    BY DEF Available, Smaller, Positions
  <1>2. Numbers'
    BY <1>1 DEF Read, Numbers, statVars, commandVars
  <1>3. Others' /\ Positions'
    BY <1>1 DEF Read, Others, Positions, commandVars
  <1>4. Flags'
    BY Zenon DEF Read, Flags, commandVars
  <1>5. Room' \in Int /\ Room' <= Room
    BY <1>1 DEF Read, Room
  <1>6. WereWithin' /\ ChangeIsRecent' /\ OnlyGrew' /\ Bounded'
    BY <1>5, QuietStep DEF Read, statVars, commandVars
  <1> QED
    BY <1>2, <1>3, <1>4, <1>6

\* The end of the input, or of the command, or an error.
LEMMA EndKeeps == ASSUME SafecatInv, ReadEnds \/ WriteEnds \/ WriteFails PROVE SafecatInv'
  <1> USE SizesAssumption DEF SafecatInv
  <1>1. pc' = "done" /\ UNCHANGED <<inputVars, blockVars, statVars, commandVars>>
    BY DEF ReadEnds, WriteEnds, WriteFails
  <1>2. Numbers' /\ Others' /\ Positions'
    BY <1>1 DEF Numbers, Others, Positions, inputVars, blockVars, statVars, commandVars
  <1>3. Flags'
    BY <1>1, Zenon DEF Flags, commandVars
  <1>4. WereWithin' /\ ChangeIsRecent' /\ OnlyGrew' /\ Bounded'
    BY <1>1, QuietStep DEF inputVars, blockVars, statVars, commandVars
  <1> QED
    BY <1>2, <1>3, <1>4

\* What is written leaves the room: it is only divided otherwise.
LEMMA StillWithin ==
    ASSUME Numbers, Numbers', WereWithin, pc # "done", Room \in Nat, Room' \in Nat,
           UNCHANGED <<max, totalOut, inAtLastOut>>, totalIn' + Room' = totalIn + Room
    PROVE  WereWithin'
  <1> DEFINE before == totalIn + Room
             after  == totalIn' + Room'
  <1>1. /\ totalOut < max.total
        /\ before - totalOut < max.diff + BufSize
        /\ before - inAtLastOut < max.unchanged + BufSize
    BY DEF WereWithin
  <1>2. after = before /\ max' = max /\ totalOut' = totalOut /\ inAtLastOut' = inAtLastOut
    OBVIOUS
  <1>3. /\ totalOut' < max'.total
        /\ after - totalOut' < max'.diff + BufSize
        /\ after - inAtLastOut' < max'.unchanged + BufSize
    <2> HIDE DEF before, after
    <2> QED
      BY <1>1, <1>2
  <1> QED
    BY <1>3 DEF WereWithin

LEMMA WriteKeeps == ASSUME SafecatInv, Write PROVE SafecatInv'
  <1> USE SizesAssumption DEF SafecatInv
  <1> PICK n \in 1..Smaller(readCount, PipeSize - pipe) :
        /\ pipe' = pipe + n
        /\ readCount' = readCount - n
        /\ first' = first + n
        /\ totalIn' = totalIn + n
        /\ sent' = sent + n
        /\ pc' = IF readCount > n THEN "write" ELSE "stat"
    BY DEF Write, WrittenUp
  <1>0. pc = "write"
    BY DEF Write
  <1>1. n \in 1..readCount /\ n <= PipeSize - pipe
    BY DEF Smaller, Numbers, Others
  <1>2. UNCHANGED <<max, input, taken, totalOut, inAtLastOut, alive, size, inAtChange, shrunk>>
    BY DEF Write, inputVars, statVars
  <1>3. Numbers'
    BY <1>1, <1>2 DEF Numbers
  <1>4. Others' /\ Positions'
    <2>1. Others'
      BY <1>1, <1>2 DEF Others
    <2>2. readCount \in Nat /\ readCount' \in Nat
      BY <1>3 DEF Numbers
    <2>3. Positions'
      BY <1>0, <1>1, <1>2, <2>2 DEF Positions
    <2> QED
      BY <2>1, <2>3
  <1>5. Flags'
    BY <1>2, Zenon DEF Flags
  <1>6. totalIn' + Room' = totalIn + Room /\ pc' # "done" /\ Room \in Nat /\ Room' \in Nat
    BY <1>0, <1>1 DEF Room, Numbers
  <1>7. Produced' = Produced /\ Produced \in Nat
    BY <1>2 DEF Produced, Numbers, Sizes
  <1>8. WereWithin'
    <2>1. Numbers /\ WereWithin /\ pc # "done"
      BY <1>0
    <2>2. UNCHANGED <<max, totalOut, inAtLastOut>>
      BY <1>2
    <2> QED
      BY <1>3, <1>6, <2>1, <2>2, StillWithin
  <1>9. ChangeIsRecent'
    BY <1>0, <1>2, <1>6, <1>7 DEF ChangeIsRecent
  <1>10. OnlyGrew'
    BY <1>0, <1>2, <1>7 DEF OnlyGrew
  <1>11. Bounded'
    <2>1. totalOut \in Nat /\ totalIn' \in Nat /\ inAtLastOut \in Nat /\ inAtChange \in Nat
          /\ max.diff \in Nat /\ max.total \in Nat /\ max.unchanged \in Nat
      BY <1>2, <1>3 DEF Numbers
    <2>2. /\ totalOut < max.total
          /\ totalIn' - totalOut < max.diff + BufSize
          /\ totalIn' - inAtLastOut < max.unchanged + BufSize
      BY <1>2, <1>6, <1>8, <2>1 DEF WereWithin
    <2>3. DiffBounded'
      BY <1>2, <1>6, <1>7, <1>10, <2>1, <2>2 DEF DiffBounded, OnlyGrew
    <2>4. UnchangedBounded'
      BY <1>2, <1>9, <2>1, <2>2 DEF UnchangedBounded, ChangeIsRecent
    <2>5. TotalBounded'
      BY <1>2, <2>1, <2>2 DEF TotalBounded
    <2> QED
      BY <2>3, <2>4, <2>5 DEF Bounded
  <1> QED
    BY <1>3, <1>4, <1>5, <1>8, <1>9, <1>10, <1>11

LEMMA StatKeeps == ASSUME SafecatInv, Stat PROVE SafecatInv'
  <1> USE SizesAssumption DEF SafecatInv
  <1>1. /\ pc = "stat"
        /\ UNCHANGED <<max, input, taken, first, readCount, totalIn, sent, commandVars>>
    BY DEF Stat, inputVars, blockVars
  <1>2. Produced' = Produced /\ Produced \in Nat /\ totalOut' = Produced
    BY <1>1 DEF Stat, Continue, Produced, Numbers, Sizes, commandVars
  <1>3. \/ inAtLastOut' = inAtLastOut
        \/ inAtLastOut' = totalIn /\ totalOut # Produced
    BY DEF Stat, Continue, LastChange, Produced
  <1>4. pc' = IF WithinLimits(totalIn, totalOut', inAtLastOut') THEN "read" ELSE "done"
    BY DEF Stat, Continue
  <1>5. Numbers'
    BY <1>1, <1>2, <1>3, <1>4 DEF Numbers, commandVars
  <1>6. Others' /\ Positions'
    BY <1>1, <1>4 DEF Others, Positions, commandVars
  <1>7. Flags'
    BY <1>1, Zenon DEF Flags, commandVars
  <1>8. WereWithin'
    BY <1>1, <1>4, <1>5 DEF WereWithin, WithinLimits, Room, Numbers
  <1>9. ChangeIsRecent'
    <2>1. inAtLastOut' <= inAtChange' + BufSize
      BY <1>1, <1>3 DEF ChangeIsRecent, Room, Numbers, commandVars
    <2> QED
      BY <1>2, <2>1 DEF ChangeIsRecent
  <1>10. OnlyGrew'
    BY <1>2 DEF OnlyGrew
  <1>11. Bounded'
    BY <1>1, <1>2 DEF Bounded, DiffBounded, UnchangedBounded, TotalBounded, commandVars
  <1> QED
    BY <1>5, <1>6, <1>7, <1>8, <1>9, <1>10, <1>11

LEMMA CommandKeeps == ASSUME SafecatInv, Command PROVE SafecatInv'
  <1> USE SizesAssumption DEF SafecatInv
  <1>1. CASE CommandReads \/ CommandExits
    <2>1. UNCHANGED <<pc, inputVars, blockVars, statVars, size, inAtChange, shrunk>>
      BY <1>1 DEF CommandReads, CommandExits
    <2>2. Numbers' /\ Positions'
      BY <2>1 DEF Numbers, Positions, inputVars, blockVars, statVars
    <2>3. Others'
      BY <1>1, <2>1 DEF Others, inputVars, CommandReads, CommandExits
    <2>4. Flags'
      BY <1>1, <2>1, Zenon DEF Flags, CommandReads, CommandExits
    <2>5. pc' = pc /\ Room' = Room /\ Room \in Int
      BY <2>1 DEF Room, blockVars, Numbers
    <2>6. pc = "done" => pc' = "done"
      BY <2>5
    <2>7. WereWithin' /\ ChangeIsRecent' /\ OnlyGrew' /\ Bounded'
      BY <2>1, <2>5, <2>6, QuietStep DEF inputVars, blockVars, statVars
    <2> QED
      BY <2>2, <2>3, <2>4, <2>7
  <1>2. CASE CommandWrites
    <2> PICK new \in Sizes \ {size} : size' = new /\ shrunk' = (shrunk \/ new < size)
      BY <1>2 DEF CommandWrites
    <2>1. /\ inAtChange' = totalIn
          /\ UNCHANGED <<pc, max, input, taken, first, readCount, totalIn, sent, totalOut,
                         inAtLastOut, pipe, alive>>
      BY <1>2 DEF CommandWrites, inputVars, blockVars, statVars
    <2>2. Numbers' /\ Positions'
      BY <2>1 DEF Numbers, Positions
    <2>3. Others'
      BY <2>1 DEF Others
    <2>4. Flags'
      BY <2>1, Zenon DEF Flags
    <2>5. ~shrunk' => ~shrunk /\ ~(new < size)
      BY Zenon
    <2>6. ~shrunk' => ~shrunk /\ Produced <= Produced'
      BY <2>5 DEF Produced, Sizes, Missing, Numbers
    <2>7. Produced \in Nat /\ Produced' \in Nat
      BY <2>2 DEF Produced, Sizes, Numbers
    <2>8. Room' = Room /\ Room \in Nat /\ Room <= BufSize
      BY <2>1 DEF Room, Numbers
    <2>9. WereWithin'
      BY <2>1, <2>8 DEF WereWithin
    <2>10. ChangeIsRecent'
      BY <2>1, <2>8 DEF ChangeIsRecent, Numbers
    <2>11. OnlyGrew'
      BY <2>1, <2>6, <2>7 DEF OnlyGrew, Numbers
    <2>12. Bounded'
      BY <2>1, <2>6, <2>7 DEF Bounded, DiffBounded, UnchangedBounded, TotalBounded, Numbers
    <2> QED
      BY <2>2, <2>3, <2>4, <2>9, <2>10, <2>11, <2>12
  <1> QED
    BY <1>1, <1>2 DEF Command

LEMMA StepKeeps == ASSUME SafecatInv, [Next]_vars PROVE SafecatInv'
  <1>1. CASE UNCHANGED vars
    BY <1>1 DEF vars, inputVars, blockVars, statVars, commandVars, SafecatInv, Numbers, Others,
                Positions, Flags, WereWithin, ChangeIsRecent,
                OnlyGrew, Bounded, DiffBounded, UnchangedBounded, TotalBounded, Produced, Room
  <1> QED
    BY <1>1, ReadKeeps, EndKeeps, WriteKeeps, StatKeeps, CommandKeeps DEF Next, Steps

\* The invariant holds of every run of safecat, with any command.
THEOREM SafecatInvariant == Spec => []SafecatInv
  <1> QED
    BY InitHolds, StepKeeps, PTL DEF Spec

(***************************************************************************)
(* The theorems.                                                           *)
(***************************************************************************)

\* Every variable keeps its type: no write takes more than the pipe takes or the
\* block has, and the number of bytes sent is that of the bytes written.
THEOREM SafecatTypes == Spec => []TypeOK
  <1>1. SafecatInv => TypeOK
    BY DEF SafecatInv, Numbers, Others, Positions, Flags, TypeOK
  <1> QED
    BY <1>1, SafecatInvariant, PTL

\* Each block is sent from its first byte to its last: whatever read returns and however
\* little each write takes, no byte that was read is passed over, sent twice or left
\* behind before the next block, as long as no write fails.
THEOREM CopiedVerbatim == Spec => []Verbatim
  <1>1. SafecatInv => Verbatim
    BY DEF SafecatInv, Positions, Verbatim
  <1> QED
    BY <1>1, SafecatInvariant, PTL

\* -d: what is sent is at most a block beyond the size of a file that does not shrink.
THEOREM DiffHolds == Spec => []DiffBounded
  <1>1. SafecatInv => DiffBounded
    BY DEF SafecatInv, Bounded
  <1> QED
    BY <1>1, SafecatInvariant, PTL

\* -u: what is sent without a change of the file is at most the limit and two blocks.
THEOREM UnchangedHolds == Spec => []UnchangedBounded
  <1>1. SafecatInv => UnchangedBounded
    BY DEF SafecatInv, Bounded
  <1> QED
    BY <1>1, SafecatInvariant, PTL

\* -t together with -d bounds all that is ever sent.
THEOREM TotalHolds == Spec => []TotalBounded
  <1>1. SafecatInv => TotalBounded
    BY DEF SafecatInv, Bounded
  <1> QED
    BY <1>1, SafecatInvariant, PTL

=============================================================================
