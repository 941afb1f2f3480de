------------------------------ MODULE Safecat ------------------------------
(***************************************************************************)
(* The program safecat (src/tools/safecat.c) between its input and the     *)
(* command it is piped into.  It copies a block at a time and, after each  *)
(* block, looks at the size of the file the command produces: it stops     *)
(* when the file is large enough, when it is too far behind what went into *)
(* the command, or when it has not changed for too long.                   *)
(*                                                                         *)
(* The command runs beside it: it takes bytes out of the pipe when it      *)
(* likes, lets the file grow, shrink, vanish or appear, and may exit.      *)
(* A byte of the input is its position in it.                              *)
(*                                                                         *)
(* Some definitions are faulty variants of the one that follows them: no   *)
(* action uses them, they show what each property notices.                 *)
(***************************************************************************)
EXTENDS Integers

CONSTANTS
    BufSize,    \* bufsize
    PipeSize,   \* what the pipe holds before write blocks
    Limits,     \* the values of -d, -u and -t that are tried
    Inputs,     \* the lengths of the input
    MaxSize     \* bound: how large the file gets

Endless == -1   \* an input that does not end
Missing == -1   \* the size of a file that does not exist

ASSUME SizesAssumption ==
    BufSize \in Nat \ {0} /\ PipeSize \in Nat \ {0} /\ MaxSize \in Nat
ASSUME LimitsAssumption ==
    /\ Limits \subseteq [diff : Nat \ {0}, unchanged : Nat \ {0}, total : Nat \ {0}]
    /\ Inputs \subseteq Nat \cup {Endless}

Sizes == 0..MaxSize \cup {Missing}

VARIABLES
    pc, max,            \* where safecat is; max_diff, max_unchanged, max_total
    input, taken,       \* the length of the input, how much of it was read
    first, readCount,   \* buf_offset: the byte there; the bytes from there on
    totalIn, totalOut, inAtLastOut,
    pipe, alive,        \* bytes in the pipe; whether the command still has it open
    size,               \* the size of the file ofile
    sent,               \* history: how many bytes the pipe was given
    inAtChange, shrunk  \* history: total_in at the last change of the file; it got smaller

inputVars   == <<max, input, taken>>
blockVars   == <<first, readCount, totalIn, sent>>
statVars    == <<totalOut, inAtLastOut>>
commandVars == <<pipe, alive, size, inAtChange, shrunk>>
vars == <<pc, inputVars, blockVars, statVars, commandVars>>

Smaller(a, b) == IF a < b THEN a ELSE b

Init ==
    /\ pc = "read"
    /\ max \in Limits /\ input \in Inputs /\ taken = 0
    /\ first = 0 /\ readCount = 0 /\ sent = 0
    /\ totalIn = 0 /\ totalOut = 0 /\ inAtLastOut = 0
    /\ pipe = 0 /\ alive = TRUE
    /\ size \in {Missing, 0}
    /\ inAtChange = 0 /\ shrunk = FALSE

(***************************************************************************)
(* safecat.                                                                *)
(***************************************************************************)

AvailableOneMore == IF input = Endless THEN BufSize + 1 ELSE Smaller(input - taken, BufSize + 1)
Available == IF input = Endless THEN BufSize ELSE Smaller(input - taken, BufSize)

\* A block from where the input is, and buf_offset at its first byte.
Read ==
    /\ pc = "read"
    /\ \E n \in 1..Available : readCount' = n /\ taken' = taken + n
    /\ first' = taken
    /\ pc' = "write"
    /\ UNCHANGED <<max, input, totalIn, sent, statVars, commandVars>>

\* The end of the input, or an error.
ReadEnds ==
    /\ pc = "read"
    /\ pc' = "done"
    /\ UNCHANGED <<inputVars, blockVars, statVars, commandVars>>

\* The condition of the inner loop, after a write of n bytes.
WrittenOnce(n) == "stat"
WrittenUp(n) == IF readCount > n THEN "write" ELSE "stat"

\* One write puts some of the block into the pipe; it blocks while that is full.
Write ==
    /\ pc = "write" /\ alive
    /\ \E n \in 1..Smaller(readCount, PipeSize - pipe) :
        /\ pipe' = pipe + n
        /\ readCount' = readCount - n
        /\ first' = first + n
        /\ totalIn' = totalIn + n
        /\ sent' = sent + n
        /\ pc' = WrittenUp(n)
    /\ UNCHANGED <<inputVars, statVars, alive, size, inAtChange, shrunk>>

\* Nobody reads the pipe any more.
TriesAgain ==
    pc = "write" /\ ~alive /\ UNCHANGED vars
WriteEnds ==
    /\ pc = "write" /\ ~alive
    /\ pc' = "done"
    /\ UNCHANGED <<inputVars, blockVars, statVars, commandVars>>

\* write fails though the command is there.
WriteFails ==
    /\ pc = "write" /\ alive
    /\ pc' = "done"
    /\ UNCHANGED <<inputVars, blockVars, statVars, commandVars>>

\* The condition of the loop, after a block.
AnyLimitLeft(in, o, last) ==
    max.total > o \/ max.diff > in - o \/ max.unchanged > in - last
ReachesDiff(in, o, last) ==
    max.total > o /\ max.diff >= in - o /\ max.unchanged > in - last
WithinLimits(in, o, last) ==
    max.total > o /\ max.diff > in - o /\ max.unchanged > in - last

EveryStat(o) == totalIn
LastChange(o) == IF totalOut # o THEN totalIn ELSE inAtLastOut

Continue(o, last) ==
    /\ totalOut' = o
    /\ inAtLastOut' = last
    /\ pc' = IF WithinLimits(totalIn, o, last) THEN "read" ELSE "done"

Stat ==
    /\ pc = "stat"
    /\ IF size # Missing THEN Continue(size, LastChange(size)) ELSE Continue(0, inAtLastOut)
    /\ UNCHANGED <<inputVars, blockVars, commandVars>>

(***************************************************************************)
(* The command at the other end of the pipe.                               *)
(***************************************************************************)

CommandReads ==
    /\ alive
    /\ \E n \in 1..pipe : pipe' = pipe - n
    /\ UNCHANGED <<pc, inputVars, blockVars, statVars, alive, size, inAtChange, shrunk>>

CommandWrites ==
    /\ alive
    /\ \E new \in Sizes \ {size} :
        /\ size' = new
        /\ shrunk' = (shrunk \/ new < size)
    /\ inAtChange' = totalIn
    /\ UNCHANGED <<pc, inputVars, blockVars, statVars, pipe, alive>>

CommandExits ==
    /\ alive
    /\ alive' = FALSE
    /\ UNCHANGED <<pc, inputVars, blockVars, statVars, pipe, size, inAtChange, shrunk>>

Command == CommandReads \/ CommandWrites \/ CommandExits
Steps == Read \/ ReadEnds \/ Write \/ WriteEnds \/ Stat

Next == Steps \/ WriteFails \/ Command

\* safecat goes on unless a call blocks, and the command reads what it is sent; no
\* write has to fail.
Spec == Init /\ [][Next]_vars /\ WF_vars(Steps) /\ WF_vars(CommandReads)

(***************************************************************************)
(* Properties.                                                             *)
(***************************************************************************)

\* The variables keep their types, the pipe and the buffer their sizes.
TypeOK ==
    /\ pc \in {"read", "write", "stat", "done"}
    /\ max \in Limits /\ input \in Nat \cup {Endless}
    /\ taken \in Nat /\ (input = Endless \/ taken <= input)
    /\ first \in Nat /\ sent \in Nat /\ readCount \in 0..BufSize
    /\ totalIn \in Nat /\ totalOut \in Nat /\ inAtLastOut \in 0..totalIn
    /\ pipe \in 0..PipeSize /\ alive \in BOOLEAN
    /\ size \in Sizes
    /\ inAtChange \in 0..totalIn /\ shrunk \in BOOLEAN

\* safecat "copies verbatim": however the reads and writes are cut, what is about to
\* be written follows in the input on what was written last, and when the next block
\* is read, or the file looked at, nothing that was read is left behind.
Verbatim ==
    /\ pc = "write" => first = sent
    /\ pc \in {"read", "stat"} => taken = sent

Produced == IF size = Missing THEN 0 ELSE size

\* -d, "maximum difference between bytes in and out of the command": while the
\* file does not shrink, what went into the command is at no moment further
\* ahead of the real file than the limit and one block.
DiffBounded == ~shrunk => totalIn - Produced < max.diff + BufSize

\* -u, "maximum bytes to pipe into a command that has stopped producing output":
\* after the last real change of the file no more than the limit and two blocks
\* go into the command, the one during which it changed and the last one.
UnchangedBounded == totalIn - inAtChange < max.unchanged + 2 * BufSize

\* What is sent is bounded whatever the command does with its file, for any
\* length of the input.
TotalBounded == totalIn < max.total + max.diff + BufSize - 1

\* safecat ends, with an endless input too, if the command goes on reading or
\* exits.
Stops == <>(pc = "done")

=============================================================================
