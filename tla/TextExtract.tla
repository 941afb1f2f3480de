---------------------------- MODULE TextExtract ----------------------------
(***************************************************************************)
(* The program textextract (src/tools/textextract.c): copies the text      *)
(* around the file position of its standard input, and stops where a       *)
(* running score says that the text has ended.  read_backward looks for    *)
(* the beginning of the text, read_forward for its end, with a buffer that *)
(* is flushed up to the last letter seen when it is full.                  *)
(*                                                                         *)
(* A byte in the buffer or in the output is the file position it was read  *)
(* from.  Characters are the members of the rules' sets; the table of      *)
(* rules is a constant, a small one when the model is checked.             *)
(*                                                                         *)
(* Some definitions are faulty variants of the one that follows them: no   *)
(* action uses them, they show what each property notices.                 *)
(***************************************************************************)
EXTENDS Integers, Sequences

CONSTANTS
    Rules,       \* rules[] of make_luts: score, rep and characters of each
    Nul,         \* the character '\0'
    Newlines,    \* the characters that end a line
    Block,       \* 512, the distance of block boundaries
    BufSize,     \* bufsize
    Inputs,      \* the possible files on standard input
    Starts,      \* the file positions textextract may be started at
    Seekable,    \* whether lseek works on standard input
    Options,     \* the command lines: the values of the options
    WritesFail   \* whether a write may fail

Chars == UNION {Rules[i].chars : i \in DOMAIN Rules}

ASSUME RulesAssumption ==
    Rules \in Seq([score : Int, rep : Nat, chars : SUBSET Chars])
ASSUME InputsAssumption ==
    /\ Inputs \subseteq Seq(Chars) /\ Newlines \subseteq Chars /\ Nul \in Chars
    /\ Starts \subseteq Nat
    /\ Seekable \in BOOLEAN /\ WritesFail \in BOOLEAN
ASSUME SizesAssumption == Block \in Nat \ {0} /\ BufSize \in Nat \ {0}
ASSUME OptionsAssumption ==
    Options \subseteq [score : Nat, block : Nat, line : Nat, reverse : Nat, bytes : Nat]

Null == -1

VARIABLES
    pc,       \* where the program is
    opt,      \* its options
    input,    \* the file on standard input
    start,    \* the file position it was started at
    fdpos,    \* the file position
    buf, p,   \* the bytes read into buf; the index of the next one to inspect
    s,        \* struct scores; last_letter as an index of buf
    out,      \* what was written
    failed    \* history: a write has failed

vars == <<pc, opt, input, start, fdpos, buf, p, s, out, failed>>

Smaller(a, b) == IF a < b THEN a ELSE b
Larger(a, b)  == IF a > b THEN a ELSE b

Capacity == Larger(BufSize, opt.reverse)

(***************************************************************************)
(* make_luts and inspect_char.                                             *)
(***************************************************************************)

\* Later rules overwrite what earlier ones said of a character.
RuleOf(c) ==
    CHOOSE i \in DOMAIN Rules :
        c \in Rules[i].chars /\ \A j \in DOMAIN Rules : c \in Rules[j].chars => j <= i

scorelut == [c \in Chars |-> Rules[RuleOf(c)].score]
replut   == [c \in Chars |-> Rules[RuleOf(c)].rep]

CharAt(at) == input[at + 1]
IsLetter(c) == scorelut[c] <= 0

ScoresAtZero(offset) ==
    [last |-> Null, char |-> Nul, sum |-> 0, repeats |-> 0, line |-> 0,
     offset |-> 0, bytes |-> 0]
ScoresInit(offset) ==
    [last |-> Null, char |-> Nul, sum |-> 0, repeats |-> 0, line |-> 0,
     offset |-> offset, bytes |-> 0]

Raised(t) ==
    IF t.offset >= 0 /\ opt.block > 0 /\ t.offset % Block = 0
    THEN Larger(t.sum, opt.block) ELSE t.sum

NotClamped(t, c) == Raised(t) + scorelut[c]
SumWith(t, c) == Larger(Raised(t) + scorelut[c], 0)

\* The scores after the character c at index i.  Where inspect_char returns
\* early the fields it leaves alone are not used any more.
Inspected(t, c, i, step) ==
    [last    |-> IF IsLetter(c) THEN i ELSE t.last,
     char    |-> c,
     sum     |-> SumWith(t, c),
     repeats |-> IF t.char = c /\ replut[c] > 0 THEN t.repeats + 1 ELSE 0,
     line    |-> IF c \in Newlines \/ opt.line = 0 THEN 0 ELSE t.line + 1,
     offset  |-> IF t.offset >= 0 /\ opt.block > 0 THEN t.offset + step ELSE t.offset,
     bytes   |-> IF opt.bytes > 0 THEN t.bytes + 1 ELSE 0]

\* inspect_char returns 1.
CountsNoBytes(t) ==
    \/ t.sum > opt.score
    \/ t.repeats > replut[t.char]
    \/ opt.line > 0 /\ t.line > opt.line
StopsAt(t) ==
    \/ t.sum > opt.score
    \/ t.repeats > replut[t.char]
    \/ opt.line > 0 /\ t.line > opt.line
    \/ opt.bytes > 0 /\ t.bytes > opt.bytes

(***************************************************************************)
(* Output.                                                                 *)
(***************************************************************************)

\* write_all writes everything, or only a part of it before write fails.
WriteAll(bytes) ==
    /\ out' = out \o bytes
    /\ UNCHANGED failed
WriteFails(bytes) ==
    /\ WritesFail
    /\ \E n \in 0..Len(bytes)-1 : out' = out \o SubSeq(bytes, 1, n)
    /\ failed' = TRUE

(***************************************************************************)
(* main and do_textextract.                                                *)
(***************************************************************************)

Init ==
    /\ pc = "main"
    /\ opt \in Options
    /\ input \in Inputs
    /\ start \in Starts /\ start <= Len(input)
    /\ fdpos = start
    /\ buf = <<>> /\ p = 0
    /\ s = ScoresInit(Null)
    /\ out = <<>> /\ failed = FALSE

CannotStart ==
    /\ pc = "main"
    /\ pc' = "done"
    /\ UNCHANGED <<opt, input, start, fdpos, buf, p, s, out, failed>>

Main ==
    /\ pc = "main"
    /\ s' = ScoresInit(IF Seekable THEN fdpos ELSE Null)
    /\ pc' = IF opt.reverse > 0 THEN "backward" ELSE "read"
    /\ UNCHANGED <<opt, input, start, fdpos, buf, p, out, failed>>

\* do_textextract turns to reading forward, with the offset it has now.
GoForward(t) ==
    /\ pc' = "read"
    /\ s' = ScoresInit(t.offset)
    /\ buf' = <<>> /\ p' = 0

(***************************************************************************)
(* read_backward.                                                          *)
(***************************************************************************)

BackwardCount == Smaller(Smaller(Capacity, s.offset), opt.reverse)

NothingBefore ==
    /\ pc = "backward" /\ s.offset <= 0
    /\ GoForward(s)
    /\ UNCHANGED <<opt, input, start, fdpos, out, failed>>

ReadBackward ==
    /\ pc = "backward" /\ s.offset > 0
    /\ buf' = [i \in 1..BackwardCount |-> fdpos - BackwardCount + i - 1]
    /\ p' = BackwardCount - 1
    /\ pc' = "inspect_backward"
    /\ UNCHANGED <<opt, input, start, fdpos, s, out, failed>>

ReadBackwardFails ==
    /\ pc = "backward" /\ s.offset > 0
    /\ pc' = "done"
    /\ UNCHANGED <<opt, input, start, fdpos, buf, p, s, out, failed>>

\* What is written when the backward pass ends at index p with the scores t.
FromLetterOn(t) ==
    IF StopsAt(t) THEN IF t.last = Null THEN <<>> ELSE SubSeq(buf, t.last + 1, Len(buf))
    ELSE buf

InspectBackward ==
    LET t == Inspected(s, CharAt(buf[p + 1]), p, -1) IN
    /\ pc = "inspect_backward"
    /\ IF StopsAt(t) \/ p = 0
       THEN /\ WriteAll(FromLetterOn(t)) \/ WriteFails(FromLetterOn(t))
            /\ GoForward(t)
       ELSE /\ s' = t /\ p' = p - 1
            /\ UNCHANGED <<pc, buf, out, failed>>
    /\ UNCHANGED <<opt, input, start, fdpos>>

(***************************************************************************)
(* read_forward.                                                           *)
(***************************************************************************)

WholeBuffer == Capacity
Room == Capacity - Len(buf)

Read ==
    /\ pc = "read"
    /\ \E n \in 1..Smaller(Room, Len(input) - fdpos) :
        /\ buf' = buf \o [i \in 1..n |-> fdpos + i - 1]
        /\ fdpos' = fdpos + n
    /\ pc' = "inspect"
    /\ UNCHANGED <<opt, input, start, p, s, out, failed>>

\* read returns 0 at the end of the input, -1 on an error.
ReadEnds ==
    /\ pc = "read"
    /\ pc' = "finish"
    /\ UNCHANGED <<opt, input, start, fdpos, buf, p, s, out, failed>>

AfterLast == IF Len(buf) = Capacity THEN "flush" ELSE "read"

Inspect ==
    LET t == Inspected(s, CharAt(buf[p + 1]), p, 1) IN
    /\ pc = "inspect"
    /\ s' = t
    /\ p' = IF StopsAt(t) THEN p ELSE p + 1
    /\ pc' = IF StopsAt(t) THEN "finish"
             ELSE IF p + 1 = Len(buf) THEN AfterLast ELSE "inspect"
    /\ UNCHANGED <<opt, input, start, fdpos, buf, out, failed>>

\* The part written when the buffer is full: up to the last letter, which may
\* be the end of the text and is kept.
WithLetter == SubSeq(buf, 1, s.last + 1)
BeforeLetter == SubSeq(buf, 1, s.last)

\* The part moved to the front of the buffer.
BehindLetter == SubSeq(buf, s.last + 2, Len(buf))
FromLetter == SubSeq(buf, s.last + 1, Len(buf))

\* write_all returns 0 when there is nothing to write, and -1 on an error.
FlushFails ==
    /\ pc = "flush" /\ s.last # Null
    /\ \/ BeforeLetter = <<>> /\ UNCHANGED <<out, failed>>
       \/ WriteFails(BeforeLetter)
    /\ pc' = "done"
    /\ UNCHANGED <<opt, input, start, fdpos, buf, p, s>>

Flush ==
    /\ pc = "flush" /\ s.last # Null
    /\ BeforeLetter # <<>>
    /\ WriteAll(BeforeLetter)
    /\ buf' = FromLetter
    /\ p' = Len(FromLetter)
    /\ s' = [s EXCEPT !.last = Null]
    /\ pc' = "read"
    /\ UNCHANGED <<opt, input, start, fdpos>>

InternalError ==
    /\ pc = "flush" /\ s.last = Null
    /\ pc' = "internal_error"
    /\ UNCHANGED <<opt, input, start, fdpos, buf, p, s, out, failed>>

UpToLetter == IF s.last = Null THEN <<>> ELSE SubSeq(buf, 1, s.last + 1)

Finish ==
    /\ pc = "finish"
    /\ WriteAll(UpToLetter) \/ WriteFails(UpToLetter)
    /\ pc' = "done"
    /\ UNCHANGED <<opt, input, start, fdpos, buf, p, s>>

Next ==
    \/ Main \/ CannotStart
    \/ NothingBefore \/ ReadBackward \/ ReadBackwardFails \/ InspectBackward
    \/ Read \/ ReadEnds \/ Inspect
    \/ Flush \/ FlushFails \/ InternalError
    \/ Finish

Spec == Init /\ [][Next]_vars

(***************************************************************************)
(* Properties.                                                             *)
(***************************************************************************)

Locations == {"main", "backward", "inspect_backward", "read", "inspect", "flush",
              "finish", "internal_error", "done"}

ScoresType ==
    [last : Nat \cup {Null}, char : Chars, sum : Nat, repeats : Nat,
     line : Nat, offset : Nat \cup {Null}, bytes : Nat]

\* The variables keep their types, and the buffer is never overfull.
TypeOK ==
    /\ pc \in Locations
    /\ opt \in Options /\ input \in Inputs
    /\ start \in Nat /\ fdpos \in Nat
    /\ buf \in Seq(Nat) /\ p \in Nat /\ p <= Len(buf) /\ Len(buf) <= Capacity
    /\ s \in ScoresType
    /\ out \in Seq(Nat)
    /\ failed \in BOOLEAN

\* Unless -s asks for a score that does not fit the buffer, the branch commented
\* "buffer not big enough, this shouldn't happen" is never taken, and a flush
\* always has something to write: the score of what follows the last letter ends
\* the text before it fills the buffer.
FlushFindsLetter ==
    /\ pc = "flush" /\ Capacity > opt.score + 1 => s.last > 0
    /\ pc = "internal_error" => Capacity <= opt.score + 1

\* The output is one stretch of the input: whatever the reads return and
\* wherever the buffer fills up, no byte is left out or written twice, between
\* the backward and the forward part and at the flushes.
OutputIsOneStretch ==
    ~failed /\ out # <<>> =>
        /\ \A i \in 1..Len(out)-1 : out[i + 1] = out[i] + 1
        /\ out[1] <= start /\ start <= out[Len(out)] + 1

\* The forward part of the output, as far as it is certain.
Kept == {out[i] : i \in DOMAIN out} \ 0..start-1
\* The bytes inspected on the way forward.
Seen == IF pc \in {"main", "backward", "inspect_backward"} THEN {}
        ELSE start..(fdpos - (Len(buf) - p))-1

\* At the end every letter that was inspected is in the output; only the last
\* of them may be missing, if the buffer was flushed just before it and the
\* text ended before the next.  (When p is the byte that ended the text, it
\* may be a letter too, and is written.)
LettersKept ==
    pc = "done" /\ ~failed =>
        \A x, y \in Seen : x < y /\ IsLetter(CharAt(x)) /\ IsLetter(CharAt(y)) => x \in Kept

\* The total score of a stretch of the input, the bonus of blocks left out.
ScoreOf(first, final) ==
    LET total[x \in (first - 1)..final] ==
            IF x < first THEN 0 ELSE total[x - 1] + scorelut[CharAt(x)]
    IN  total[final]

\* No stretch of the backward or of the forward output scores more than
\* max_score, however the running sum was cut off at zero and raised on the way;
\* no line in the forward output is more than one byte longer than -l allows, and
\* it is at most one byte longer than -M allows.  (The byte that ends the text is
\* written if it is a letter.)
OutputWithinLimits ==
    /\ \A i, j \in DOMAIN out :
        i <= j /\ (out[i] >= start \/ out[j] < start) => ScoreOf(out[i], out[j]) <= opt.score
    /\ opt.line > 0 =>
        \A x \in Kept : \E y \in x..(x + opt.line + 1) : y \notin Kept \/ CharAt(y) \in Newlines
    /\ opt.bytes > 0 => \A x \in Kept : x <= start + opt.bytes

\* The position of the byte that inspect_char sees next on the way forward.
NextByte == fdpos - (Len(buf) - p)

\* Without -r the score is raised at the block boundaries of the input and
\* nowhere else, across reads and flushes.
BlocksFromStart ==
    pc \in {"read", "inspect"} /\ opt.reverse = 0 /\ opt.block > 0 /\ s.offset # Null =>
        s.offset = NextByte

\* The usage text promises it of every run: the score is raised when a block
\* boundary is crossed.  After a backward pass the offset is not the position
\* of the byte inspected next.
BlockScoreAtBoundaries ==
    pc = "inspect" /\ opt.block > 0 /\ s.offset # Null =>
        (s.offset % Block = 0 <=> NextByte % Block = 0)

=============================================================================
