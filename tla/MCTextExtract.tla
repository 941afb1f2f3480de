--------------------------- MODULE MCTextExtract ---------------------------
(***************************************************************************)
(* Small instances of TextExtract.  The rules keep the shape of the table  *)
(* of make_luts: a default, unusual characters that cost, the NUL          *)
(* character that costs more than any limit, white space, letters.         *)
(***************************************************************************)
EXTENDS TextExtract

MCRules == <<
    [score |-> 0,  rep |-> 0, chars |-> {"letter", "newline", "eightbit", "nul"}],
    [score |-> 1,  rep |-> 0, chars |-> {"eightbit"}],
    [score |-> 3,  rep |-> 0, chars |-> {"nul"}],
    [score |-> -1, rep |-> 0, chars |-> {"newline"}],
    [score |-> -2, rep |-> 2, chars |-> {"letter"}] >>

MCNewlines == {"newline"}

SequencesOf(set, n) == [1..n -> set]

\* Everything of eight bytes without line ends, and shorter files with them.
MCInputs ==
    SequencesOf({"letter", "eightbit"}, 8)
    \cup SequencesOf({"letter", "eightbit", "newline"}, 5)
    \cup SequencesOf({"letter", "eightbit", "nul"}, 4)

Option(score, line, reverse, bytes) ==
    [score |-> score, block |-> 1, line |-> line, reverse |-> reverse, bytes |-> bytes]

\* The last one lets the score grow past what the buffer holds.
MCOptions == {Option(2, 0, 0, 0), Option(2, 2, 0, 0), Option(2, 0, 0, 4),
              Option(2, 0, 2, 0), Option(2, 0, 5, 2), Option(6, 0, 0, 0)}

=============================================================================
