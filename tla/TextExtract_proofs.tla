------------------------- MODULE TextExtract_proofs -------------------------
(***************************************************************************)
(* Theorems about textextract, for any table of characters, any input and  *)
(* options, and however the reads are cut: its variables keep their types, *)
(* the buffer is never full without a letter to write, what is written is  *)
(* one stretch of the input within the limits asked for, and of the        *)
(* letters inspected at most the last is missing.                          *)
(***************************************************************************)
EXTENDS TextExtract, FiniteSetTheorems, SequenceTheorems, WellFoundedInduction, TLAPS

(***************************************************************************)
(* The table: every character has a last rule, by which it is scored.      *)
(***************************************************************************)

\* A set of indices of a sequence has a greatest element.
LEMMA LastIndex ==
    ASSUME NEW n \in Nat, NEW T, T \subseteq 1..n, T # {}
    PROVE  \E i \in T : \A j \in T : j <= i
  <1> DEFINE From(i) == {j \in T : j >= i}
             Tails == {From(i) : i \in T}
  <1>0. T \subseteq Int
    OBVIOUS
  <1>1. IsFiniteSet(T)
    <2>1. IsFiniteSet(1..n)
      BY FS_Interval
    <2> QED
      BY <2>1, FS_Subset
  <1>2. Tails \subseteq FiniteSubsetsOf(T) /\ Tails # {}
    <2>1. ASSUME NEW i \in T PROVE From(i) \in SUBSET T /\ IsFiniteSet(From(i))
      BY <1>1, FS_Subset
    <2>2. ASSUME NEW U \in Tails PROVE U \in FiniteSubsetsOf(T)
      BY <2>1, <2>2 DEF FiniteSubsetsOf
    <2> QED
      BY <2>2
  <1>3. PICK U \in Tails : \A V \in Tails : ~ (<<V, U>> \in StrictSubsetOrdering(T))
    <2> HIDE DEF Tails
    <2> QED
      BY <1>2, FS_StrictSubsetOrderingWellFounded, WFMin
  <1>4. PICK i \in T : U = From(i)
    BY <1>3
  <1>5. ASSUME NEW j \in T, j > i PROVE FALSE
    <2>0. i \in Int /\ j \in Int
      BY <1>0
    <2>1. From(j) \in Tails /\ From(j) \subseteq From(i) /\ i \in From(i) /\ i \notin From(j)
      <3>1. From(j) \in Tails
        OBVIOUS
      <3>2. \A k \in T : k >= j => k >= i
        BY <1>0, <1>5, <2>0
      <3>3. i >= i /\ ~(i >= j)
        BY <1>5, <2>0
      <3> QED
        BY <3>1, <3>2, <3>3
    <2>2. <<From(j), From(i)>> \in StrictSubsetOrdering(T)
      <3>1. From(j) \in SUBSET T /\ From(i) \in SUBSET T /\ From(j) # From(i)
        BY <2>1
      <3> HIDE DEF From
      <3> QED
        BY <2>1, <3>1 DEF StrictSubsetOrdering
    <2> QED
      BY <1>3, <1>4, <2>1, <2>2
  <1> QED
    BY <1>5

LEMMA TableTypes ==
    ASSUME NEW c \in Chars
    PROVE  scorelut[c] \in Int /\ replut[c] \in Nat
  <1>1. Len(Rules) \in Nat /\ DOMAIN Rules = 1..Len(Rules)
    BY RulesAssumption, LenProperties
  <1> DEFINE T == {i \in DOMAIN Rules : c \in Rules[i].chars}
  <1>2. T \subseteq 1..Len(Rules) /\ T # {}
    BY <1>1 DEF Chars
  <1>3. PICK i \in T : \A j \in T : j <= i
    BY <1>1, <1>2, LastIndex
  <1>4. RuleOf(c) \in DOMAIN Rules
    BY <1>3 DEF RuleOf
  <1>5. Rules[RuleOf(c)] \in [score : Int, rep : Nat, chars : SUBSET Chars]
    BY <1>1, <1>4, RulesAssumption, ElementOfSeq
  <1> QED
    BY <1>5 DEF scorelut, replut

LEMMA OptionTypes ==
    ASSUME opt \in Options
    PROVE  /\ opt.score \in Nat /\ opt.block \in Nat /\ opt.line \in Nat
           /\ opt.reverse \in Nat /\ opt.bytes \in Nat
           /\ Capacity \in Nat /\ Capacity >= 1 /\ Capacity >= opt.reverse
  <1>1. opt \in [score : Nat, block : Nat, line : Nat, reverse : Nat, bytes : Nat]
    BY OptionsAssumption
  <1> QED
    BY <1>1, SizesAssumption DEF Capacity, Larger

\* A position of the input holds a character of the table.
LEMMA InputTypes ==
    ASSUME input \in Inputs, NEW x \in Nat, x < Len(input)
    PROVE  CharAt(x) \in Chars /\ Len(input) \in Nat
  <1>1. input \in Seq(Chars)
    BY InputsAssumption
  <1>2. Len(input) \in Nat
    BY <1>1, LenProperties
  <1> QED
    BY <1>1, <1>2, ElementOfSeq DEF CharAt

(***************************************************************************)
(* inspect_char.                                                           *)
(***************************************************************************)

LEMMA InspectedType ==
    ASSUME opt \in Options, NEW t \in ScoresType, NEW c \in Chars, NEW i \in Nat,
           NEW step \in {-1, 1}, step = -1 => t.offset = Null \/ t.offset >= 1
    PROVE  /\ Inspected(t, c, i, step) \in ScoresType
           /\ StopsAt(Inspected(t, c, i, step)) \in BOOLEAN
  <1>1. scorelut[c] \in Int /\ replut[c] \in Nat
    BY TableTypes
  <1>2. opt.block \in Nat /\ opt.line \in Nat /\ opt.bytes \in Nat
    BY OptionTypes
  <1>3. /\ t.last \in Nat \cup {Null} /\ t.char \in Chars /\ t.sum \in Nat /\ t.repeats \in Nat
        /\ t.line \in Nat /\ t.offset \in Nat \cup {Null} /\ t.bytes \in Nat
    BY DEF ScoresType
  <1>4. SumWith(t, c) \in Nat
    BY <1>1, <1>2, <1>3 DEF SumWith, Raised, Larger
  <1>5. (IF t.offset >= 0 /\ opt.block > 0 THEN t.offset + step ELSE t.offset) \in Nat \cup {Null}
    BY <1>2, <1>3 DEF Null
  <1>6. /\ (IF IsLetter(c) THEN i ELSE t.last) \in Nat \cup {Null}
        /\ (IF t.char = c /\ replut[c] > 0 THEN t.repeats + 1 ELSE 0) \in Nat
        /\ (IF c \in Newlines \/ opt.line = 0 THEN 0 ELSE t.line + 1) \in Nat
        /\ (IF opt.bytes > 0 THEN t.bytes + 1 ELSE 0) \in Nat
    BY <1>3
  <1>7. Inspected(t, c, i, step) \in ScoresType
    BY <1>4, <1>5, <1>6 DEF Inspected, ScoresType
  <1> QED
    BY <1>7 DEF StopsAt

\* A letter is remembered; any other character costs at least one point.
LEMMA InspectedScore ==
    ASSUME opt \in Options, NEW t \in ScoresType, NEW c \in Chars, NEW i \in Nat, NEW step
    PROVE  LET u == Inspected(t, c, i, step) IN
           /\ u.last = IF IsLetter(c) THEN i ELSE t.last
           /\ u.sum \in Nat /\ (~IsLetter(c) => u.sum >= t.sum + 1)
           /\ ~StopsAt(u) => u.sum <= opt.score
           /\ u.offset = IF t.offset >= 0 /\ opt.block > 0 THEN t.offset + step ELSE t.offset
  <1>1. scorelut[c] \in Int
    BY TableTypes
  <1>2. t.sum \in Nat /\ opt.block \in Nat /\ opt.score \in Nat
    BY OptionTypes DEF ScoresType
  <1>3. Raised(t) \in Nat /\ Raised(t) >= t.sum
    BY <1>2 DEF Raised, Larger
  <1>4. SumWith(t, c) \in Nat /\ (~IsLetter(c) => SumWith(t, c) >= t.sum + 1)
    BY <1>1, <1>2, <1>3 DEF SumWith, Larger, IsLetter
  <1> QED
    BY <1>2, <1>4 DEF Inspected, StopsAt

(***************************************************************************)
(* Stretches of the input, by the position of their first byte.            *)
(***************************************************************************)

Run(q, x) == \A i \in 1..Len(q) : q[i] = x + i - 1

LEMMA RunConcat ==
    ASSUME NEW q \in Seq(Nat), NEW r \in Seq(Nat), NEW x \in Int,
           Run(q, x), Run(r, x + Len(q))
    PROVE  q \o r \in Seq(Nat) /\ Len(q \o r) = Len(q) + Len(r) /\ Run(q \o r, x)
  <1>1. /\ q \o r \in Seq(Nat) /\ Len(q \o r) = Len(q) + Len(r)
        /\ \A i \in 1..Len(q) + Len(r) : (q \o r)[i] = IF i <= Len(q) THEN q[i] ELSE r[i - Len(q)]
    BY ConcatProperties
  <1>2. Len(q) \in Nat /\ Len(r) \in Nat
    BY LenProperties
  <1>3. ASSUME NEW i \in 1..Len(q) + Len(r) PROVE (q \o r)[i] = x + i - 1
    <2>1. CASE i <= Len(q)
      BY <1>1, <1>2, <1>3, <2>1 DEF Run
    <2>2. CASE ~(i <= Len(q))
      <3>1. i - Len(q) \in 1..Len(r)
        BY <1>2, <1>3, <2>2
      <3>2. r[i - Len(q)] = x + Len(q) + (i - Len(q)) - 1
        BY <3>1 DEF Run
      <3> QED
        BY <1>1, <1>2, <2>2, <3>2
    <2> QED
      BY <2>1, <2>2
  <1> QED
    BY <1>1, <1>3 DEF Run

LEMMA RunPart ==
    ASSUME NEW q \in Seq(Nat), NEW x \in Int, Run(q, x),
           NEW m \in Nat \ {0}, NEW n \in Nat, m <= n + 1, n <= Len(q)
    PROVE  /\ SubSeq(q, m, n) \in Seq(Nat) /\ Len(SubSeq(q, m, n)) = n - m + 1
           /\ Run(SubSeq(q, m, n), x + m - 1)
  <1>1. Len(q) \in Nat
    BY LenProperties
  <1>2. \A i \in m..n : q[i] \in Nat
    BY <1>1, ElementOfSeq
  <1>3. /\ SubSeq(q, m, n) \in Seq(Nat)
        /\ Len(SubSeq(q, m, n)) = IF m <= n THEN n - m + 1 ELSE 0
        /\ \A i \in 1..n - m + 1 : SubSeq(q, m, n)[i] = q[m + i - 1]
    BY <1>2, SubSeqProperties
  <1>4. Len(SubSeq(q, m, n)) = n - m + 1
    BY <1>3
  <1>5. ASSUME NEW i \in 1..n - m + 1 PROVE SubSeq(q, m, n)[i] = x + m - 1 + i - 1
    <2>1. m + i - 1 \in 1..Len(q)
      BY <1>1, <1>5
    <2> QED
      BY <1>3, <1>5, <2>1 DEF Run
  <1> QED
    BY <1>3, <1>4, <1>5 DEF Run

(***************************************************************************)
(* The invariant.  BufStart is the position of the first byte in the       *)
(* buffer on the way forward: what was written ends right before it.       *)
(***************************************************************************)

BufStart == fdpos - Len(buf)
Forward  == pc \in {"read", "inspect", "flush", "finish"}

BackwardPlaces ==
    /\ pc \in {"main", "backward"} => buf = <<>> /\ p = 0 /\ s.last = Null
    /\ pc \in {"main", "backward", "inspect_backward"} => out = <<>> /\ fdpos = start
    /\ pc \in {"backward", "inspect_backward"} => opt.reverse > 0
    /\ pc = "backward" => s.offset \in {Null, fdpos}
    /\ pc = "inspect_backward" =>
        p < Len(buf) /\ Len(buf) <= start /\ Run(buf, start - Len(buf)) /\ s.offset > p
ForwardPlaces ==
    /\ Forward => start <= BufStart /\ Run(buf, BufStart)
    /\ pc = "read" => p = Len(buf) /\ Len(buf) < Capacity
    /\ pc = "inspect" => p < Len(buf)
    /\ pc = "flush" => p = Len(buf) /\ Len(buf) = Capacity
Places ==
    /\ start <= fdpos /\ fdpos <= Len(input)
    /\ s.last # Null => s.last < Len(buf)
    /\ BackwardPlaces /\ ForwardPlaces

\* The characters after the last letter, or after the one kept by a flush, cost a point each.
ScoreInv ==
    /\ pc \in {"read", "inspect", "flush"} =>
        /\ s.sum <= opt.score
        /\ IF s.last = Null THEN p - 1 <= s.sum ELSE s.last < p /\ p - s.last - 1 <= s.sum
    /\ pc = "internal_error" => Capacity <= opt.score + 1

OutInv ==
    ~failed =>
        IF Forward THEN Run(out, BufStart - Len(out)) /\ BufStart - Len(out) <= start
        ELSE \E x \in Int : Run(out, x) /\ x <= start /\ start <= x + Len(out)

LetterInv ==
    /\ Forward => \A i \in 0..p-1 :
            IsLetter(CharAt(BufStart + i)) => i <= s.last \/ (s.last = Null /\ i = 0)
    /\ LettersKept

OffsetInv ==
    pc \in {"read", "inspect", "flush"} /\ opt.reverse = 0 /\ opt.block > 0 /\ s.offset # Null =>
        s.offset = NextByte

TextInv == TypeOK /\ Places /\ ScoreInv /\ OutInv /\ LetterInv /\ OffsetInv

\* The arithmetic the steps rest on.
LEMMA Numbers ==
    ASSUME TypeOK
    PROVE  /\ Len(buf) \in Nat /\ Len(out) \in Nat /\ fdpos \in Nat /\ start \in Nat /\ p \in Nat
           /\ s.last \in Nat \cup {Null} /\ s.sum \in Nat /\ s.offset \in Nat \cup {Null} /\ s.char \in Chars
           /\ opt.score \in Nat /\ opt.block \in Nat /\ opt.line \in Nat
           /\ opt.reverse \in Nat /\ opt.bytes \in Nat
           /\ Capacity \in Nat /\ Capacity >= 1 /\ Capacity >= opt.reverse
           /\ Len(input) \in Nat
  <1>1. Len(buf) \in Nat /\ Len(out) \in Nat
    BY LenProperties DEF TypeOK
  <1>2. Len(input) \in Nat
    BY InputsAssumption, LenProperties DEF TypeOK
  <1> QED
    BY <1>1, <1>2, OptionTypes DEF TypeOK, ScoresType

\* The program starts with nothing read and nothing written.
LEMMA InitHolds == Init => TextInv
  <1> SUFFICES ASSUME Init PROVE TextInv
    OBVIOUS
  <1>1. ScoresInit(Null) \in ScoresType
    BY InputsAssumption DEF ScoresInit, ScoresType
  <1>2. start \in Nat /\ <<>> \in Seq(Nat) /\ Len(<<>>) = 0
    BY InputsAssumption DEF Init
  <1>3. Len(buf) <= Capacity
    BY <1>2, OptionTypes DEF Init
  <1>4. TypeOK
    <2>1. buf \in Seq(Nat) /\ out \in Seq(Nat) /\ p <= Len(buf) /\ p \in Nat
      BY <1>2 DEF Init
    <2>2. s \in ScoresType /\ failed \in BOOLEAN /\ fdpos \in Nat /\ pc \in Locations
      BY <1>1, <1>2 DEF Init, Locations
    <2> QED
      BY <1>2, <1>3, <2>1, <2>2 DEF Init, TypeOK
  <1>5. Places
    BY <1>2 DEF Init, Places, BackwardPlaces, ForwardPlaces, Forward, ScoresInit
  <1>6. ScoreInv /\ LetterInv /\ OffsetInv
    BY DEF Init, ScoreInv, LetterInv, OffsetInv, Forward, LettersKept
  <1>7. OutInv
    <2>1. Run(out, start) /\ start <= start /\ start <= start + Len(out)
      BY <1>2 DEF Init, Run
    <2> QED
      BY <1>2, <2>1 DEF Init, OutInv, Forward
  <1> QED
    BY <1>4, <1>5, <1>6, <1>7 DEF TextInv

(***************************************************************************)
(* The beginning, and the backward pass.                                   *)
(***************************************************************************)

LEMMA FreshScores ==
    ASSUME NEW o \in Nat \cup {Null}
    PROVE  /\ ScoresInit(o) \in ScoresType /\ ScoresInit(o).last = Null
           /\ ScoresInit(o).sum = 0 /\ ScoresInit(o).offset = o
  BY InputsAssumption DEF ScoresInit, ScoresType

\* The forward pass starts at the start, behind what the backward pass has written.
LEMMA StartsForward ==
    ASSUME TypeOK, fdpos = start, fdpos <= Len(input), UNCHANGED <<opt, input, start, fdpos>>,
           NEW o \in Nat \cup {Null}, s' = ScoresInit(o),
           opt.reverse = 0 => o \in {Null, start},
           pc' = "read", buf' = <<>>, p' = 0,
           out' \in Seq(Nat), failed' \in BOOLEAN,
           ~failed' => Run(out', start - Len(out'))
    PROVE  TextInv'
  <1>1. Len(buf') = 0 /\ Len(out') \in Nat /\ Len(input) \in Nat /\ start \in Nat /\ opt.score \in Nat
        /\ opt' = opt /\ input' = input /\ start' = start /\ fdpos' = fdpos
    BY Numbers, LenProperties
  <1>2. Capacity' = Capacity /\ Capacity \in Nat /\ Capacity >= 1
    BY Numbers, <1>1 DEF Capacity
  <1>3. /\ s' \in ScoresType /\ s'.last = Null /\ s'.sum = 0 /\ s'.offset = o
    BY FreshScores
  <1>4. TypeOK'
    <2>1. buf' \in Seq(Nat) /\ p' \in Nat /\ p' <= Len(buf') /\ Len(buf') <= Capacity' /\ pc' \in Locations
      BY <1>1, <1>2 DEF Locations
    <2> QED
      BY <1>1, <1>3, <2>1 DEF TypeOK
  <1>5. BufStart' = start
    BY <1>1 DEF BufStart
  <1>6. Places'
    <2>1. Run(buf', BufStart')
      BY <1>1 DEF Run
    <2> QED
      BY <1>1, <1>2, <1>3, <1>5, <2>1 DEF Places, BackwardPlaces, ForwardPlaces, Forward
  <1>7. ScoreInv'
    BY <1>1, <1>3 DEF ScoreInv
  <1>8. OutInv'
    BY <1>1, <1>5 DEF OutInv, Forward
  <1>9. LetterInv'
    BY DEF LetterInv, LettersKept
  <1>10. OffsetInv'
    BY <1>1, <1>3 DEF OffsetInv, NextByte
  <1> QED
    BY <1>4, <1>6, <1>7, <1>8, <1>9, <1>10 DEF TextInv

LEMMA MainKeeps == ASSUME TextInv, Main PROVE TextInv'
  <1>1. /\ pc = "main" /\ fdpos = start /\ fdpos <= Len(input) /\ buf = <<>> /\ p = 0 /\ out = <<>>
        /\ UNCHANGED <<opt, input, start, fdpos, buf, p, out, failed>>
    BY DEF Main, TextInv, Places, BackwardPlaces
  <1> DEFINE o == IF Seekable THEN fdpos ELSE Null
  <1>2. /\ s' = ScoresInit(o) /\ o \in Nat \cup {Null} /\ o \in {Null, start} /\ Len(out) = 0
        /\ start \in Nat /\ Len(buf) = 0 /\ Len(input) \in Nat
    BY <1>1, Numbers DEF Main, TextInv
  <1>3. CASE opt.reverse = 0
    <2>1. pc' = "read"
      BY <1>3 DEF Main
    <2>2. Run(out', start - Len(out'))
      BY <1>1, <1>2 DEF Run
    <2>3. TypeOK
      BY DEF TextInv
    <2>4. failed' \in BOOLEAN /\ out' \in Seq(Nat)
      BY <1>1, <2>3 DEF TypeOK
    <2> HIDE DEF o
    <2> QED
      BY <1>1, <1>2, <2>1, <2>2, <2>3, <2>4, StartsForward
  <1>4. CASE opt.reverse # 0
    <2>1. pc' = "backward" /\ opt.reverse > 0
      BY <1>4, Numbers DEF Main, TextInv
    <2>2. /\ s' \in ScoresType /\ s'.last = Null /\ s'.sum = 0 /\ s'.offset = o
      BY <1>2, FreshScores
    <2> HIDE DEF o
    <2>3. TypeOK'
      BY <1>1, <2>1, <2>2 DEF TextInv, TypeOK, Capacity, Locations
    <2>4. Places'
      BY <1>1, <1>2, <2>1, <2>2 DEF TextInv, Places, BackwardPlaces, ForwardPlaces, Forward
    <2>5. ScoreInv' /\ LetterInv' /\ OffsetInv'
      BY <2>1 DEF ScoreInv, LetterInv, LettersKept, Forward, OffsetInv
    <2>6. OutInv'
      <3>1. Run(out, start) /\ start <= start /\ start <= start + Len(out) /\ start \in Int
        BY <1>1, <1>2 DEF Run
      <3> QED
        BY <1>1, <2>1, <3>1 DEF OutInv, Forward
    <2> QED
      BY <2>3, <2>4, <2>5, <2>6 DEF TextInv
  <1> QED
    BY <1>3, <1>4

\* main or do_textextract gives up before anything is written.
LEMMA GivesUpKeeps == ASSUME TextInv, CannotStart \/ ReadBackwardFails PROVE TextInv'
  <1>1. /\ pc \in {"main", "backward"} /\ pc' = "done"
        /\ UNCHANGED <<opt, input, start, fdpos, buf, p, s, out, failed>>
    BY DEF CannotStart, ReadBackwardFails
  <1>2. buf = <<>> /\ p = 0 /\ out = <<>> /\ fdpos = start /\ start \in Nat /\ Len(buf) = 0 /\ Len(out) = 0
    BY <1>1, Numbers DEF TextInv, Places, BackwardPlaces
  <1>3. TypeOK'
    BY <1>1 DEF TextInv, TypeOK, Capacity, Locations
  <1>4. Places'
    BY <1>1 DEF TextInv, Places, BackwardPlaces, ForwardPlaces, Forward
  <1>5. ScoreInv' /\ OffsetInv'
    BY <1>1 DEF ScoreInv, OffsetInv
  <1>6. OutInv'
    <2>1. Run(out, start) /\ start <= start /\ start <= start + Len(out) /\ start \in Int
      BY <1>2 DEF Run
    <2> QED
      BY <1>1, <2>1 DEF OutInv, Forward
  <1>7. LetterInv'
    <2>1. Seen' = start..start - 1
      BY <1>1, <1>2 DEF Seen
    <2>2. Seen' = {}
      BY <1>2, <2>1
    <2> QED
      BY <1>1, <2>2 DEF LetterInv, LettersKept, Forward
  <1> QED
    BY <1>3, <1>4, <1>5, <1>6, <1>7 DEF TextInv

LEMMA NothingBeforeKeeps == ASSUME TextInv, NothingBefore PROVE TextInv'
  <1>1. /\ pc = "backward" /\ pc' = "read" /\ s' = ScoresInit(s.offset) /\ buf' = <<>> /\ p' = 0
        /\ UNCHANGED <<opt, input, start, fdpos, out, failed>>
    BY DEF NothingBefore, GoForward
  <1>2. /\ TypeOK /\ fdpos = start /\ fdpos <= Len(input) /\ out = <<>> /\ s.offset \in {Null, start}
        /\ s.offset \in Nat \cup {Null} /\ start \in Nat /\ Len(out) = 0
    BY <1>1, Numbers DEF TextInv, Places, BackwardPlaces
  <1>3. Run(out', start - Len(out')) /\ out' \in Seq(Nat) /\ failed' \in BOOLEAN
    BY <1>1, <1>2 DEF Run, TypeOK
  <1> QED
    BY <1>1, <1>2, <1>3, StartsForward

LEMMA ReadBackwardKeeps == ASSUME TextInv, ReadBackward PROVE TextInv'
  <1> DEFINE n == BackwardCount
  <1>1. /\ pc = "backward" /\ s.offset > 0 /\ pc' = "inspect_backward"
        /\ buf' = [i \in 1..n |-> fdpos - n + i - 1] /\ p' = n - 1
        /\ UNCHANGED <<opt, input, start, fdpos, s, out, failed>>
    BY DEF ReadBackward
  <1>2. /\ TypeOK /\ fdpos = start /\ start \in Nat /\ fdpos <= Len(input) /\ out = <<>> /\ s.offset = start
        /\ opt.reverse \in Nat /\ opt.reverse > 0 /\ Capacity \in Nat /\ Capacity >= 1 /\ s.last = Null
        /\ Len(out) = 0 /\ Len(input) \in Nat
    BY <1>1, Numbers DEF TextInv, Places, BackwardPlaces, Null
  <1>3. n \in Nat /\ n >= 1 /\ n <= start /\ n <= Capacity
    BY <1>1, <1>2 DEF BackwardCount, Smaller
  <1> HIDE DEF n
  <1>4. buf' \in Seq(Nat) /\ Len(buf') = n /\ \A i \in 1..n : buf'[i] = start - n + i - 1
    <2>1. \A i \in 1..n : fdpos - n + i - 1 \in Nat
      BY <1>2, <1>3
    <2>2. [i \in 1..n |-> fdpos - n + i - 1] \in Seq(Nat)
      BY <1>3, <2>1, IsASeq
    <2>3. DOMAIN buf' = 1..n /\ DOMAIN buf' = 1..Len(buf')
      BY <1>1, <2>2, LenProperties
    <2>4. Len(buf') \in Nat
      BY <1>1, <2>2, LenProperties
    <2> QED
      BY <1>1, <1>2, <1>3, <2>2, <2>3, <2>4
  <1>5. TypeOK'
    <2>1. p' \in Nat /\ p' <= Len(buf') /\ Len(buf') <= Capacity' /\ pc' \in Locations
      BY <1>1, <1>2, <1>3, <1>4 DEF Capacity, Locations
    <2> QED
      BY <1>1, <1>2, <1>4, <2>1 DEF TypeOK
  <1>6. Places'
    <2>1. Run(buf', start' - Len(buf')) /\ p' < Len(buf') /\ Len(buf') <= start' /\ s'.offset > p'
      BY <1>1, <1>2, <1>3, <1>4 DEF Run
    <2>2. BackwardPlaces'
      BY <1>1, <1>2, <2>1 DEF BackwardPlaces
    <2>3. ForwardPlaces'
      BY <1>1 DEF ForwardPlaces, Forward
    <2>4. start' <= fdpos' /\ fdpos' <= Len(input') /\ s'.last = Null
      BY <1>1, <1>2
    <2> QED
      BY <2>2, <2>3, <2>4 DEF Places
  <1>7. ScoreInv' /\ LetterInv' /\ OffsetInv'
    BY <1>1 DEF ScoreInv, LetterInv, LettersKept, Forward, OffsetInv
  <1>8. OutInv'
    <2>1. Run(out, start) /\ start <= start /\ start <= start + Len(out) /\ start \in Int
      BY <1>2 DEF Run
    <2> QED
      BY <1>1, <2>1 DEF OutInv, Forward
  <1> QED
    BY <1>5, <1>6, <1>7, <1>8 DEF TextInv

\* Unless the write fails, all the bytes follow what was written before.
LEMMA WriteOutcome ==
    ASSUME out \in Seq(Nat), failed \in BOOLEAN, NEW b \in Seq(Nat), WriteAll(b) \/ WriteFails(b)
    PROVE  out' \in Seq(Nat) /\ failed' \in BOOLEAN /\ (~failed' => ~failed /\ out' = out \o b)
  <1>1. CASE WriteAll(b)
    BY <1>1, ConcatProperties DEF WriteAll
  <1>2. CASE WriteFails(b)
    <2>1. PICK n \in 0..Len(b)-1 : out' = out \o SubSeq(b, 1, n)
      BY <1>2 DEF WriteFails
    <2>2. n \in Int /\ Len(b) \in Nat /\ n <= Len(b)
      BY <2>1, LenProperties
    <2>3. \A i \in 1..n : b[i] \in Nat
      BY <2>2, ElementOfSeq
    <2>4. SubSeq(b, 1, n) \in Seq(Nat)
      BY <2>2, <2>3, SubSeqProperties
    <2> QED
      BY <1>2, <2>1, <2>4, ConcatProperties DEF WriteFails
  <1> QED
    BY <1>1, <1>2

\* A byte of the buffer is a character of the input.
LEMMA BufferShows ==
    ASSUME TypeOK, fdpos <= Len(input), NEW x \in Int, Run(buf, x), x + Len(buf) <= fdpos,
           NEW i \in Nat, i < Len(buf)
    PROVE  buf[i + 1] = x + i /\ CharAt(buf[i + 1]) \in Chars
  <1>1. i + 1 \in 1..Len(buf) /\ Len(buf) \in Nat /\ fdpos \in Nat /\ Len(input) \in Nat
    BY Numbers
  <1>2. buf[i + 1] = x + i
    BY <1>1 DEF Run
  <1>3. buf[i + 1] \in Nat
    BY <1>1, ElementOfSeq DEF TypeOK
  <1> QED
    BY <1>1, <1>2, <1>3, InputTypes DEF TypeOK

LEMMA InspectBackwardKeeps == ASSUME TextInv, InspectBackward PROVE TextInv'
  <1> DEFINE c == CharAt(buf[p + 1])
             t == Inspected(s, c, p, -1)
             b == FromLetterOn(t)
  <1>1. /\ pc = "inspect_backward" /\ UNCHANGED <<opt, input, start, fdpos>>
        /\ IF StopsAt(t) \/ p = 0
           THEN (WriteAll(b) \/ WriteFails(b)) /\ GoForward(t)
           ELSE s' = t /\ p' = p - 1 /\ UNCHANGED <<pc, buf, out, failed>>
    BY DEF InspectBackward
  <1>2. /\ TypeOK /\ fdpos = start /\ fdpos <= Len(input) /\ out = <<>> /\ opt.reverse > 0
        /\ p < Len(buf) /\ Len(buf) <= start /\ Run(buf, start - Len(buf)) /\ s.offset > p
        /\ s.last # Null => s.last < Len(buf)
    BY <1>1 DEF TextInv, Places, BackwardPlaces
  <1>3. /\ p \in Nat /\ start \in Nat /\ Len(buf) \in Nat /\ s.offset \in Nat /\ s.last \in Nat \cup {Null}
        /\ s \in ScoresType /\ opt \in Options /\ opt.reverse \in Nat /\ opt.block \in Nat /\ Len(out) = 0
    BY <1>2, Numbers DEF TypeOK, Null
  <1>4. c \in Chars
    <2>1. start - Len(buf) \in Int /\ start - Len(buf) + Len(buf) <= fdpos
      BY <1>2, <1>3
    <2> QED
      BY <1>2, <1>3, <2>1, BufferShows
  <1> HIDE DEF c
  <1>5. t \in ScoresType
    BY <1>2, <1>3, <1>4, InspectedType
  <1>6. /\ t.last = IF IsLetter(c) THEN p ELSE s.last
        /\ t.offset = IF s.offset >= 0 /\ opt.block > 0 THEN s.offset + (-1) ELSE s.offset
    BY <1>3, <1>4, InspectedScore
  <1> HIDE DEF t
  <1>7. /\ t.last \in Nat \cup {Null} /\ t.offset \in Nat /\ t.offset >= p
        /\ t.last # Null => t.last < Len(buf)
    BY <1>2, <1>3, <1>6
  <1>8. CASE StopsAt(t) \/ p = 0
    <2>1. b \in Seq(Nat) /\ Len(b) \in Nat /\ Run(b, start - Len(b))
      <3>1. CASE StopsAt(t) /\ t.last = Null
        <4>1. b = <<>> /\ Len(b) = 0 /\ <<>> \in Seq(Nat)
          BY <3>1 DEF FromLetterOn
        <4> QED
          BY <4>1 DEF Run
      <3>2. CASE StopsAt(t) /\ t.last # Null
        <4>1. b = SubSeq(buf, t.last + 1, Len(buf))
          BY <3>2 DEF FromLetterOn
        <4>2. t.last \in Nat /\ t.last < Len(buf) /\ buf \in Seq(Nat)
          BY <1>2, <1>7, <3>2 DEF TypeOK
        <4> DEFINE m == t.last + 1
                   x == start - Len(buf)
        <4>3. x \in Int /\ m \in Nat \ {0} /\ m <= Len(buf) + 1 /\ Run(buf, x) /\ Len(buf) <= Len(buf)
          <5>1. Run(buf, x)
            BY <1>2, Zenon
          <5>2. x \in Int
            BY <1>3
          <5>3. m \in Nat \ {0} /\ m <= Len(buf) + 1
            <6> HIDE DEF b
            <6> QED
              BY <1>3, <4>2
          <5>4. Len(buf) <= Len(buf)
            BY <1>3
          <5> QED
            BY <5>1, <5>2, <5>3, <5>4, Zenon
        <4> HIDE DEF m, x
        <4>4. /\ SubSeq(buf, m, Len(buf)) \in Seq(Nat) /\ Len(SubSeq(buf, m, Len(buf))) = Len(buf) - m + 1
              /\ Run(SubSeq(buf, m, Len(buf)), x + m - 1)
          BY <1>3, <4>3, <4>2, RunPart
        <4>5. /\ b \in Seq(Nat) /\ Len(b) = Len(buf) - (t.last + 1) + 1
              /\ Run(b, start - Len(buf) + (t.last + 1) - 1)
          BY <4>1, <4>4 DEF m, x
        <4>6. start - Len(buf) + (t.last + 1) - 1 = start - Len(b) /\ Len(b) \in Nat
          BY <1>3, <1>7, <3>2, <4>5
        <4> QED
          BY <4>5, <4>6
      <3>3. CASE ~StopsAt(t)
        <4>1. b = buf
          BY <3>3 DEF FromLetterOn
        <4> QED
          BY <1>2, <1>3, <4>1 DEF TypeOK
      <3> QED
        BY <3>1, <3>2, <3>3
    <2> HIDE DEF b
    <2>2. out' \in Seq(Nat) /\ failed' \in BOOLEAN /\ (~failed' => out' = <<>> \o b)
      BY <1>1, <1>2, <1>8, <2>1, WriteOutcome DEF TypeOK
    <2>3. ~failed' => Run(out', start - Len(out'))
      BY <2>1, <2>2, ConcatEmptySeq
    <2>4. pc' = "read" /\ s' = ScoresInit(t.offset) /\ buf' = <<>> /\ p' = 0
      BY <1>1, <1>8 DEF GoForward
    <2>5. t.offset \in Nat \cup {Null} /\ opt.reverse # 0
      BY <1>2, <1>3, <1>7
    <2> QED
      BY <1>1, <1>2, <2>2, <2>3, <2>4, <2>5, StartsForward
  <1>9. CASE ~(StopsAt(t) \/ p = 0)
    <2>1. /\ s' = t /\ p' = p - 1 /\ pc' = "inspect_backward"
          /\ UNCHANGED <<opt, input, start, fdpos, buf, out, failed>>
      BY <1>1, <1>9
    <2>2. TypeOK'
      <3>1. p' \in Nat /\ p' <= Len(buf') /\ Capacity' = Capacity
        BY <1>2, <1>3, <1>9, <2>1 DEF Capacity
      <3>2. s' \in ScoresType /\ pc' \in Locations
        BY <1>5, <2>1 DEF Locations
      <3>3. /\ UNCHANGED <<opt, input, start, fdpos, buf, out, failed>>
            /\ opt \in Options /\ input \in Inputs /\ start \in Nat /\ fdpos \in Nat
            /\ buf \in Seq(Nat) /\ Len(buf) <= Capacity /\ out \in Seq(Nat) /\ failed \in BOOLEAN
        BY <1>2, <2>1 DEF TypeOK
      <3> HIDE DEF b
      <3> QED
        BY <3>1, <3>2, <3>3 DEF TypeOK
    <2>3. Places'
      <3>1. BackwardPlaces'
        <4>1. p' < Len(buf) /\ t.offset > p'
          BY <1>2, <1>3, <1>7, <2>1
        <4> QED
          BY <1>2, <2>1, <4>1 DEF BackwardPlaces
      <3>2. ForwardPlaces'
        BY <2>1 DEF ForwardPlaces, Forward
      <3>3. start' <= fdpos' /\ fdpos' <= Len(input') /\ (s'.last # Null => s'.last < Len(buf'))
        BY <1>2, <1>3, <1>7, <2>1
      <3> QED
        BY <3>1, <3>2, <3>3 DEF Places
    <2>4. ScoreInv' /\ LetterInv' /\ OffsetInv'
      BY <2>1 DEF ScoreInv, LetterInv, LettersKept, Forward, OffsetInv
    <2>5. OutInv'
      <3>1. Run(out, start) /\ start <= start /\ start <= start + Len(out) /\ start \in Int
        BY <1>2, <1>3 DEF Run
      <3> QED
        BY <2>1, <3>1 DEF OutInv, Forward
    <2> QED
      BY <2>2, <2>3, <2>4, <2>5 DEF TextInv
  <1> QED
    BY <1>8, <1>9

(***************************************************************************)
(* The forward pass.                                                       *)
(***************************************************************************)

\* What holds on the way forward.
LEMMA ForwardFacts ==
    ASSUME TextInv, Forward
    PROVE  /\ TypeOK /\ BufStart \in Nat /\ start <= BufStart /\ Run(buf, BufStart)
           /\ BufStart + Len(buf) = fdpos /\ fdpos <= Len(input)
           /\ NextByte = BufStart + p
  <1>1. TypeOK /\ start <= BufStart /\ Run(buf, BufStart) /\ fdpos <= Len(input)
    BY DEF TextInv, Places, ForwardPlaces
  <1>2. start \in Nat /\ fdpos \in Nat /\ Len(buf) \in Nat /\ p \in Nat
    BY <1>1, Numbers
  <1> QED
    BY <1>1, <1>2 DEF BufStart, NextByte

LEMMA ReadKeeps == ASSUME TextInv, Read PROVE TextInv'
  <1>1. pc = "read" /\ Forward /\ pc' = "inspect" /\ UNCHANGED <<opt, input, start, p, s, out, failed>>
    BY DEF Read, Forward
  <1>2. PICK n \in 1..Smaller(Room, Len(input) - fdpos) :
            buf' = buf \o [i \in 1..n |-> fdpos + i - 1] /\ fdpos' = fdpos + n
    BY DEF Read
  <1>3. /\ TypeOK /\ BufStart \in Nat /\ start <= BufStart /\ Run(buf, BufStart)
        /\ BufStart + Len(buf) = fdpos /\ fdpos <= Len(input)
    BY <1>1, ForwardFacts
  <1>4. /\ Len(buf) \in Nat /\ fdpos \in Nat /\ Len(input) \in Nat /\ Capacity \in Nat /\ p \in Nat
        /\ start \in Nat /\ s.last \in Nat \cup {Null} /\ s.sum \in Nat /\ opt.score \in Nat
    BY <1>3, Numbers
  <1>5. n \in Nat /\ n >= 1 /\ n <= Capacity - Len(buf) /\ n <= Len(input) - fdpos
    BY <1>2, <1>4 DEF Room, Smaller
  <1>6. buf' \in Seq(Nat) /\ Len(buf') = Len(buf) + n /\ Run(buf', BufStart)
    <2> DEFINE r == [i \in 1..n |-> fdpos + i - 1]
    <2>1. r \in Seq(Nat)
      <3>1. \A i \in 1..n : fdpos + i - 1 \in Nat
        BY <1>4, <1>5
      <3> QED
        BY <1>5, <3>1, IsASeq
    <2>2. Len(r) = n
      <3>1. DOMAIN r = 1..n /\ DOMAIN r = 1..Len(r) /\ Len(r) \in Nat
        BY <2>1, LenProperties
      <3> QED
        BY <1>5, <3>1
    <2>3. Run(r, BufStart + Len(buf))
      BY <1>3, <1>5, <2>2 DEF Run
    <2>4. buf \in Seq(Nat) /\ BufStart \in Int
      BY <1>3 DEF TypeOK
    <2>5. buf' = buf \o r
      BY <1>2
    <2> HIDE DEF r
    <2> QED
      BY <1>3, <2>1, <2>2, <2>3, <2>4, <2>5, RunConcat
  <1>7. BufStart' = BufStart /\ Capacity' = Capacity
    BY <1>1, <1>2, <1>3, <1>4, <1>5, <1>6 DEF BufStart, Capacity
  <1>8. TypeOK'
    <2>1. fdpos' \in Nat /\ p' <= Len(buf') /\ Len(buf') <= Capacity' /\ pc' \in Locations
      BY <1>1, <1>2, <1>3, <1>4, <1>5, <1>6, <1>7 DEF TypeOK, Locations
    <2> QED
      BY <1>1, <1>3, <1>6, <2>1 DEF TypeOK
  <1>9. Places'
    <2>1. start' <= fdpos' /\ fdpos' <= Len(input') /\ (s'.last # Null => s'.last < Len(buf'))
      <3>1. s.last # Null => s.last < Len(buf)
        BY DEF TextInv, Places
      <3> QED
        BY <1>1, <1>2, <1>3, <1>4, <1>5, <1>6, <3>1
    <2>2. p = Len(buf)
      BY <1>1 DEF TextInv, Places, ForwardPlaces
    <2>3. ForwardPlaces'
      BY <1>1, <1>3, <1>4, <1>5, <1>6, <1>7, <2>2 DEF ForwardPlaces
    <2>4. BackwardPlaces'
      BY <1>1 DEF BackwardPlaces
    <2> QED
      BY <2>1, <2>3, <2>4 DEF Places
  <1>10. ScoreInv'
    BY <1>1 DEF TextInv, ScoreInv
  <1>11. OutInv'
    BY <1>1, <1>7 DEF TextInv, OutInv, Forward
  <1>12. LetterInv'
    BY <1>1, <1>7 DEF TextInv, LetterInv, LettersKept, Forward, CharAt
  <1>13. OffsetInv'
    <2>1. NextByte' = NextByte
      BY <1>1, <1>2, <1>4, <1>5, <1>6 DEF NextByte
    <2> QED
      BY <1>1, <2>1 DEF TextInv, OffsetInv
  <1> QED
    BY <1>8, <1>9, <1>10, <1>11, <1>12, <1>13 DEF TextInv

LEMMA ReadEndsKeeps == ASSUME TextInv, ReadEnds PROVE TextInv'
  <1>1. /\ pc = "read" /\ Forward /\ pc' = "finish"
        /\ UNCHANGED <<opt, input, start, fdpos, buf, p, s, out, failed>>
    BY DEF ReadEnds, Forward
  <1>2. TypeOK'
    BY <1>1 DEF TextInv, TypeOK, Capacity, Locations
  <1>3. Places'
    BY <1>1 DEF TextInv, Places, BackwardPlaces, ForwardPlaces, Forward, BufStart
  <1>4. ScoreInv' /\ OffsetInv'
    BY <1>1 DEF ScoreInv, OffsetInv
  <1>5. OutInv' /\ LetterInv'
    BY <1>1 DEF TextInv, OutInv, LetterInv, LettersKept, Forward, BufStart, CharAt
  <1> QED
    BY <1>2, <1>3, <1>4, <1>5 DEF TextInv

LEMMA InspectKeeps == ASSUME TextInv, Inspect PROVE TextInv'
  <1> DEFINE c == CharAt(buf[p + 1])
             t == Inspected(s, c, p, 1)
  <1>1. /\ pc = "inspect" /\ Forward /\ s' = t /\ p' = IF StopsAt(t) THEN p ELSE p + 1
        /\ pc' = IF StopsAt(t) THEN "finish" ELSE IF p + 1 = Len(buf) THEN AfterLast ELSE "inspect"
        /\ UNCHANGED <<opt, input, start, fdpos, buf, out, failed>>
    BY DEF Inspect, Forward
  <1>2. /\ TypeOK /\ BufStart \in Nat /\ start <= BufStart /\ Run(buf, BufStart)
        /\ BufStart + Len(buf) = fdpos /\ fdpos <= Len(input) /\ NextByte = BufStart + p
    BY <1>1, ForwardFacts
  <1>3. /\ Len(buf) \in Nat /\ fdpos \in Nat /\ start \in Nat /\ p \in Nat /\ Capacity \in Nat
        /\ s.last \in Nat \cup {Null} /\ s.sum \in Nat /\ opt.score \in Nat /\ opt.block \in Nat
        /\ s.offset \in Nat \cup {Null} /\ s \in ScoresType /\ opt \in Options
    BY <1>2, Numbers DEF TypeOK
  <1>4. p < Len(buf) /\ Len(buf) <= Capacity /\ (s.last # Null => s.last < Len(buf))
    BY <1>1 DEF TextInv, TypeOK, Places, ForwardPlaces
  <1>5. c \in Chars /\ buf[p + 1] = BufStart + p
    <2>1. BufStart \in Int /\ BufStart + Len(buf) <= fdpos
      BY <1>2, <1>3
    <2> QED
      BY <1>2, <1>3, <1>4, <2>1, BufferShows
  <1>6. IsLetter(c) <=> IsLetter(CharAt(BufStart + p))
    BY <1>5
  <1> HIDE DEF c
  <1>7. t \in ScoresType /\ StopsAt(t) \in BOOLEAN
    BY <1>3, <1>5, InspectedType
  <1>8. /\ t.last = IF IsLetter(c) THEN p ELSE s.last
        /\ t.sum \in Nat /\ (~IsLetter(c) => t.sum >= s.sum + 1)
        /\ ~StopsAt(t) => t.sum <= opt.score
        /\ t.offset = IF s.offset >= 0 /\ opt.block > 0 THEN s.offset + 1 ELSE s.offset
    BY <1>3, <1>5, InspectedScore
  <1> HIDE DEF t
  <1>9. /\ pc' \in {"finish", "read", "flush", "inspect"}
        /\ pc' = "finish" <=> StopsAt(t)
        /\ pc' = "inspect" => p + 1 # Len(buf)
        /\ pc' = "read" => p + 1 = Len(buf) /\ Len(buf) # Capacity
        /\ pc' = "flush" => p + 1 = Len(buf) /\ Len(buf) = Capacity
    BY <1>1, <1>7 DEF AfterLast
  <1>10. BufStart' = BufStart /\ Capacity' = Capacity
    BY <1>1 DEF BufStart, Capacity
  <1>11. p' \in Nat /\ p' <= Len(buf) /\ (pc' # "finish" => p' = p + 1)
    BY <1>1, <1>3, <1>4, <1>9
  <1>12. TypeOK'
    <2>1. s' \in ScoresType /\ pc' \in Locations
      BY <1>1, <1>7, <1>9 DEF Locations
    <2> QED
      BY <1>1, <1>2, <1>10, <1>11, <2>1 DEF TypeOK
  <1>13. Places'
    <2>1. s'.last # Null => s'.last < Len(buf')
      BY <1>1, <1>3, <1>4, <1>8
    <2>2. start' <= fdpos' /\ fdpos' <= Len(input')
      BY <1>1, <1>2, <1>3
    <2>3. BackwardPlaces'
      BY <1>9 DEF BackwardPlaces
    <2>4. ForwardPlaces'
      <3>1. pc' = "read" => p' = Len(buf') /\ Len(buf') < Capacity'
        BY <1>1, <1>3, <1>4, <1>9, <1>10, <1>11
      <3>2. pc' = "inspect" => p' < Len(buf')
        BY <1>1, <1>3, <1>4, <1>9, <1>11
      <3>3. pc' = "flush" => p' = Len(buf') /\ Len(buf') = Capacity'
        BY <1>1, <1>9, <1>10, <1>11
      <3>4. start' <= BufStart' /\ Run(buf', BufStart')
        BY <1>1, <1>2, <1>10
      <3> QED
        BY <3>1, <3>2, <3>3, <3>4 DEF ForwardPlaces
    <2> QED
      BY <2>1, <2>2, <2>3, <2>4 DEF Places
  <1>14. ScoreInv'
    <2>1. CASE StopsAt(t)
      BY <1>9, <2>1 DEF ScoreInv
    <2>2. CASE ~StopsAt(t)
      <3>1. s.sum <= opt.score /\ IF s.last = Null THEN p - 1 <= s.sum ELSE s.last < p /\ p - s.last - 1 <= s.sum
        BY <1>1 DEF TextInv, ScoreInv
      <3>2. t.sum <= opt.score /\ p' = p + 1 /\ pc' # "internal_error"
        BY <1>8, <1>9, <1>11, <2>2
      <3>3. CASE IsLetter(c)
        <4>1. t.last = p /\ t.last # Null
          BY <1>3, <1>8, <3>3 DEF Null
        <4>2. t.last < p' /\ p' - t.last - 1 <= t.sum
          BY <1>3, <1>8, <3>2, <4>1
        <4> QED
          BY <1>1, <3>2, <4>1, <4>2 DEF ScoreInv
      <3>4. CASE ~IsLetter(c)
        <4>1. t.last = s.last /\ t.sum >= s.sum + 1
          BY <1>8, <3>4
        <4>2. IF t.last = Null THEN p' - 1 <= t.sum ELSE t.last < p' /\ p' - t.last - 1 <= t.sum
          <5> DEFINE l == s.last
                     m == s.sum
                     k == t.sum
          <5>1. /\ l \in Int /\ m \in Int /\ k \in Int /\ p \in Int /\ k >= m + 1 /\ p' = p + 1
                /\ t.last = l /\ (IF l = Null THEN p - 1 <= m ELSE l < p /\ p - l - 1 <= m)
            BY <1>3, <1>8, <3>1, <3>2, <4>1 DEF Null
          <5> HIDE DEF l, m, k
          <5>2. IF l = Null THEN (p + 1) - 1 <= k ELSE l < p + 1 /\ (p + 1) - l - 1 <= k
            BY <5>1
          <5> QED
            BY <5>1, <5>2 DEF k
        <4> QED
          BY <1>1, <3>2, <4>2 DEF ScoreInv
      <3> QED
        BY <3>3, <3>4
    <2> QED
      BY <2>1, <2>2
  <1>15. OutInv'
    BY <1>1, <1>9, <1>10 DEF TextInv, OutInv, Forward
  <1>16. LetterInv'
    <2>1. ASSUME NEW i \in 0..p'-1, IsLetter(CharAt(BufStart + i))
          PROVE  i <= t.last \/ (t.last = Null /\ i = 0)
      <3>1. i \in Nat /\ (i < p \/ i = p)
        BY <1>1, <1>3, <2>1
      <3>2. CASE i < p
        <4>1. i <= s.last \/ (s.last = Null /\ i = 0)
          BY <1>1, <1>3, <2>1, <3>1, <3>2 DEF TextInv, LetterInv
        <4> QED
          BY <1>3, <1>8, <3>1, <3>2, <4>1 DEF Null
      <3>3. CASE i = p
        BY <1>3, <1>6, <1>8, <2>1, <3>3
      <3> QED
        BY <3>1, <3>2, <3>3
    <2>2. LettersKept'
      BY <1>9 DEF LettersKept
    <2> QED
      BY <1>1, <1>10, <2>1, <2>2 DEF LetterInv, CharAt
  <1>17. OffsetInv'
    <2>1. ASSUME pc' # "finish" PROVE NextByte' = NextByte + 1
      BY <1>1, <1>3, <1>11, <2>1 DEF NextByte
    <2> QED
      BY <1>1, <1>3, <1>8, <2>1 DEF TextInv, OffsetInv, Null
  <1> QED
    BY <1>12, <1>13, <1>14, <1>15, <1>16, <1>17 DEF TextInv

\* The bytes up to the one before index n of the buffer, and the others.
LEMMA BufferParts ==
    ASSUME TypeOK, Run(buf, BufStart), BufStart \in Nat, NEW n \in Nat, n <= Len(buf)
    PROVE  /\ SubSeq(buf, 1, n) \in Seq(Nat) /\ Len(SubSeq(buf, 1, n)) = n
           /\ Run(SubSeq(buf, 1, n), BufStart)
           /\ SubSeq(buf, n + 1, Len(buf)) \in Seq(Nat)
           /\ Len(SubSeq(buf, n + 1, Len(buf))) = Len(buf) - n
           /\ Run(SubSeq(buf, n + 1, Len(buf)), BufStart + n)
  <1>1. buf \in Seq(Nat) /\ Len(buf) \in Nat
    BY Numbers DEF TypeOK
  <1>2. /\ SubSeq(buf, 1, n) \in Seq(Nat) /\ Len(SubSeq(buf, 1, n)) = n - 1 + 1
        /\ Run(SubSeq(buf, 1, n), BufStart + 1 - 1)
    BY <1>1, RunPart
  <1>3. n + 1 \in Nat \ {0} /\ n + 1 <= Len(buf) + 1 /\ Len(buf) <= Len(buf) /\ BufStart \in Int
    BY <1>1
  <1> DEFINE m == n + 1
  <1>4. m \in Nat \ {0} /\ m <= Len(buf) + 1
    BY <1>3
  <1> HIDE DEF m
  <1>5. /\ SubSeq(buf, m, Len(buf)) \in Seq(Nat) /\ Len(SubSeq(buf, m, Len(buf))) = Len(buf) - m + 1
        /\ Run(SubSeq(buf, m, Len(buf)), BufStart + m - 1)
    BY <1>1, <1>3, <1>4, RunPart
  <1>6. BufStart + 1 - 1 = BufStart /\ n - 1 + 1 = n
    OBVIOUS
  <1>7. Len(buf) - m + 1 = Len(buf) - n /\ BufStart + m - 1 = BufStart + n
    BY <1>1 DEF m
  <1> QED
    BY <1>2, <1>5, <1>6, <1>7 DEF m

LEMMA FlushKeeps == ASSUME TextInv, Flush PROVE TextInv'
  <1>1. /\ pc = "flush" /\ Forward /\ pc' = "read" /\ s.last # Null
        /\ BeforeLetter # <<>> /\ WriteAll(BeforeLetter)
        /\ buf' = FromLetter /\ p' = Len(FromLetter) /\ s' = [s EXCEPT !.last = Null]
        /\ UNCHANGED <<opt, input, start, fdpos>>
    BY DEF Flush, Forward
  <1>2. /\ TypeOK /\ BufStart \in Nat /\ start <= BufStart /\ Run(buf, BufStart)
        /\ BufStart + Len(buf) = fdpos /\ fdpos <= Len(input) /\ NextByte = BufStart + p
    BY <1>1, ForwardFacts
  <1>3. /\ Len(buf) \in Nat /\ fdpos \in Nat /\ start \in Nat /\ p \in Nat /\ Capacity \in Nat
        /\ s.last \in Nat /\ s.sum \in Nat /\ opt.score \in Nat /\ Len(out) \in Nat
        /\ out \in Seq(Nat) /\ failed \in BOOLEAN /\ s \in ScoresType
    BY <1>1, <1>2, Numbers DEF TypeOK
  <1>4. p = Len(buf) /\ Len(buf) = Capacity /\ s.last < Len(buf)
    BY <1>1 DEF TextInv, Places, ForwardPlaces
  <1>5. /\ BeforeLetter \in Seq(Nat) /\ Len(BeforeLetter) = s.last /\ Run(BeforeLetter, BufStart)
        /\ FromLetter \in Seq(Nat) /\ Len(FromLetter) = Len(buf) - s.last
        /\ Run(FromLetter, BufStart + s.last)
    <2> DEFINE n == s.last
    <2>1. n \in Nat /\ n <= Len(buf)
      BY <1>3, <1>4
    <2> HIDE DEF n
    <2>2. /\ SubSeq(buf, 1, n) \in Seq(Nat) /\ Len(SubSeq(buf, 1, n)) = n
          /\ Run(SubSeq(buf, 1, n), BufStart)
          /\ SubSeq(buf, n + 1, Len(buf)) \in Seq(Nat)
          /\ Len(SubSeq(buf, n + 1, Len(buf))) = Len(buf) - n
          /\ Run(SubSeq(buf, n + 1, Len(buf)), BufStart + n)
      BY <1>2, <2>1, BufferParts
    <2> QED
      BY <2>2 DEF BeforeLetter, FromLetter, n
  <1>6. s.last >= 1
    <2>1. s.last = 0 => BeforeLetter = <<>>
      BY <1>5, EmptySeq
    <2> QED
      BY <1>1, <1>3, <2>1
  <1>7. /\ Len(buf') = Len(buf) - s.last /\ BufStart' = BufStart + s.last /\ Capacity' = Capacity
        /\ Run(buf', BufStart')
    <2>1. Len(buf') = Len(buf) - s.last
      BY <1>1, <1>5
    <2>2. BufStart' = BufStart + s.last
      <3>1. fdpos' - Len(buf') = fdpos - Len(buf) + s.last
        BY <1>1, <1>3, <2>1
      <3> QED
        BY <3>1 DEF BufStart
    <2>3. Capacity' = Capacity
      BY <1>1 DEF Capacity
    <2>4. Run(buf', BufStart')
      BY <1>1, <1>5, <2>2
    <2> QED
      BY <2>1, <2>2, <2>3, <2>4
  <1>8. s' \in ScoresType /\ s'.last = Null /\ s'.sum = s.sum /\ s'.offset = s.offset
    BY <1>1, <1>3 DEF ScoresType
  <1>9. out' \in Seq(Nat) /\ failed' \in BOOLEAN /\ (~failed' => ~failed /\ out' = out \o BeforeLetter)
    BY <1>1, <1>3, <1>5, WriteOutcome
  <1>10. TypeOK'
    <2>1. buf' \in Seq(Nat) /\ p' = Len(buf') /\ pc' \in Locations
      BY <1>1, <1>5 DEF Locations
    <2>2. p' \in Nat /\ p' <= Len(buf') /\ Len(buf') <= Capacity'
      <3> DEFINE k == Len(buf')
      <3>1. k \in Nat /\ k <= Capacity
        BY <1>3, <1>4, <1>7
      <3> HIDE DEF k
      <3> QED
        BY <1>7, <2>1, <3>1 DEF k
    <2> QED
      BY <1>1, <1>2, <1>8, <1>9, <2>1, <2>2 DEF TypeOK
  <1>11. Places'
    <2>1. p' = Len(buf') /\ Len(buf') < Capacity' /\ start' <= BufStart'
      BY <1>1, <1>2, <1>3, <1>4, <1>6, <1>7
    <2>2. ForwardPlaces'
      BY <1>1, <1>7, <2>1 DEF ForwardPlaces
    <2>3. BackwardPlaces'
      BY <1>1 DEF BackwardPlaces
    <2>4. start' <= fdpos' /\ fdpos' <= Len(input') /\ s'.last = Null
      BY <1>1, <1>2, <1>8 DEF TextInv, Places
    <2> QED
      BY <2>2, <2>3, <2>4 DEF Places
  <1>12. ScoreInv'
    <2>1. s.sum <= opt.score /\ p - s.last - 1 <= s.sum
      BY <1>1 DEF TextInv, ScoreInv
    <2>2. p' - 1 <= s'.sum /\ s'.sum <= opt'.score
      BY <1>1, <1>3, <1>4, <1>5, <1>8, <2>1
    <2> QED
      BY <1>1, <1>8, <2>2 DEF ScoreInv
  <1>13. OutInv'
    <2>1. ASSUME ~failed'
          PROVE  Run(out', BufStart' - Len(out')) /\ BufStart' - Len(out') <= start'
      <3> DEFINE x == BufStart - Len(out)
      <3>1. Run(out, x) /\ x <= start
        BY <1>1, <1>9, <2>1 DEF TextInv, OutInv
      <3>2. x \in Int /\ x + Len(out) = BufStart
        BY <1>2, <1>3
      <3> HIDE DEF x
      <3> DEFINE b == BeforeLetter
      <3>3. b \in Seq(Nat) /\ Len(b) = s.last /\ Run(b, x + Len(out)) /\ out' = out \o b
        BY <1>5, <1>9, <2>1, <3>2
      <3> HIDE DEF b
      <3>4. Len(out') = Len(out) + s.last /\ Run(out', x)
        BY <1>3, <3>1, <3>2, <3>3, RunConcat
      <3>5. BufStart' - Len(out') = x
        <4> DEFINE l == s.last
                   m == Len(out)
        <4>1. BufStart' = BufStart + l /\ Len(out') = m + l
          BY <1>7, <3>4
        <4>2. x \in Int /\ m \in Int /\ l \in Int /\ x + m = BufStart
          BY <1>3, <3>2
        <4> HIDE DEF l, m
        <4> QED
          BY <4>1, <4>2
      <3> QED
        BY <1>1, <3>1, <3>4, <3>5
    <2> QED
      BY <1>1, <2>1 DEF OutInv, Forward
  <1>14. LetterInv'
    <2>1. ASSUME NEW i \in 0..p'-1, IsLetter(CharAt(BufStart' + i)) PROVE i = 0
      <3>1. i \in Nat /\ s.last + i \in 0..p-1 /\ BufStart' + i = BufStart + (s.last + i)
        <4>1. p' = p - s.last
          BY <1>1, <1>4, <1>5
        <4>2. i \in Nat /\ i <= p - s.last - 1
          BY <1>3, <1>4, <2>1, <4>1
        <4>3. s.last + i \in 0..p-1
          BY <1>3, <4>2
        <4> DEFINE l == s.last
                   B == BufStart
        <4>4. l \in Nat /\ B \in Nat /\ BufStart' = B + l
          BY <1>2, <1>3, <1>7
        <4> HIDE DEF l, B
        <4>5. (B + l) + i = B + (l + i)
          BY <4>2, <4>4
        <4> QED
          BY <4>2, <4>3, <4>4, <4>5 DEF l, B
      <3>2. s.last + i <= s.last
        BY <1>1, <2>1, <3>1 DEF TextInv, LetterInv
      <3> QED
        BY <1>3, <3>1, <3>2
    <2>2. LettersKept'
      BY <1>1 DEF LettersKept
    <2> QED
      BY <1>1, <1>8, <2>1, <2>2 DEF LetterInv, CharAt
  <1>15. OffsetInv'
    <2>1. NextByte' = NextByte
      BY <1>1, <1>2, <1>3, <1>4, <1>5, <1>7 DEF NextByte, BufStart
    <2> QED
      BY <1>1, <1>8, <2>1 DEF TextInv, OffsetInv
  <1> QED
    BY <1>10, <1>11, <1>12, <1>13, <1>14, <1>15 DEF TextInv

\* Of the letters inspected in the buffer, all but the last are before index n.
Covers(n) ==
    \A i, j \in 0..p-1 :
        i < j /\ IsLetter(CharAt(BufStart + i)) /\ IsLetter(CharAt(BufStart + j)) => i < n

\* Unless the write fails, the bytes before index n of the buffer are written.
WritesBefore(n) == ~failed' => ~failed /\ out' = out \o SubSeq(buf, 1, n)

\* The forward pass ends: what is written now ends before the byte at n.
LEMMA EndKeeps ==
    ASSUME TextInv, Forward, pc' \in {"done", "internal_error"},
           UNCHANGED <<opt, input, start, fdpos, buf, p, s>>,
           out' \in Seq(Nat), failed' \in BOOLEAN,
           NEW n \in Nat, n <= Len(buf),
           WritesBefore(n),
           pc' = "internal_error" => Capacity <= opt.score + 1,
           pc' = "done" => Covers(n)
    PROVE  TextInv'
  <1>1. /\ TypeOK /\ BufStart \in Nat /\ start <= BufStart /\ Run(buf, BufStart)
        /\ BufStart + Len(buf) = fdpos /\ fdpos <= Len(input) /\ NextByte = BufStart + p
    BY ForwardFacts
  <1>2. /\ Len(buf) \in Nat /\ fdpos \in Nat /\ start \in Nat /\ p \in Nat /\ Len(out) \in Nat
        /\ out \in Seq(Nat)
    BY <1>1, Numbers DEF TypeOK
  <1>3. TypeOK'
    BY <1>1 DEF TypeOK, Capacity, Locations
  <1>4. Places'
    BY DEF TextInv, Places, BackwardPlaces, ForwardPlaces, Forward
  <1>5. ScoreInv' /\ OffsetInv'
    BY DEF ScoreInv, OffsetInv, Capacity
  <1>6. ASSUME ~failed'
        PROVE  \E x \in Int : /\ x <= start /\ Run(out', x) /\ Len(out') = Len(out) + n
                              /\ x + Len(out') = BufStart + n
    <2> DEFINE x == BufStart - Len(out)
               b == SubSeq(buf, 1, n)
    <2>1. Run(out, x) /\ x <= start
      BY <1>6 DEF TextInv, OutInv, WritesBefore
    <2>2. x \in Int /\ x + Len(out) = BufStart
      BY <1>1, <1>2
    <2>3. b \in Seq(Nat) /\ Len(b) = n /\ Run(b, BufStart) /\ out' = out \o b
      BY <1>1, <1>6, BufferParts DEF WritesBefore
    <2> HIDE DEF x, b
    <2>4. Len(out') = Len(out) + n /\ Run(out', x)
      BY <1>2, <2>1, <2>2, <2>3, RunConcat
    <2>5. x + Len(out') = BufStart + n
      <3> DEFINE L == Len(out)
                 B == BufStart
      <3>1. L \in Nat /\ B \in Nat /\ x + L = B /\ Len(out') = L + n
        BY <1>1, <1>2, <2>2, <2>4
      <3> HIDE DEF L, B
      <3>2. x + (L + n) = B + n
        BY <2>2, <3>1
      <3> QED
        BY <3>1, <3>2 DEF B
    <2> QED
      BY <2>1, <2>2, <2>4, <2>5
  <1>7. OutInv'
    <2>1. ASSUME ~failed' PROVE \E x \in Int : Run(out', x) /\ x <= start' /\ start' <= x + Len(out')
      BY <1>1, <1>2, <1>6, <2>1
    <2> QED
      BY <2>1 DEF OutInv, Forward
  <1>8. LetterInv'
    <2>1. ASSUME pc' = "done", ~failed', NEW y \in Seen', NEW z \in Seen', y < z,
                 IsLetter(CharAt(y)), IsLetter(CharAt(z))
          PROVE  y \in Kept'
      <3>1. y \in Nat /\ z \in Nat /\ start <= y /\ y < BufStart + p /\ z < BufStart + p
        <4>1. Seen' = start..(BufStart + p)-1
          BY <1>1, <2>1 DEF Seen, NextByte
        <4> QED
          BY <1>1, <1>2, <2>1, <4>1
      <3>2. y < BufStart + n
        <4>1. CASE y < BufStart
          BY <1>1, <3>1, <4>1
        <4>2. CASE y >= BufStart
          <5>1. /\ y - BufStart \in 0..p-1 /\ z - BufStart \in 0..p-1 /\ y - BufStart < z - BufStart
                /\ BufStart + (y - BufStart) = y /\ BufStart + (z - BufStart) = z
            BY <1>1, <1>2, <2>1, <3>1, <4>2
          <5>2. y - BufStart < n
            BY <2>1, <5>1 DEF Covers
          <5> QED
            BY <1>1, <3>1, <5>2
        <4> QED
          BY <1>1, <3>1, <4>1, <4>2
      <3>3. PICK x \in Int : x <= start /\ Run(out', x) /\ x + Len(out') = BufStart + n
        BY <1>6, <2>1
      <3>4. Len(out') \in Nat /\ DOMAIN out' = 1..Len(out')
        BY LenProperties
      <3>5. y - x + 1 \in 1..Len(out') /\ x + (y - x + 1) - 1 = y
        BY <1>1, <1>2, <3>1, <3>2, <3>3, <3>4
      <3>6. out'[y - x + 1] = y
        BY <3>3, <3>5 DEF Run
      <3>7. y \notin 0..start-1
        BY <1>2, <3>1
      <3> QED
        BY <3>4, <3>5, <3>6, <3>7 DEF Kept
    <2>2. LettersKept'
      BY <2>1 DEF LettersKept, CharAt
    <2> QED
      BY <2>2 DEF LetterInv, Forward
  <1> QED
    BY <1>3, <1>4, <1>5, <1>7, <1>8 DEF TextInv

LEMMA FlushFailsKeeps == ASSUME TextInv, FlushFails PROVE TextInv'
  <1>1. /\ pc = "flush" /\ Forward /\ pc' = "done" /\ s.last # Null
        /\ (BeforeLetter = <<>> /\ UNCHANGED <<out, failed>>) \/ WriteFails(BeforeLetter)
        /\ UNCHANGED <<opt, input, start, fdpos, buf, p, s>>
    BY DEF FlushFails, Forward
  <1>2. TypeOK /\ BufStart \in Nat /\ Run(buf, BufStart)
    BY <1>1, ForwardFacts
  <1>3. /\ s.last \in Nat /\ p \in Nat /\ out \in Seq(Nat) /\ failed \in BOOLEAN /\ s.last < Len(buf)
        /\ Len(buf) \in Nat
    BY <1>1, <1>2, Numbers DEF TextInv, TypeOK, Places
  <1>4. BeforeLetter \in Seq(Nat) /\ Len(BeforeLetter) = s.last
    <2> DEFINE n == s.last
    <2>1. n \in Nat /\ n <= Len(buf)
      BY <1>3
    <2> HIDE DEF n
    <2>2. SubSeq(buf, 1, n) \in Seq(Nat) /\ Len(SubSeq(buf, 1, n)) = n
      BY <1>2, <2>1, BufferParts
    <2> QED
      BY <2>2 DEF BeforeLetter, n
  <1>5. CASE BeforeLetter = <<>> /\ UNCHANGED <<out, failed>>
    <2>1. s.last = 0
      BY <1>4, <1>5, EmptySeq
    <2>2. SubSeq(buf, 1, 0) = <<>> /\ out' = out \o <<>>
      BY <1>3, <1>5, SubSeqEmpty, ConcatEmptySeq
    <2>3. WritesBefore(0)
      BY <1>5, <2>2 DEF WritesBefore
    <2>4. Covers(0)
      <3>1. ASSUME NEW j \in 0..p-1, IsLetter(CharAt(BufStart + j)) PROVE j <= 0
        BY <1>1, <2>1, <3>1 DEF TextInv, LetterInv
      <3> QED
        BY <1>3, <3>1 DEF Covers
    <2>5. out' \in Seq(Nat) /\ failed' \in BOOLEAN /\ pc' # "internal_error"
      BY <1>1, <1>3, <1>5
    <2> QED
      BY <1>1, <1>3, <2>3, <2>4, <2>5, EndKeeps
  <1>6. CASE WriteFails(BeforeLetter)
    <2>1. out' \in Seq(Nat) /\ failed' \in BOOLEAN
      BY <1>3, <1>4, <1>6, WriteOutcome
    <2>2. failed'
      BY <1>6 DEF WriteFails
    <2>3. TypeOK'
      BY <1>1, <1>2, <2>1 DEF TypeOK, Capacity, Locations
    <2>4. Places'
      BY <1>1 DEF TextInv, Places, BackwardPlaces, ForwardPlaces, Forward
    <2>5. ScoreInv' /\ OffsetInv' /\ OutInv' /\ LetterInv'
      BY <1>1, <2>2 DEF ScoreInv, OffsetInv, OutInv, LetterInv, LettersKept, Forward
    <2> QED
      BY <2>3, <2>4, <2>5 DEF TextInv
  <1> QED
    BY <1>1, <1>5, <1>6

\* The buffer can only be full without a letter where -s allows as many other characters.
LEMMA InternalErrorKeeps == ASSUME TextInv, InternalError PROVE TextInv'
  <1>1. /\ pc = "flush" /\ Forward /\ pc' = "internal_error" /\ s.last = Null
        /\ UNCHANGED <<opt, input, start, fdpos, buf, p, s, out, failed>>
    BY DEF InternalError, Forward
  <1>2. TypeOK
    BY DEF TextInv
  <1>3. /\ Len(buf) \in Nat /\ out \in Seq(Nat) /\ failed \in BOOLEAN /\ Capacity \in Nat /\ opt.score \in Nat
        /\ s.sum \in Nat
    BY <1>2, Numbers DEF TypeOK
  <1>4. Capacity <= opt.score + 1
    <2>1. p = Capacity /\ s.sum <= opt.score /\ p - 1 <= s.sum
      BY <1>1 DEF TextInv, Places, ForwardPlaces, ScoreInv
    <2> QED
      BY <1>3, <2>1
  <1>5. SubSeq(buf, 1, 0) = <<>> /\ out' = out \o <<>>
    BY <1>1, <1>3, SubSeqEmpty, ConcatEmptySeq
  <1>6. WritesBefore(0)
    BY <1>1, <1>5 DEF WritesBefore
  <1>7. out' \in Seq(Nat) /\ failed' \in BOOLEAN /\ pc' # "done"
    BY <1>1, <1>3
  <1> QED
    BY <1>1, <1>3, <1>4, <1>6, <1>7, EndKeeps

LEMMA FinishKeeps == ASSUME TextInv, Finish PROVE TextInv'
  <1>1. /\ pc = "finish" /\ Forward /\ pc' = "done"
        /\ WriteAll(UpToLetter) \/ WriteFails(UpToLetter)
        /\ UNCHANGED <<opt, input, start, fdpos, buf, p, s>>
    BY DEF Finish, Forward
  <1>2. TypeOK /\ BufStart \in Nat /\ Run(buf, BufStart)
    BY <1>1, ForwardFacts
  <1>3. /\ s.last \in Nat \cup {Null} /\ p \in Nat /\ out \in Seq(Nat) /\ failed \in BOOLEAN
        /\ Len(buf) \in Nat /\ (s.last # Null => s.last < Len(buf))
    BY <1>1, <1>2, Numbers DEF TextInv, TypeOK, Places
  <1> DEFINE n == s.last + 1
  <1>4. n \in Nat /\ n <= Len(buf) /\ (s.last = Null => n = 0) /\ (s.last # Null => n = s.last + 1)
    BY <1>3 DEF Null
  <1>5. UpToLetter = SubSeq(buf, 1, n)
    BY <1>3, <1>4, SubSeqEmpty DEF UpToLetter
  <1>6. Covers(n)
    <2>1. ASSUME NEW j \in 0..p-1, IsLetter(CharAt(BufStart + j))
          PROVE  j <= s.last \/ (s.last = Null /\ j = 0)
      BY <1>1, <2>1 DEF TextInv, LetterInv
    <2>2. ASSUME NEW i \in 0..p-1, NEW j \in 0..p-1, i < j, IsLetter(CharAt(BufStart + i)),
                 IsLetter(CharAt(BufStart + j))
          PROVE  i < n
      <3>1. j \in Nat /\ i \in Nat /\ j # 0
        BY <1>3, <2>2
      <3>2. j <= s.last /\ s.last \in Int
        BY <1>3, <2>1, <2>2, <3>1 DEF Null
      <3> QED
        BY <2>2, <3>1, <3>2
    <2> HIDE DEF n
    <2> QED
      BY <2>2 DEF Covers
  <1> HIDE DEF n
  <1>7. SubSeq(buf, 1, n) \in Seq(Nat)
    BY <1>2, <1>4, BufferParts
  <1>8. out' \in Seq(Nat) /\ failed' \in BOOLEAN /\ WritesBefore(n)
    BY <1>1, <1>3, <1>5, <1>7, WriteOutcome DEF WritesBefore
  <1> QED
    BY <1>1, <1>4, <1>6, <1>8, EndKeeps

\* Every step keeps the invariant.
LEMMA NextKeeps == ASSUME TextInv, [Next]_vars PROVE TextInv'
  <1>1. CASE UNCHANGED vars
    <2>1. UNCHANGED <<pc, opt, input, start, fdpos, buf, p, s, out, failed>>
      BY <1>1 DEF vars
    <2>2. BufStart' = BufStart /\ Capacity' = Capacity /\ (Forward' <=> Forward) /\ NextByte' = NextByte
          /\ Seen' = Seen /\ Kept' = Kept
      BY <2>1 DEF BufStart, Capacity, Forward, NextByte, Seen, Kept
    <2>3. TypeOK' /\ Places'
      BY <2>1, <2>2 DEF TextInv, TypeOK, Places, BackwardPlaces, ForwardPlaces
    <2>4. ScoreInv' /\ OffsetInv' /\ OutInv'
      BY <2>1, <2>2 DEF TextInv, ScoreInv, OffsetInv, OutInv
    <2>5. LetterInv'
      BY <2>1, <2>2 DEF TextInv, LetterInv, LettersKept, CharAt
    <2> QED
      BY <2>3, <2>4, <2>5 DEF TextInv
  <1>2. CASE Main \/ CannotStart
    BY <1>2, MainKeeps, GivesUpKeeps
  <1>3. CASE NothingBefore \/ ReadBackward \/ ReadBackwardFails \/ InspectBackward
    BY <1>3, NothingBeforeKeeps, ReadBackwardKeeps, GivesUpKeeps, InspectBackwardKeeps
  <1>4. CASE Read \/ ReadEnds \/ Inspect
    BY <1>4, ReadKeeps, ReadEndsKeeps, InspectKeeps
  <1>5. CASE Flush \/ FlushFails \/ InternalError \/ Finish
    BY <1>5, FlushKeeps, FlushFailsKeeps, InternalErrorKeeps, FinishKeeps
  <1> QED
    BY <1>1, <1>2, <1>3, <1>4, <1>5 DEF Next

(***************************************************************************)
(* Scores of stretches.  What the recursion of ScoreOf computes is a       *)
(* difference of running totals, those of the whole input.                 *)
(***************************************************************************)

\* A set of naturals that holds 0 and the successor of each member holds all.
LEMMA SetInduction ==
    ASSUME NEW P, 0 \in P, \A n \in Nat : n \in P => n + 1 \in P
    PROVE  Nat \subseteq P
  <1> DEFINE R == OpToRel(<, Nat)
             T == Nat \ P
  <1>1. IsWellFoundedOn(R, Nat)
    BY NatLessThanWellFounded
  <1>2. \A x, y \in Nat : x < y => <<x, y>> \in R
    BY DEF OpToRel
  <1> HIDE DEF R
  <1> SUFFICES ASSUME T # {} PROVE FALSE
    OBVIOUS
  <1>3. PICK x \in T : \A y \in T : ~(<<y, x>> \in R)
    BY <1>1, WFMin
  <1>4. x \in Nat /\ x # 0 /\ x - 1 \in Nat /\ x - 1 < x /\ (x - 1) + 1 = x
    BY <1>3
  <1>5. x - 1 \in P
    BY <1>2, <1>3, <1>4
  <1> QED
    BY <1>3, <1>4, <1>5

\* g holds the running totals of the first n characters of t.
Totals(g, t, n) ==
    g \in [Nat -> Int] /\ g[0] = 0 /\ \A k \in Nat : k < n => g[k + 1] = g[k] + scorelut[t[k + 1]]
Sums(t) == CHOOSE g : Totals(g, t, Len(t))

\* The total score of the characters from position x to position y.
Cost(t, x, y) == Sums(t)[y + 1] - Sums(t)[x]

LEMMA SumsAreTotals ==
    ASSUME NEW t \in Inputs
    PROVE  Totals(Sums(t), t, Len(t)) /\ \A k \in Nat : k < Len(t) => scorelut[t[k + 1]] \in Int
  <1>1. t \in Seq(Chars) /\ Len(t) \in Nat
    BY InputsAssumption, LenProperties
  <1>2. ASSUME NEW k \in Nat, k < Len(t) PROVE scorelut[t[k + 1]] \in Int
    <2>1. t[k + 1] \in Chars
      BY <1>1, <1>2, ElementOfSeq
    <2> QED
      BY <2>1, TableTypes
  <1> DEFINE P == {n \in Nat : n <= Len(t) => \E g : Totals(g, t, n)}
  <1>3. 0 \in P
    <2>1. Totals([k \in Nat |-> 0], t, 0)
      BY DEF Totals
    <2> QED
      BY <2>1
  <1>4. ASSUME NEW n \in Nat, n \in P PROVE n + 1 \in P
    <2> SUFFICES ASSUME n + 1 <= Len(t) PROVE \E g : Totals(g, t, n + 1)
      OBVIOUS
    <2>1. PICK g : Totals(g, t, n)
      BY <1>1, <1>4
    <2> DEFINE h == [g EXCEPT ![n + 1] = g[n] + scorelut[t[n + 1]]]
    <2>2. g \in [Nat -> Int] /\ scorelut[t[n + 1]] \in Int
      <3>1. n \in Nat /\ n < Len(t)
        BY <1>1
      <3>2. g \in [Nat -> Int]
        BY <2>1 DEF Totals
      <3> QED
        BY <1>2, <3>1, <3>2
    <2>3. h \in [Nat -> Int] /\ h[0] = 0
      BY <2>1, <2>2 DEF Totals
    <2>4. ASSUME NEW k \in Nat, k < n + 1 PROVE h[k + 1] = h[k] + scorelut[t[k + 1]]
      <3>1. h[k] = g[k]
        BY <2>2, <2>4
      <3>2. CASE k = n
        BY <2>2, <3>1, <3>2
      <3>3. CASE k # n
        <4>1. k < n /\ k + 1 # n + 1
          BY <2>4, <3>3
        <4> QED
          BY <2>1, <2>2, <3>1, <4>1 DEF Totals
      <3> QED
        BY <3>2, <3>3
    <2> HIDE DEF h
    <2>5. Totals(h, t, n + 1)
      BY <2>3, <2>4 DEF Totals
    <2> QED
      BY <2>5
  <1> HIDE DEF P
  <1>5. Len(t) \in P
    BY <1>1, <1>3, <1>4, SetInduction
  <1>6. \E g : Totals(g, t, Len(t))
    BY <1>1, <1>5 DEF P
  <1> QED
    BY <1>2, <1>6 DEF Sums

\* ScoreOf computes the score of a stretch of the input.
LEMMA ScoreIsCost ==
    ASSUME input \in Inputs, NEW first \in Nat, NEW final \in Nat,
           first <= final, final < Len(input)
    PROVE  ScoreOf(first, final) = Cost(input, first, final)
  <1> DEFINE D == (first - 1)..final
             Solves(f) == f = [x \in D |-> IF x < first THEN 0 ELSE f[x - 1] + scorelut[CharAt(x)]]
             G == Sums(input)
             h == [x \in D |-> IF x < first THEN 0 ELSE G[x + 1] - G[first]]
             T == CHOOSE f : Solves(f)
  <1>0. Len(input) \in Nat
    BY InputsAssumption, LenProperties
  <1>1. /\ G \in [Nat -> Int]
        /\ \A k \in Nat : k < Len(input) =>
              G[k + 1] = G[k] + scorelut[CharAt(k)] /\ scorelut[CharAt(k)] \in Int
    BY SumsAreTotals DEF Totals, CharAt
  <1> HIDE DEF G
  <1>2. Solves(h)
    <2>1. ASSUME NEW x \in D, ~(x < first) PROVE h[x] = h[x - 1] + scorelut[CharAt(x)]
      <3>1. x \in Nat /\ x < Len(input) /\ x - 1 \in D
        BY <1>0, <2>1
      <3>2. h[x] = G[x + 1] - G[first]
        BY <2>1
      <3>3. h[x - 1] = IF x - 1 < first THEN 0 ELSE G[x] - G[first]
        BY <3>1
      <3>4. x - 1 < first => x = first
        BY <2>1, <3>1
      <3>5. h[x - 1] = G[x] - G[first]
        BY <1>1, <3>1, <3>3, <3>4
      <3>6. G[x + 1] = G[x] + scorelut[CharAt(x)] /\ scorelut[CharAt(x)] \in Int
        BY <1>1, <3>1
      <3>7. G[x] \in Int /\ G[first] \in Int
        BY <1>1, <3>1
      <3> HIDE DEF h
      <3> QED
        BY <3>2, <3>5, <3>6, <3>7
    <2>2. ASSUME NEW x \in D PROVE h[x] = IF x < first THEN 0 ELSE h[x - 1] + scorelut[CharAt(x)]
      BY <2>1
    <2>3. h = [x \in D |-> h[x]]
      OBVIOUS
    <2> HIDE DEF h, D
    <2> QED
      BY <2>2, <2>3
  <1>3. Solves(T)
    <2> HIDE DEF h, Solves
    <2> QED
      BY <1>2
  <1>4. ScoreOf(first, final) = T[final]
    BY DEF ScoreOf
  <1>5. \A x \in D : T[x] = IF x < first THEN 0 ELSE T[x - 1] + scorelut[CharAt(x)]
    <2> HIDE DEF T, D
    <2> QED
      BY <1>3
  <1> HIDE DEF T
  <1> DEFINE P == {n \in Nat : first + n <= final => T[first + n] = G[first + n + 1] - G[first]}
  <1>6. 0 \in P
    <2>1. T[first] = T[first - 1] + scorelut[CharAt(first)] /\ T[first - 1] = 0
      BY <1>5
    <2>2. G[first + 1] = G[first] + scorelut[CharAt(first)] /\ scorelut[CharAt(first)] \in Int
      BY <1>0, <1>1
    <2>3. first + 0 = first /\ G[first] \in Int
      BY <1>1
    <2> QED
      BY <2>1, <2>2, <2>3
  <1>7. ASSUME NEW n \in Nat, n \in P PROVE n + 1 \in P
    <2> SUFFICES ASSUME first + (n + 1) <= final
                 PROVE  T[first + (n + 1)] = G[first + (n + 1) + 1] - G[first]
      OBVIOUS
    <2> DEFINE x == first + n + 1
    <2>1. x \in D /\ ~(x < first) /\ x - 1 = first + n /\ x = first + (n + 1) /\ x \in Nat /\ x < Len(input)
      BY <1>0
    <2>2. T[first + n] = G[x] - G[first]
      BY <1>7, <2>1
    <2>3. T[x] = T[first + n] + scorelut[CharAt(x)]
      BY <1>5, <2>1
    <2>4. G[x + 1] = G[x] + scorelut[CharAt(x)] /\ scorelut[CharAt(x)] \in Int /\ G[x] \in Int /\ G[first] \in Int
      BY <1>1, <2>1
    <2> HIDE DEF x
    <2>5. T[x] = G[x + 1] - G[first]
      BY <2>2, <2>3, <2>4
    <2> QED
      BY <2>1, <2>5
  <1> HIDE DEF P
  <1>8. final - first \in P /\ first + (final - first) = final
    BY <1>6, <1>7, SetInduction
  <1>9. T[final] = G[final + 1] - G[first]
    BY <1>8 DEF P
  <1> QED
    BY <1>4, <1>9 DEF Cost, G

(***************************************************************************)
(* The limits, by the first byte of a part of the input t and the byte n   *)
(* behind it.                                                              *)
(***************************************************************************)

\* No stretch scores more than max; none that ends with the part; none that begins it.
StretchesLimited(max, t, first, n) ==
    \A x, y \in Nat : first <= x /\ x <= y /\ y < n => Cost(t, x, y) <= max
EndsLimited(max, t, first, n) ==
    \A x \in Nat : first <= x /\ x < n => Cost(t, x, n - 1) <= max
StartsLimited(max, t, first, n) ==
    \A y \in Nat : first <= y /\ y < n => Cost(t, first, y) <= max

\* Every line that has ended is short enough; the one that has not has run bytes so far.
LineRuns(max, t, first, n, run) ==
    /\ run <= max
    /\ \A x \in Nat : first <= x /\ x < n - run =>
           \E y \in Nat : x <= y /\ y <= x + max /\ y < n /\ t[y + 1] \in Newlines
\* No line is more than one byte too long, even if the byte n belongs to it.
LinesFit(max, t, first, n) ==
    \A x \in Nat : first <= x /\ x < n =>
        \E y \in Nat : x <= y /\ y <= x + max + 1 /\ (y > n \/ (y < n /\ t[y + 1] \in Newlines))

LEMMA Costs ==
    ASSUME NEW t \in Inputs, NEW n \in Nat, n < Len(t)
    PROVE  /\ scorelut[t[n + 1]] \in Int
           /\ \A x \in Nat : Cost(t, x, n) = Cost(t, x, n - 1) + scorelut[t[n + 1]]
           /\ \A y \in Nat : Cost(t, n, y) = scorelut[t[n + 1]] + Cost(t, n + 1, y)
           /\ Cost(t, n, n) = scorelut[t[n + 1]]
           /\ \A x, y \in Nat : Cost(t, x, y) \in Int /\ Cost(t, x, n - 1) \in Int
  <1> DEFINE G == Sums(t)
             w == scorelut[t[n + 1]]
  <1>1. G \in [Nat -> Int] /\ G[n + 1] = G[n] + w /\ w \in Int
    BY SumsAreTotals DEF Totals
  <1>2. \A x \in Nat : G[x] \in Int /\ G[x + 1] \in Int
    BY <1>1
  <1>3. n \in Nat /\ (n - 1) + 1 = n
    OBVIOUS
  <1>4. \A x, y \in Nat : Cost(t, x, y) = G[y + 1] - G[x]
    BY DEF Cost
  <1>5. \A x \in Nat : Cost(t, x, n - 1) = G[n] - G[x]
    BY <1>3 DEF Cost
  <1>6. \A y \in Nat : Cost(t, n + 1, y) = G[y + 1] - G[n + 1]
    BY DEF Cost
  <1> HIDE DEF G, w
  <1>7. w \in Int
    BY <1>1
  <1>8. \A x \in Nat : Cost(t, x, n) = Cost(t, x, n - 1) + w
    <2>1. ASSUME NEW x \in Nat PROVE Cost(t, x, n) = Cost(t, x, n - 1) + w
      <3>1. Cost(t, x, n) = G[n + 1] - G[x] /\ Cost(t, x, n - 1) = G[n] - G[x]
        BY <1>4, <1>5
      <3>2. G[n + 1] = G[n] + w /\ G[n] \in Int /\ G[x] \in Int
        BY <1>1, <1>2
      <3> QED
        BY <1>7, <3>1, <3>2
    <2> QED
      BY <2>1
  <1>9. ASSUME NEW y \in Nat PROVE Cost(t, n, y) = w + Cost(t, n + 1, y)
    <2>1. Cost(t, n, y) = G[y + 1] - G[n] /\ Cost(t, n + 1, y) = G[y + 1] - G[n + 1]
      BY <1>4, <1>6
    <2>2. G[y + 1] \in Int /\ G[n] \in Int /\ G[n + 1] \in Int
      BY <1>2
    <2> QED
      BY <1>1, <2>1, <2>2
  <1>10. Cost(t, n, n) = w
    BY <1>1, <1>2, <1>4
  <1>11. ASSUME NEW x \in Nat, NEW y \in Nat
         PROVE  Cost(t, x, y) \in Int /\ Cost(t, x, n - 1) \in Int
    <2>1. Cost(t, x, y) = G[y + 1] - G[x] /\ Cost(t, x, n - 1) = G[n] - G[x]
      BY <1>4, <1>5
    <2>2. G[y + 1] \in Int /\ G[n] \in Int /\ G[x] \in Int
      BY <1>2
    <2> QED
      BY <2>1, <2>2
  <1> QED
    BY <1>7, <1>8, <1>9, <1>10, <1>11 DEF w

\* One byte more at the end, and what that makes of the running score.
LEMMA EndsGrow ==
    ASSUME NEW t \in Inputs, NEW first \in Nat, NEW n \in Nat, n < Len(t),
           NEW m \in Nat, NEW k \in Int, k >= m + scorelut[t[n + 1]],
           EndsLimited(m, t, first, n)
    PROVE  EndsLimited(k, t, first, n + 1)
  <1>1. /\ scorelut[t[n + 1]] \in Int
        /\ \A x \in Nat : Cost(t, x, n) = Cost(t, x, n - 1) + scorelut[t[n + 1]]
        /\ Cost(t, n, n) = scorelut[t[n + 1]]
        /\ \A x \in Nat : Cost(t, x, n - 1) \in Int
    BY Costs
  <1>2. ASSUME NEW x \in Nat, first <= x, x < n + 1 PROVE Cost(t, x, n) <= k
    <2>1. CASE x = n
      <3>1. Cost(t, x, n) = scorelut[t[n + 1]] /\ scorelut[t[n + 1]] \in Int
        BY <1>1, <2>1
      <3> QED
        BY <3>1
    <2>2. CASE x # n
      <3>1. Cost(t, x, n - 1) <= m
        BY <1>2, <2>2 DEF EndsLimited
      <3>2. Cost(t, x, n) = Cost(t, x, n - 1) + scorelut[t[n + 1]] /\ Cost(t, x, n - 1) \in Int
        BY <1>1
      <3> DEFINE d == Cost(t, x, n - 1)
                 w == scorelut[t[n + 1]]
      <3>3. d \in Int /\ w \in Int /\ d <= m /\ Cost(t, x, n) = d + w /\ k >= m + w
        BY <1>1, <3>1, <3>2
      <3> HIDE DEF d, w
      <3> QED
        BY <3>3
    <2> QED
      BY <2>1, <2>2
  <1>3. (n + 1) - 1 = n
    OBVIOUS
  <1> QED
    BY <1>2, <1>3 DEF EndsLimited

LEMMA StretchesGrow ==
    ASSUME NEW t \in Inputs, NEW first \in Nat, NEW n \in Nat, NEW max \in Nat,
           StretchesLimited(max, t, first, n), EndsLimited(max, t, first, n + 1)
    PROVE  StretchesLimited(max, t, first, n + 1)
  <1>1. ASSUME NEW x \in Nat, NEW y \in Nat, first <= x, x <= y, y < n + 1
        PROVE  Cost(t, x, y) <= max
    <2>1. CASE y = n
      <3>1. x < n + 1 /\ (n + 1) - 1 = n
        BY <1>1, <2>1
      <3> QED
        BY <1>1, <2>1, <3>1 DEF EndsLimited
    <2>2. CASE y # n
      BY <1>1, <2>2 DEF StretchesLimited
    <2> QED
      BY <2>1, <2>2
  <1> QED
    BY <1>1 DEF StretchesLimited

\* The same at the front, on the way back.
LEMMA StartsGrow ==
    ASSUME NEW t \in Inputs, NEW first \in Nat, NEW n \in Nat, first < Len(t),
           NEW m \in Nat, NEW k \in Int, k >= m + scorelut[t[first + 1]],
           StartsLimited(m, t, first + 1, n)
    PROVE  StartsLimited(k, t, first, n)
  <1>1. /\ scorelut[t[first + 1]] \in Int
        /\ \A y \in Nat : Cost(t, first, y) = scorelut[t[first + 1]] + Cost(t, first + 1, y)
        /\ Cost(t, first, first) = scorelut[t[first + 1]]
    BY Costs
  <1>2. \A y \in Nat : Cost(t, first + 1, y) \in Int
    <2> DEFINE m1 == first + 1
    <2>1. m1 \in Nat
      OBVIOUS
    <2> HIDE DEF m1
    <2>2. \A y \in Nat : Cost(t, m1, y) \in Int
      BY <2>1, Costs
    <2> QED
      BY <2>2 DEF m1
  <1>3. ASSUME NEW y \in Nat, first <= y, y < n PROVE Cost(t, first, y) <= k
    <2>1. CASE y = first
      BY <1>1, <2>1
    <2>2. CASE y # first
      <3> DEFINE d == Cost(t, first + 1, y)
                 w == scorelut[t[first + 1]]
      <3>1. d <= m
        BY <1>3, <2>2 DEF StartsLimited
      <3>2. d \in Int /\ w \in Int /\ Cost(t, first, y) = w + d /\ k >= m + w
        BY <1>1, <1>2
      <3> HIDE DEF d, w
      <3> QED
        BY <3>1, <3>2
    <2> QED
      BY <2>1, <2>2
  <1> QED
    BY <1>3 DEF StartsLimited

LEMMA StretchesGrowBack ==
    ASSUME NEW t \in Inputs, NEW first \in Nat, NEW n \in Nat, NEW max \in Nat,
           StretchesLimited(max, t, first + 1, n), StartsLimited(max, t, first, n)
    PROVE  StretchesLimited(max, t, first, n)
  <1>1. ASSUME NEW x \in Nat, NEW y \in Nat, first <= x, x <= y, y < n
        PROVE  Cost(t, x, y) <= max
    <2>1. CASE x = first
      BY <1>1, <2>1 DEF StartsLimited
    <2>2. CASE x # first
      BY <1>1, <2>2 DEF StretchesLimited
    <2> QED
      BY <2>1, <2>2
  <1> QED
    BY <1>1 DEF StretchesLimited

\* One byte more of a line, or its end.
LEMMA LineGrows ==
    ASSUME NEW t, NEW first \in Nat, NEW n \in Nat, NEW max \in Nat, NEW run \in Nat, NEW next \in Nat,
           LineRuns(max, t, first, n, run), next <= max,
           next = IF t[n + 1] \in Newlines THEN 0 ELSE run + 1
    PROVE  LineRuns(max, t, first, n + 1, next)
  <1>1. ASSUME NEW x \in Nat, first <= x, x < (n + 1) - next
        PROVE  \E y \in Nat : x <= y /\ y <= x + max /\ y < n + 1 /\ t[y + 1] \in Newlines
    <2>1. CASE x < n - run
      <3>1. PICK y \in Nat : x <= y /\ y <= x + max /\ y < n /\ t[y + 1] \in Newlines
        BY <1>1, <2>1 DEF LineRuns
      <3> QED
        BY <3>1
    <2>2. CASE ~(x < n - run)
      <3>1. t[n + 1] \in Newlines
        BY <1>1, <2>2
      <3>2. x <= n /\ n <= x + max
        BY <1>1, <2>2, <3>1 DEF LineRuns
      <3> QED
        BY <3>1, <3>2
    <2> QED
      BY <2>1, <2>2
  <1> QED
    BY <1>1 DEF LineRuns

LEMMA RunsFit ==
    ASSUME NEW t, NEW first \in Nat, NEW n \in Nat, NEW max \in Nat, NEW run \in Nat,
           LineRuns(max, t, first, n, run)
    PROVE  LinesFit(max, t, first, n)
  <1>1. ASSUME NEW x \in Nat, first <= x, x < n
        PROVE  \E y \in Nat : x <= y /\ y <= x + max + 1 /\ (y > n \/ (y < n /\ t[y + 1] \in Newlines))
    <2>1. CASE x < n - run
      <3>1. PICK y \in Nat : x <= y /\ y <= x + max /\ y < n /\ t[y + 1] \in Newlines
        BY <1>1, <2>1 DEF LineRuns
      <3> QED
        BY <3>1
    <2>2. CASE ~(x < n - run)
      <3>1. x + max + 1 > n /\ x + max + 1 \in Nat
        BY <1>1, <2>2 DEF LineRuns
      <3> QED
        BY <3>1
    <2> QED
      BY <2>1, <2>2
  <1> QED
    BY <1>1 DEF LinesFit

\* The output o is in order and within the input, and no stretch of it on one side of
\* the start scores more than max.
Limited(max, t, first, o) ==
    \A i, j \in 1..Len(o) : i <= j =>
        /\ o[i] <= o[j] /\ o[j] < Len(t)
        /\ o[i] >= first \/ o[j] < first => Cost(t, o[i], o[j]) <= max

\* The output r is the output o and the n bytes from position x on.
Appends(o, r, x, n) ==
    /\ Len(r) = Len(o) + n
    /\ \A i \in 1..Len(r) : r[i] = IF i <= Len(o) THEN o[i] ELSE x + (i - Len(o)) - 1

\* Limits hold of what is written if the stretches from low on, where this side of the
\* output begins, are within them.
LEMMA LimitedGrows ==
    ASSUME NEW t \in Inputs, NEW first \in Nat, NEW max \in Nat, NEW o \in Seq(Nat), NEW r \in Seq(Nat),
           NEW x \in Nat, NEW n \in Nat, NEW low \in Nat, low <= x,
           Appends(o, r, x, n), Limited(max, t, first, o), \A i \in 1..Len(o) : o[i] < x,
           x + n <= Len(t), low = first \/ Len(o) = 0,
           StretchesLimited(max, t, low, x + n)
    PROVE  Limited(max, t, first, r)
  <1>0. Len(o) \in Nat /\ Len(r) \in Nat /\ Len(t) \in Nat /\ Len(r) = Len(o) + n
    BY InputsAssumption, LenProperties DEF Appends
  <1>1. \A i \in 1..Len(r) : r[i] \in Nat
    BY ElementOfSeq
  <1>2. ASSUME NEW i \in 1..Len(r), NEW j \in 1..Len(r), i <= j
        PROVE  /\ r[i] <= r[j] /\ r[j] < Len(t)
               /\ r[i] >= first \/ r[j] < first => Cost(t, r[i], r[j]) <= max
    <2>0. r[i] \in Nat /\ r[j] \in Nat
      BY <1>1, <1>2, Zenon
    <2>1. CASE j <= Len(o)
      <3>1. i \in 1..Len(o) /\ j \in 1..Len(o)
        BY <1>0, <1>2, <2>1
      <3>2. r[i] = o[i] /\ r[j] = o[j]
        BY <3>1 DEF Appends
      <3> QED
        BY <1>2, <3>1, <3>2 DEF Limited
    <2>2. CASE j > Len(o)
      <3>1. r[j] = x + (j - Len(o)) - 1
        BY <1>0, <2>2 DEF Appends
      <3> DEFINE d == j - Len(o)
                 l == Len(o)
      <3>2. l \in Nat /\ j \in Int /\ i \in Int /\ i <= j /\ j <= l + n /\ d = j - l /\ j > l
        BY <1>0, <1>2, <2>2
      <3>3. r[j] = x + d - 1
        BY <3>1
      <3> HIDE DEF d, l
      <3>4. r[j] >= x /\ r[j] < x + n
        BY <3>2, <3>3
      <3>5. r[i] <= r[j]
        <4>1. CASE i <= Len(o)
          <5>1. i \in 1..Len(o) /\ i \in 1..Len(r)
            BY <1>0, <1>2, <4>1
          <5>2. r[i] = o[i]
            BY <4>1, <5>1 DEF Appends
          <5>4. o[i] < x
            BY <5>1
          <5> DEFINE a == r[i]
                     b == r[j]
          <5>5. a \in Nat /\ b \in Nat /\ x \in Nat /\ a < x /\ b >= x
            BY <2>0, <3>4, <5>2, <5>4
          <5> HIDE DEF a, b
          <5>6. a <= b
            BY ONLY <5>5
          <5> QED
            BY <5>6 DEF a, b
        <4>2. CASE i > Len(o)
          <5>1. r[i] = x + (i - Len(o)) - 1
            BY <1>0, <1>2, <4>2 DEF Appends
          <5> DEFINE e == i - Len(o)
          <5>2. r[i] = x + e - 1
            BY <5>1
          <5>3. e = i - l
            BY DEF l
          <5> HIDE DEF e
          <5>4. e \in Int /\ d \in Int /\ e <= d
            BY <3>2, <5>3
          <5> QED
            BY <3>3, <5>2, <5>4
        <4> QED
          BY <1>0, <4>1, <4>2
      <3>6. ASSUME r[i] >= first \/ r[j] < first PROVE Cost(t, r[i], r[j]) <= max
        <4>1. low <= r[i]
          <5>1. CASE i <= Len(o)
            <6>1. low = first
              BY <1>0, <5>1
            <6> DEFINE a == r[i]
                       b == r[j]
            <6>2. /\ a \in Nat /\ b \in Nat /\ x \in Nat /\ low \in Nat /\ b >= x /\ low <= x
                  /\ a >= low \/ b < low
              BY <2>0, <3>4, <3>6, <6>1
            <6> HIDE DEF a, b
            <6>3. low <= a
              BY ONLY <6>2
            <6> QED
              BY <6>3 DEF a
          <5>2. CASE i > Len(o)
            <6>1. r[i] = x + (i - Len(o)) - 1
              BY <1>0, <1>2, <5>2 DEF Appends
            <6> DEFINE e == i - Len(o)
            <6>2. e \in Int /\ e >= 1
              BY <1>0, <1>2, <5>2
            <6>3. r[i] = x + e - 1
              BY <6>1
            <6> HIDE DEF e
            <6> QED
              BY <6>2, <6>3
          <5> QED
            BY <1>0, <5>1, <5>2
        <4> QED
          BY <1>1, <3>4, <3>5, <4>1 DEF StretchesLimited
      <3>7. r[j] < Len(t)
        BY <1>0, <1>1, <3>4
      <3> QED
        BY <3>5, <3>6, <3>7
    <2> QED
      BY <1>0, <2>1, <2>2
  <1> QED
    BY <1>2 DEF Limited

\* Whether the write fails or not, what was added is the beginning of what was to be.
LEMMA WrittenPart ==
    ASSUME out \in Seq(Nat), failed \in BOOLEAN, NEW b \in Seq(Nat), NEW x \in Int, Run(b, x),
           WriteAll(b) \/ WriteFails(b)
    PROVE  out' \in Seq(Nat) /\ \E n \in 0..Len(b) : Appends(out, out', x, n)
  <1>0. Len(b) \in Nat /\ Len(out) \in Nat
    BY LenProperties
  <1>1. PICK n \in 0..Len(b), q \in Seq(Nat) : out' = out \o q /\ Len(q) = n /\ Run(q, x)
    <2>1. CASE WriteAll(b)
      <3>1. Len(b) \in 0..Len(b) /\ out' = out \o b
        BY <1>0, <2>1 DEF WriteAll
      <3> QED
        BY <3>1
    <2>2. CASE WriteFails(b)
      <3>1. PICK n \in 0..Len(b)-1 : out' = out \o SubSeq(b, 1, n)
        BY <2>2 DEF WriteFails
      <3>2. n \in Nat /\ n <= Len(b) /\ 1 <= n + 1 /\ 1 \in Nat \ {0}
        BY <1>0, <3>1
      <3>3. /\ SubSeq(b, 1, n) \in Seq(Nat) /\ Len(SubSeq(b, 1, n)) = n - 1 + 1
            /\ Run(SubSeq(b, 1, n), x + 1 - 1)
        BY <3>2, RunPart
      <3>4. n - 1 + 1 = n /\ x + 1 - 1 = x /\ n \in 0..Len(b)
        BY <1>0, <3>2
      <3> DEFINE q == SubSeq(b, 1, n)
      <3>5. q \in Seq(Nat) /\ out' = out \o q /\ Len(q) = n /\ Run(q, x)
        BY <3>1, <3>3, <3>4
      <3> HIDE DEF q
      <3> QED
        BY <3>4, <3>5
    <2> QED
      BY <2>1, <2>2
  <1>2. /\ out' \in Seq(Nat) /\ Len(out') = Len(out) + Len(q)
        /\ \A i \in 1..Len(out) + Len(q) : out'[i] = IF i <= Len(out) THEN out[i] ELSE q[i - Len(out)]
    BY <1>1, ConcatProperties
  <1>3. ASSUME NEW i \in 1..Len(out'), ~(i <= Len(out)) PROVE out'[i] = x + (i - Len(out)) - 1
    <2>1. i - Len(out) \in 1..Len(q)
      BY <1>0, <1>1, <1>2, <1>3
    <2> QED
      BY <1>1, <1>2, <1>3, <2>1 DEF Run
  <1>4. Appends(out, out', x, n)
    BY <1>1, <1>2, <1>3 DEF Appends
  <1> QED
    BY <1>2, <1>4

(***************************************************************************)
(* The invariant of the limits.  On the way back NextByte is the byte      *)
(* inspected next, and the bytes behind it are inspected.                  *)
(***************************************************************************)

\* What was written is within the limits of the score, and before what is to come.
OutLimits ==
    /\ Limited(opt.score, input, start, out)
    /\ \A i \in 1..Len(out) : out[i] <= NextByte
    /\ Forward => \A i \in 1..Len(out) : out[i] < BufStart

\* However the output ends, lines and bytes are within their limits.
CountLimits ==
    /\ opt.line > 0 => LinesFit(opt.line, input, start, NextByte)
    /\ opt.bytes > 0 => NextByte <= start + opt.bytes

\* The running score and the counters bound what they are about.
RunningLimits ==
    pc \in {"read", "inspect", "flush"} =>
        /\ opt.line > 0 => LineRuns(opt.line, input, start, NextByte, s.line)
        /\ opt.bytes > 0 => s.bytes = NextByte - start
        /\ EndsLimited(s.sum, input, start, NextByte)

\* No stretch of what was inspected scores too much; the byte that ends the text
\* belongs to it only if it is a letter.
SeenLimits ==
    /\ Forward => StretchesLimited(opt.score, input, start, NextByte)
    /\ pc = "finish" =>
        /\ s.last = Null \/ s.last <= p
        /\ s.last = p => EndsLimited(opt.score, input, start, NextByte + 1)

BackLimits ==
    pc = "inspect_backward" =>
        /\ s.last = Null \/ s.last > p
        /\ StretchesLimited(opt.score, input, NextByte + 1, start)
        /\ StartsLimited(s.sum, input, NextByte + 1, start)

LimitInv == OutLimits /\ CountLimits /\ RunningLimits /\ SeenLimits /\ BackLimits

\* The running score is at least the previous one and the score of the character, and
\* never negative; where the text goes on all is within the limits.
LEMMA InspectedLimits ==
    ASSUME opt \in Options, NEW t \in ScoresType, NEW c \in Chars, NEW i \in Nat, NEW step \in {-1, 1}
    PROVE  LET u == Inspected(t, c, i, step) IN
           /\ u.sum \in Nat /\ t.sum \in Nat /\ u.sum >= t.sum + scorelut[c]
           /\ u.last = IF IsLetter(c) THEN i ELSE t.last
           /\ opt.line > 0 => /\ u.line \in Nat /\ t.line \in Nat
                              /\ u.line = IF c \in Newlines THEN 0 ELSE t.line + 1
           /\ opt.bytes > 0 => u.bytes = t.bytes + 1
           /\ ~StopsAt(u) => /\ u.sum <= opt.score
                             /\ opt.line > 0 => u.line <= opt.line
                             /\ opt.bytes > 0 => u.bytes <= opt.bytes
  <1>1. scorelut[c] \in Int
    BY TableTypes
  <1>2. /\ t.sum \in Nat /\ t.line \in Nat /\ t.bytes \in Nat
        /\ opt.block \in Nat /\ opt.score \in Nat /\ opt.line \in Nat /\ opt.bytes \in Nat
    BY OptionTypes DEF ScoresType
  <1>3. Raised(t) \in Nat /\ Raised(t) >= t.sum
    BY <1>2 DEF Raised, Larger
  <1>4. SumWith(t, c) \in Nat /\ SumWith(t, c) >= t.sum + scorelut[c]
    BY <1>1, <1>2, <1>3 DEF SumWith, Larger
  <1> DEFINE u == Inspected(t, c, i, step)
  <1>5. /\ u.sum = SumWith(t, c) /\ u.last = IF IsLetter(c) THEN i ELSE t.last
        /\ u.line = IF c \in Newlines \/ opt.line = 0 THEN 0 ELSE t.line + 1
        /\ u.bytes = IF opt.bytes > 0 THEN t.bytes + 1 ELSE 0
    BY DEF Inspected
  <1>6. ~StopsAt(u) => /\ ~(u.sum > opt.score)
                       /\ ~(opt.line > 0 /\ u.line > opt.line)
                       /\ ~(opt.bytes > 0 /\ u.bytes > opt.bytes)
    BY DEF StopsAt
  <1> HIDE DEF u
  <1>7. u.sum \in Nat /\ u.line \in Nat /\ u.bytes \in Nat
    BY <1>2, <1>4, <1>5
  <1>8. ~StopsAt(u) => /\ u.sum <= opt.score
                       /\ opt.line > 0 => u.line <= opt.line
                       /\ opt.bytes > 0 => u.bytes <= opt.bytes
    BY <1>2, <1>6, <1>7
  <1> QED
    BY <1>2, <1>4, <1>5, <1>7, <1>8 DEF u

\* Nothing written is within all limits.
LEMMA NothingLimited == Limited(opt.score, input, start, <<>>)
  BY DEF Limited

\* Where nothing was inspected there is nothing to limit.
LEMMA NoStretch ==
    ASSUME NEW t, NEW n \in Nat, NEW m \in Nat
    PROVE  /\ StretchesLimited(m, t, n, n) /\ EndsLimited(m, t, n, n) /\ StartsLimited(m, t, n, n)
           /\ LineRuns(m, t, n, n, 0)
           /\ \A k \in Int : k <= n => LinesFit(m, t, n, k)
  BY DEF StretchesLimited, EndsLimited, StartsLimited, LineRuns, LinesFit

LEMMA InitLimits == ASSUME Init, TextInv PROVE LimitInv
  <1>1. /\ pc = "main" /\ out = <<>> /\ buf = <<>> /\ p = 0 /\ fdpos = start
    BY DEF Init
  <1>2. start \in Nat /\ NextByte = start /\ Len(out) = 0 /\ opt.line \in Nat /\ opt.bytes \in Nat
    BY <1>1, Numbers DEF TextInv, NextByte
  <1>3. OutLimits
    BY <1>1, <1>2, NothingLimited DEF OutLimits, Forward
  <1>4. CountLimits
    <2>1. start \in Int /\ start <= start /\ start <= start + opt.bytes
      BY <1>2
    <2>2. LinesFit(opt.line, input, start, start)
      BY <1>2, <2>1, NoStretch
    <2> QED
      BY <1>2, <2>1, <2>2 DEF CountLimits
  <1> QED
    BY <1>1, <1>3, <1>4 DEF LimitInv, RunningLimits, SeenLimits, BackLimits, Forward

\* The program gives up where nothing was written.
LEMMA GivesUpLimits == ASSUME TextInv, LimitInv, CannotStart \/ ReadBackwardFails PROVE LimitInv'
  <1>1. /\ pc' = "done" /\ UNCHANGED <<opt, input, start, fdpos, buf, p, s, out, failed>>
    BY DEF CannotStart, ReadBackwardFails
  <1>2. NextByte' = NextByte
    BY <1>1 DEF NextByte
  <1>3. OutLimits' /\ CountLimits'
    BY <1>1, <1>2 DEF LimitInv, OutLimits, CountLimits, Forward
  <1> QED
    BY <1>1, <1>3 DEF LimitInv, RunningLimits, SeenLimits, BackLimits, Forward

\* The forward pass starts with nothing inspected.
LEMMA StartsForwardLimits ==
    ASSUME TypeOK, fdpos = start, UNCHANGED <<opt, input, start, fdpos>>,
           NEW o, s' = ScoresInit(o), pc' = "read", buf' = <<>>, p' = 0,
           Limited(opt.score, input, start, out'), \A i \in 1..Len(out') : out'[i] < start,
           out' \in Seq(Nat)
    PROVE  LimitInv'
  <1>1. /\ start \in Nat /\ opt.line \in Nat /\ opt.bytes \in Nat /\ opt.score \in Nat /\ Len(buf') = 0
        /\ opt' = opt /\ input' = input /\ start' = start /\ fdpos' = fdpos
    BY Numbers
  <1>2. NextByte' = start /\ BufStart' = start
    BY <1>1 DEF NextByte, BufStart
  <1>3. s'.line = 0 /\ s'.bytes = 0 /\ s'.sum = 0 /\ pc' \notin {"finish", "inspect_backward"}
    BY DEF ScoresInit
  <1>4. OutLimits'
    <2>1. \A i \in 1..Len(out') : out'[i] <= start
      BY <1>1, ElementOfSeq
    <2> QED
      BY <1>1, <1>2, <2>1 DEF OutLimits
  <1>5. StretchesLimited(opt.score, input, start, start) /\ EndsLimited(0, input, start, start)
    BY <1>1, NoStretch
  <1>6. LineRuns(opt.line, input, start, start, 0) /\ LinesFit(opt.line, input, start, start)
    <2>1. start \in Int /\ start <= start
      BY <1>1
    <2> QED
      BY <1>1, <2>1, NoStretch
  <1>7. CountLimits'
    BY <1>1, <1>2, <1>6 DEF CountLimits
  <1>8. RunningLimits'
    BY <1>1, <1>2, <1>3, <1>5, <1>6 DEF RunningLimits
  <1>9. SeenLimits' /\ BackLimits'
    BY <1>1, <1>2, <1>3, <1>5 DEF SeenLimits, BackLimits
  <1> QED
    BY <1>4, <1>7, <1>8, <1>9 DEF LimitInv

\* Limits of a part hold of its parts, and with more allowed.
LEMMA StretchesPart ==
    ASSUME NEW t, NEW max, NEW first \in Int, NEW n \in Int, NEW from \in Int, NEW to \in Int,
           StretchesLimited(max, t, first, n), first <= from, to <= n
    PROVE  StretchesLimited(max, t, from, to)
  <1>1. ASSUME NEW x \in Nat, NEW y \in Nat, from <= x, x <= y, y < to PROVE Cost(t, x, y) <= max
    <2>1. first <= x /\ y < n
      BY <1>1
    <2> QED
      BY <1>1, <2>1 DEF StretchesLimited
  <1> QED
    BY <1>1 DEF StretchesLimited

LEMMA StretchesBound ==
    ASSUME NEW t, NEW max, NEW first \in Nat, NEW n, StretchesLimited(max, t, first, n)
    PROVE  StartsLimited(max, t, first, n)
  BY DEF StretchesLimited, StartsLimited

LEMMA StartsWeaken ==
    ASSUME NEW t \in Inputs, NEW first \in Nat, first < Len(t), NEW n, NEW m \in Nat, NEW k \in Nat, m <= k,
           StartsLimited(m, t, first, n)
    PROVE  StartsLimited(k, t, first, n)
  <1>1. \A y \in Nat : Cost(t, first, y) \in Int
    BY Costs
  <1> QED
    BY <1>1 DEF StartsLimited

LEMMA EndsWeaken ==
    ASSUME NEW t \in Inputs, NEW first \in Nat, NEW n \in Nat, n < Len(t), NEW m \in Nat, NEW k \in Nat, m <= k,
           EndsLimited(m, t, first, n + 1)
    PROVE  EndsLimited(k, t, first, n + 1)
  <1>1. \A x \in Nat : Cost(t, x, n) \in Int
    BY Costs
  <1>2. (n + 1) - 1 = n
    OBVIOUS
  <1> QED
    BY <1>1, <1>2 DEF EndsLimited

LEMMA MainLimits == ASSUME TextInv, LimitInv, Main PROVE LimitInv'
  <1>1. /\ pc = "main" /\ pc' = (IF opt.reverse > 0 THEN "backward" ELSE "read")
        /\ s' = ScoresInit(IF Seekable THEN fdpos ELSE Null)
        /\ UNCHANGED <<opt, input, start, fdpos, buf, p, out, failed>>
    BY DEF Main
  <1>2. TypeOK /\ buf = <<>> /\ p = 0 /\ out = <<>> /\ fdpos = start
    BY <1>1 DEF TextInv, Places, BackwardPlaces
  <1>3. Len(out) = 0 /\ <<>> \in Seq(Nat)
    BY <1>2
  <1>4. CASE pc' = "read"
    BY <1>1, <1>2, <1>3, <1>4, NothingLimited, StartsForwardLimits
  <1>5. CASE pc' = "backward"
    <2>1. NextByte' = NextByte
      BY <1>1 DEF NextByte
    <2>2. OutLimits' /\ CountLimits'
      BY <1>1, <1>5, <2>1 DEF LimitInv, OutLimits, CountLimits, Forward
    <2> QED
      BY <1>5, <2>2 DEF LimitInv, RunningLimits, SeenLimits, BackLimits, Forward
  <1> QED
    BY <1>1, <1>4, <1>5

LEMMA NothingBeforeLimits == ASSUME TextInv, LimitInv, NothingBefore PROVE LimitInv'
  <1>1. /\ pc = "backward" /\ GoForward(s) /\ UNCHANGED <<opt, input, start, fdpos, out, failed>>
    BY DEF NothingBefore
  <1>2. TypeOK /\ out = <<>> /\ fdpos = start
    BY <1>1 DEF TextInv, Places, BackwardPlaces
  <1>3. Len(out) = 0 /\ <<>> \in Seq(Nat)
    BY <1>2
  <1> QED
    BY <1>1, <1>2, <1>3, NothingLimited, StartsForwardLimits DEF GoForward

\* A buffer before the start, none of it inspected.
LEMMA ReadBackwardLimits == ASSUME TextInv, LimitInv, ReadBackward PROVE LimitInv'
  <1>1. /\ pc = "backward" /\ pc' = "inspect_backward" /\ p' = BackwardCount - 1
        /\ UNCHANGED <<opt, input, start, fdpos, s, out, failed>>
    BY DEF ReadBackward
  <1>2. TypeOK /\ buf = <<>> /\ p = 0 /\ out = <<>> /\ fdpos = start /\ s.last = Null
    BY <1>1 DEF TextInv, Places, BackwardPlaces
  <1>3. /\ start \in Nat /\ opt.line \in Nat /\ opt.bytes \in Nat /\ opt.score \in Nat /\ s.sum \in Nat
        /\ Len(out) = 0 /\ NextByte = start
    BY <1>2, Numbers DEF NextByte
  <1>4. Len(buf') = BackwardCount /\ BackwardCount \in Nat
    <2>1. BackwardCount \in Nat
      BY <1>2, Numbers DEF ReadBackward, BackwardCount, Smaller, Null
    <2>2. buf' = [i \in 1..BackwardCount |-> fdpos - BackwardCount + i - 1]
      BY DEF ReadBackward
    <2> HIDE DEF BackwardCount
    <2> QED
      BY <2>1, <2>2
  <1>5. NextByte' = start - 1
    BY <1>1, <1>2, <1>3, <1>4 DEF NextByte
  <1>6. OutLimits'
    BY <1>1, <1>2, <1>3, <1>5 DEF LimitInv, OutLimits, Forward
  <1>7. CountLimits'
    <2>1. start - 1 \in Int /\ start - 1 <= start /\ start - 1 <= start + opt.bytes
      BY <1>3
    <2>2. LinesFit(opt.line, input, start, start - 1)
      BY <1>3, <2>1, NoStretch
    <2> QED
      BY <1>1, <1>5, <2>1, <2>2 DEF CountLimits
  <1>8. BackLimits'
    <2>1. NextByte' + 1 = start
      BY <1>3, <1>5
    <2>2. StretchesLimited(opt.score, input, start, start) /\ StartsLimited(s.sum, input, start, start)
      BY <1>3, NoStretch
    <2> QED
      BY <1>1, <1>2, <2>1, <2>2 DEF BackLimits
  <1> QED
    BY <1>1, <1>6, <1>7, <1>8 DEF LimitInv, RunningLimits, SeenLimits, Forward

\* The scores bound every stretch inspected; what is written begins with a letter, or
\* is all of it.
LEMMA InspectBackwardLimits == ASSUME TextInv, LimitInv, InspectBackward PROVE LimitInv'
  <1> DEFINE c == CharAt(buf[p + 1])
             t == Inspected(s, c, p, -1)
             b == FromLetterOn(t)
             at == start - Len(buf) + p
  <1>1. /\ pc = "inspect_backward" /\ UNCHANGED <<opt, input, start, fdpos>>
        /\ IF StopsAt(t) \/ p = 0
           THEN (WriteAll(b) \/ WriteFails(b)) /\ GoForward(t)
           ELSE s' = t /\ p' = p - 1 /\ UNCHANGED <<pc, buf, out, failed>>
    BY DEF InspectBackward
  <1>2. /\ TypeOK /\ fdpos = start /\ fdpos <= Len(input) /\ out = <<>>
        /\ p < Len(buf) /\ Len(buf) <= start /\ Run(buf, start - Len(buf))
        /\ s.last # Null => s.last < Len(buf)
    BY <1>1 DEF TextInv, Places, BackwardPlaces
  <1>3. /\ p \in Nat /\ start \in Nat /\ Len(buf) \in Nat /\ s.last \in Nat \cup {Null} /\ s.sum \in Nat
        /\ s \in ScoresType /\ opt \in Options /\ opt.score \in Nat /\ Len(out) = 0
        /\ Len(input) \in Nat /\ input \in Inputs /\ buf \in Seq(Nat) /\ failed \in BOOLEAN
        /\ out \in Seq(Nat) /\ opt.line \in Nat /\ opt.bytes \in Nat
    BY <1>2, Numbers DEF TypeOK, Null
  <1>4. c \in Chars /\ c = input[at + 1] /\ at \in Nat /\ at < start
    <2>1. start - Len(buf) \in Int /\ start - Len(buf) + Len(buf) <= fdpos
      BY <1>2, <1>3
    <2>2. buf[p + 1] = start - Len(buf) + p /\ c \in Chars
      <3> DEFINE x == start - Len(buf)
      <3>1. x \in Int /\ x + Len(buf) <= fdpos
        BY <2>1
      <3>2. Run(buf, x)
        BY <1>2
      <3> HIDE DEF x
      <3>3. buf[p + 1] = x + p /\ CharAt(buf[p + 1]) \in Chars
        BY <1>2, <1>3, <3>1, <3>2, BufferShows
      <3> QED
        BY <3>3 DEF x
    <2>3. c = input[at + 1]
      BY <2>2 DEF CharAt
    <2>4. at \in Nat /\ at < start
      <3> DEFINE n == Len(buf)
      <3>1. n \in Nat /\ start \in Nat /\ p \in Nat /\ p < n /\ n <= start /\ at = start - n + p
        BY <1>2, <1>3
      <3> HIDE DEF n, at
      <3> QED
        BY <3>1
    <2> QED
      BY <2>2, <2>3, <2>4
  <1>5. NextByte = at
    BY <1>2, <1>3 DEF NextByte
  <1>6. /\ s.last = Null \/ s.last > p
        /\ StretchesLimited(opt.score, input, at + 1, start)
        /\ StartsLimited(s.sum, input, at + 1, start)
    BY <1>1, <1>5 DEF LimitInv, BackLimits
  <1> HIDE DEF c
  <1>7. /\ t.sum \in Nat /\ t.sum >= s.sum + scorelut[c] /\ t.last = IF IsLetter(c) THEN p ELSE s.last
        /\ ~StopsAt(t) => t.sum <= opt.score
    <2>1. opt \in Options /\ s \in ScoresType /\ c \in Chars /\ p \in Nat /\ -1 \in {-1, 1}
      BY <1>3, <1>4
    <2> QED
      BY ONLY <2>1, InspectedLimits
  <1>8. StopsAt(t) \in BOOLEAN
    BY DEF StopsAt
  <1> HIDE DEF t, at
  <1>9. at < Len(input) /\ scorelut[c] \in Int
    BY <1>2, <1>3, <1>4, TableTypes
  <1>10. StartsLimited(t.sum, input, at, start)
    BY <1>3, <1>4, <1>6, <1>7, <1>9, StartsGrow
  <1>11. ASSUME ~StopsAt(t) PROVE StretchesLimited(opt.score, input, at, start)
    <2>1. StartsLimited(opt.score, input, at, start)
      BY <1>3, <1>4, <1>7, <1>9, <1>10, <1>11, StartsWeaken
    <2> QED
      BY <1>3, <1>4, <1>6, <2>1, StretchesGrowBack
  <1>12. ASSUME IsLetter(c) PROVE StretchesLimited(opt.score, input, at, start)
    <2>1. StartsLimited(opt.score, input, at + 1, start)
      BY <1>4, <1>6, StretchesBound
    <2>2. opt.score >= opt.score + scorelut[input[at + 1]] /\ opt.score \in Int
      BY <1>3, <1>4, <1>9, <1>12 DEF IsLetter
    <2>3. StartsLimited(opt.score, input, at, start)
      BY <1>3, <1>4, <1>9, <2>1, <2>2, StartsGrow
    <2> QED
      BY <1>3, <1>4, <1>6, <2>3, StretchesGrowBack
  <1>13. CASE StopsAt(t) \/ p = 0
    <2>1. PICK m \in 0..Len(buf) :
             /\ b \in Seq(Nat) /\ Run(b, start - Len(buf) + m) /\ Len(b) = Len(buf) - m
             /\ StretchesLimited(opt.score, input, start - Len(buf) + m, start)
      <3>1. CASE StopsAt(t) /\ t.last = Null
        <4>1. b = <<>> /\ Len(b) = 0 /\ <<>> \in Seq(Nat)
          BY <3>1 DEF FromLetterOn
        <4>2. start - Len(buf) + Len(buf) = start /\ Len(buf) \in 0..Len(buf)
          BY <1>3
        <4>3. StretchesLimited(opt.score, input, start, start)
          BY <1>3, NoStretch
        <4>4. Run(b, start - Len(buf) + Len(buf)) /\ Len(b) = Len(buf) - Len(buf)
          BY <1>3, <4>1 DEF Run
        <4> QED
          BY <4>1, <4>2, <4>3, <4>4
      <3>2. CASE StopsAt(t) /\ t.last # Null
        <4>1. b = SubSeq(buf, t.last + 1, Len(buf))
          BY <3>2 DEF FromLetterOn
        <4>2. t.last \in Nat /\ t.last < Len(buf) /\ t.last >= p /\ (t.last = p => IsLetter(c))
          BY <1>2, <1>3, <1>6, <1>7, <3>2
        <4> DEFINE k == t.last + 1
                   x == start - Len(buf)
        <4>3. x \in Int /\ k \in Nat \ {0} /\ k <= Len(buf) + 1
          <5> DEFINE n == Len(buf)
                     l == t.last
          <5>1. n \in Nat /\ start \in Nat /\ l \in Nat /\ l < n
            BY <1>3, <4>2
          <5> HIDE DEF n, l
          <5>2. start - n \in Int /\ l + 1 \in Nat \ {0} /\ l + 1 <= n + 1
            BY <5>1
          <5> QED
            BY <5>2 DEF n, l
        <4>4. Run(buf, x)
          BY <1>2, Zenon
        <4> HIDE DEF k, x, b
        <4>5. /\ SubSeq(buf, k, Len(buf)) \in Seq(Nat) /\ Len(SubSeq(buf, k, Len(buf))) = Len(buf) - k + 1
              /\ Run(SubSeq(buf, k, Len(buf)), x + k - 1)
          <5> DEFINE n == Len(buf)
          <5>1. n \in Nat /\ n <= n /\ n = Len(buf) /\ k <= n + 1 /\ buf \in Seq(Nat)
            BY <1>3, <4>3
          <5> HIDE DEF n
          <5>2. /\ SubSeq(buf, k, n) \in Seq(Nat) /\ Len(SubSeq(buf, k, n)) = n - k + 1
                /\ Run(SubSeq(buf, k, n), x + k - 1)
            BY <4>3, <4>4, <5>1, RunPart
          <5> QED
            BY <5>2 DEF n
        <4>6. /\ x + k - 1 = start - Len(buf) + t.last /\ Len(buf) - k + 1 = Len(buf) - t.last
              /\ t.last \in 0..Len(buf)
          <5> DEFINE n == Len(buf)
                     l == t.last
          <5>1. n \in Nat /\ l \in Nat /\ l < n
            BY <1>3, <4>2
          <5> HIDE DEF n, l
          <5>2. x + (l + 1) - 1 = x + l /\ n - (l + 1) + 1 = n - l /\ l \in 0..n
            BY <4>3, <5>1
          <5> QED
            BY <5>2 DEF x, k, n, l
        <4>7. StretchesLimited(opt.score, input, start - Len(buf) + t.last, start)
          <5>1. CASE t.last = p
            BY <1>12, <4>2, <5>1 DEF at
          <5>2. CASE t.last # p
            <6>1. start - Len(buf) + t.last >= at + 1
              BY <1>3, <4>2, <5>2 DEF at
            <6> QED
              BY <1>3, <1>4, <1>6, <4>2, <6>1, StretchesPart
          <5> QED
            BY <5>1, <5>2
        <4> QED
          BY <4>1, <4>5, <4>6, <4>7 DEF k
      <3>3. CASE ~StopsAt(t)
        <4>1. b = buf /\ p = 0
          BY <1>13, <3>3 DEF FromLetterOn
        <4>2. start - Len(buf) + 0 = at /\ start - Len(buf) + 0 = start - Len(buf) /\ Len(buf) - 0 = Len(buf)
              /\ 0 \in 0..Len(buf)
          BY <1>3, <4>1 DEF at
        <4> HIDE DEF b
        <4> QED
          BY <1>2, <1>3, <1>11, <3>3, <4>1, <4>2
      <3> QED
        BY <1>8, <3>1, <3>2, <3>3
    <2> HIDE DEF b
    <2> DEFINE x == start - Len(buf) + m
    <2>2. x \in Nat /\ x + (Len(buf) - m) = start
      BY <1>2, <1>3
    <2>3. WriteAll(b) \/ WriteFails(b)
      BY <1>1, <1>13
    <2>4. Run(b, x) /\ Len(b) = Len(buf) - m /\ b \in Seq(Nat) /\ StretchesLimited(opt.score, input, x, start)
      BY <2>1
    <2> HIDE DEF x
    <2>5. PICK n \in 0..Len(b) : out' \in Seq(Nat) /\ Appends(out, out', x, n)
      <3>1. x \in Int
        BY <2>2
      <3> QED
        BY <1>3, <2>3, <2>4, <3>1, WrittenPart
    <2>6. n \in Nat /\ x + n \in Nat /\ x + n <= start
      BY <1>3, <2>2, <2>4
    <2>7. Limited(opt.score, input, start, out')
      <3>1. StretchesLimited(opt.score, input, x, x + n)
        BY <1>3, <2>2, <2>4, <2>6, StretchesPart
      <3>2. x <= x /\ x + n <= Len(input) /\ \A i \in 1..Len(out) : out[i] < x
        BY <1>2, <1>3, <2>2, <2>6
      <3>3. Limited(opt.score, input, start, out)
        BY DEF LimitInv, OutLimits
      <3> QED
        BY <1>3, <2>2, <2>5, <2>6, <3>1, <3>2, <3>3, LimitedGrows
    <2>8. \A i \in 1..Len(out') : out'[i] < start
      <3>1. Len(out') = n /\ \A i \in 1..Len(out') : out'[i] = x + (i - 0) - 1
        BY <1>3, <2>5 DEF Appends
      <3> QED
        BY <1>3, <2>2, <2>6, <3>1
    <2>9. /\ pc' = "read" /\ buf' = <<>> /\ p' = 0 /\ s' = ScoresInit(t.offset)
      BY <1>1, <1>13 DEF GoForward
    <2> QED
      BY <1>1, <1>2, <2>5, <2>7, <2>8, <2>9, StartsForwardLimits
  <1>14. CASE ~(StopsAt(t) \/ p = 0)
    <2>1. s' = t /\ p' = p - 1 /\ UNCHANGED <<pc, opt, input, start, fdpos, buf, out, failed>>
      BY <1>1, <1>14
    <2>2. NextByte' = at - 1 /\ NextByte' + 1 = at
      BY <1>2, <1>3, <1>4, <2>1 DEF NextByte, at
    <2>3. OutLimits'
      BY <1>1, <1>3, <2>1 DEF LimitInv, OutLimits, Forward
    <2>4. CountLimits'
      <3>1. at - 1 \in Int /\ at - 1 <= start /\ at - 1 <= start + opt.bytes
        BY <1>3, <1>4
      <3>2. LinesFit(opt.line, input, start, at - 1)
        BY <1>3, <3>1, NoStretch
      <3> QED
        BY <2>1, <2>2, <3>1, <3>2 DEF CountLimits
    <2>5. BackLimits'
      <3>1. t.last = Null \/ t.last > p - 1
        BY <1>3, <1>6, <1>7
      <3> QED
        BY <1>10, <1>11, <1>14, <2>1, <2>2, <3>1 DEF BackLimits
    <2> QED
      BY <1>1, <2>1, <2>3, <2>4, <2>5 DEF LimitInv, RunningLimits, SeenLimits, Forward
  <1> QED
    BY <1>13, <1>14

LEMMA StretchesEnd ==
    ASSUME NEW t, NEW max, NEW first \in Nat, NEW n \in Nat, StretchesLimited(max, t, first, n)
    PROVE  EndsLimited(max, t, first, n)
  <1>1. ASSUME NEW x \in Nat, first <= x, x < n PROVE Cost(t, x, n - 1) <= max
    <2>1. n - 1 \in Nat /\ x <= n - 1 /\ n - 1 < n
      BY <1>1
    <2> QED
      BY <1>1, <2>1 DEF StretchesLimited
  <1> QED
    BY <1>1 DEF EndsLimited

\* A read adds bytes that are not inspected yet.
LEMMA ReadLimits == ASSUME TextInv, LimitInv, Read PROVE LimitInv'
  <1>1. pc = "read" /\ Forward /\ pc' = "inspect" /\ Forward' /\ UNCHANGED <<opt, input, start, p, s, out, failed>>
    BY DEF Read, Forward
  <1>2. PICK n \in 1..Smaller(Room, Len(input) - fdpos) :
            buf' = buf \o [i \in 1..n |-> fdpos + i - 1] /\ fdpos' = fdpos + n
    BY DEF Read
  <1>3. /\ Len(buf) \in Nat /\ fdpos \in Nat /\ p \in Nat /\ buf \in Seq(Nat) /\ n \in Nat
    <2>1. TypeOK /\ Capacity \in Nat /\ Len(buf) \in Nat /\ Len(input) \in Nat
      BY Numbers DEF TextInv
    <2> QED
      BY <2>1 DEF TypeOK, Smaller, Room
  <1> DEFINE q == [i \in 1..n |-> fdpos + i - 1]
  <1>4. Len(buf') = Len(buf) + n
    <2>1. \A i \in 1..n : fdpos + i - 1 \in Nat
      BY <1>3
    <2>2. q \in Seq(Nat) /\ Len(q) = n
      BY <1>3, <2>1
    <2>3. buf' = buf \o q
      BY <1>2
    <2> HIDE DEF q
    <2> QED
      BY <1>3, <2>2, <2>3, ConcatProperties
  <1>5. NextByte' = NextByte /\ BufStart' = BufStart
    BY <1>1, <1>2, <1>3, <1>4 DEF NextByte, BufStart
  <1>6. OutLimits' /\ CountLimits'
    BY <1>1, <1>5 DEF LimitInv, OutLimits, CountLimits
  <1>7. RunningLimits' /\ SeenLimits' /\ BackLimits'
    BY <1>1, <1>5 DEF LimitInv, RunningLimits, SeenLimits, BackLimits
  <1> QED
    BY <1>6, <1>7 DEF LimitInv

LEMMA ReadEndsLimits == ASSUME TextInv, LimitInv, ReadEnds PROVE LimitInv'
  <1>1. /\ pc = "read" /\ Forward /\ pc' = "finish" /\ Forward'
        /\ UNCHANGED <<opt, input, start, fdpos, buf, p, s, out, failed>>
    BY DEF ReadEnds, Forward
  <1>2. NextByte' = NextByte /\ BufStart' = BufStart
    BY <1>1 DEF NextByte, BufStart
  <1>3. OutLimits' /\ CountLimits'
    BY <1>1, <1>2 DEF LimitInv, OutLimits, CountLimits
  <1>4. p \in Nat /\ s.last \in Nat \cup {Null}
    BY Numbers DEF TextInv
  <1>5. s.last = Null \/ s.last < p
    BY <1>1 DEF TextInv, ScoreInv
  <1>6. SeenLimits'
    <2>1. s.last # p /\ (s.last = Null \/ s.last <= p)
      BY <1>4, <1>5 DEF Null
    <2> QED
      BY <1>1, <1>2, <2>1 DEF LimitInv, SeenLimits
  <1> QED
    BY <1>1, <1>3, <1>6 DEF LimitInv, RunningLimits, BackLimits

\* A byte that passes adds to the counts; the one that ends the text is written only if
\* it is a letter, which costs nothing.
LEMMA InspectLimits == ASSUME TextInv, LimitInv, Inspect PROVE LimitInv'
  <1> DEFINE c == CharAt(buf[p + 1])
             t == Inspected(s, c, p, 1)
             at == NextByte
  <1>1. /\ pc = "inspect" /\ Forward /\ s' = t /\ p' = IF StopsAt(t) THEN p ELSE p + 1
        /\ pc' = IF StopsAt(t) THEN "finish" ELSE IF p + 1 = Len(buf) THEN AfterLast ELSE "inspect"
        /\ UNCHANGED <<opt, input, start, fdpos, buf, out, failed>>
    BY DEF Inspect, Forward
  <1>2. /\ TypeOK /\ BufStart \in Nat /\ start <= BufStart /\ Run(buf, BufStart)
        /\ BufStart + Len(buf) = fdpos /\ fdpos <= Len(input) /\ NextByte = BufStart + p
    BY <1>1, ForwardFacts
  <1>3. /\ Len(buf) \in Nat /\ fdpos \in Nat /\ start \in Nat /\ p \in Nat /\ Len(input) \in Nat
        /\ s.last \in Nat \cup {Null} /\ s.sum \in Nat /\ opt.score \in Nat /\ opt.line \in Nat
        /\ opt.bytes \in Nat /\ s \in ScoresType /\ opt \in Options /\ input \in Inputs
        /\ out \in Seq(Nat)
    BY <1>2, Numbers DEF TypeOK
  <1>4. p < Len(buf)
    BY <1>1 DEF TextInv, Places, ForwardPlaces
  <1>5. c \in Chars /\ c = input[at + 1] /\ at \in Nat /\ start <= at /\ at < Len(input)
    <2>1. BufStart \in Int /\ BufStart + Len(buf) <= fdpos
      BY <1>2, <1>3
    <2>2. c \in Chars /\ buf[p + 1] = BufStart + p
      BY <1>2, <1>3, <1>4, <2>1, BufferShows
    <2>3. c = input[at + 1]
      BY <1>2, <2>2 DEF CharAt
    <2>4. at \in Nat /\ start <= at /\ at < Len(input)
      <3> DEFINE n == Len(buf)
                 m == Len(input)
      <3>1. /\ n \in Nat /\ m \in Nat /\ start \in Nat /\ p \in Nat /\ BufStart \in Nat /\ fdpos \in Nat
            /\ start <= BufStart /\ BufStart + n = fdpos /\ fdpos <= m /\ p < n /\ at = BufStart + p
        BY <1>2, <1>3, <1>4
      <3> HIDE DEF n, m, at
      <3>2. at \in Nat /\ start <= at /\ at < m
        BY <3>1
      <3> QED
        BY <3>2 DEF m
    <2> QED
      BY <2>2, <2>3, <2>4
  <1>6. /\ opt.line > 0 => LineRuns(opt.line, input, start, at, s.line)
        /\ opt.bytes > 0 => s.bytes = at - start
        /\ EndsLimited(s.sum, input, start, at)
        /\ StretchesLimited(opt.score, input, start, at)
    BY <1>1 DEF LimitInv, RunningLimits, SeenLimits
  <1> HIDE DEF c
  <1>7. /\ t.sum \in Nat /\ t.sum >= s.sum + scorelut[c] /\ t.last = IF IsLetter(c) THEN p ELSE s.last
        /\ opt.line > 0 => /\ t.line \in Nat /\ s.line \in Nat
                           /\ t.line = IF c \in Newlines THEN 0 ELSE s.line + 1
        /\ opt.bytes > 0 => t.bytes = s.bytes + 1
        /\ ~StopsAt(t) => /\ t.sum <= opt.score
                          /\ opt.line > 0 => t.line <= opt.line
                          /\ opt.bytes > 0 => t.bytes <= opt.bytes
    <2>1. opt \in Options /\ s \in ScoresType /\ c \in Chars /\ p \in Nat /\ 1 \in {-1, 1}
      BY <1>3, <1>5
    <2> QED
      BY ONLY <2>1, InspectedLimits
  <1>8. StopsAt(t) \in BOOLEAN
    BY DEF StopsAt
  <1> HIDE DEF t
  <1>9. scorelut[c] \in Int
    BY <1>5, TableTypes
  <1>10. BufStart' = BufStart
    BY <1>1 DEF BufStart
  <1>11. EndsLimited(t.sum, input, start, at + 1)
    <2> DEFINE k == t.sum
               m == s.sum
               n == at
    <2>1. k \in Int /\ m \in Nat /\ k >= m + scorelut[input[n + 1]] /\ n \in Nat /\ n < Len(input)
      BY <1>3, <1>5, <1>7
    <2>2. EndsLimited(m, input, start, n)
      BY <1>6
    <2> HIDE DEF k, m, n
    <2>3. EndsLimited(k, input, start, n + 1)
      BY <1>3, <2>1, <2>2, EndsGrow
    <2> QED
      BY <2>3 DEF k, n
  <1>12. CASE StopsAt(t)
    <2>1. pc' = "finish" /\ p' = p /\ s' = t /\ Forward'
      BY <1>1, <1>12 DEF Forward
    <2>2. NextByte' = NextByte
      BY <1>1, <2>1 DEF NextByte
    <2>3. OutLimits' /\ CountLimits'
      BY <1>1, <1>10, <2>1, <2>2 DEF LimitInv, OutLimits, CountLimits
    <2>4. t.last = Null \/ t.last <= p
      <3>1. s.last = Null \/ s.last < p
        BY <1>1 DEF TextInv, ScoreInv
      <3> QED
        BY <1>3, <1>7, <3>1
    <2>5. ASSUME t.last = p PROVE EndsLimited(opt.score, input, start, at + 1)
      <3>1. IsLetter(c)
        <4>1. s.last = Null \/ s.last < p
          BY <1>1 DEF TextInv, ScoreInv
        <4>2. s.last # p
          BY <1>3, <4>1 DEF Null
        <4> QED
          BY <1>7, <2>5, <4>2
      <3>2. EndsLimited(opt.score, input, start, at)
        BY <1>3, <1>5, <1>6, StretchesEnd
      <3>3. opt.score >= opt.score + scorelut[input[at + 1]] /\ opt.score \in Int
        BY <1>3, <1>5, <1>9, <3>1 DEF IsLetter
      <3> QED
        BY <1>3, <1>5, <3>2, <3>3, EndsGrow
    <2>6. SeenLimits'
      BY <1>1, <1>6, <2>1, <2>2, <2>4, <2>5 DEF SeenLimits
    <2> QED
      BY <2>1, <2>3, <2>6 DEF LimitInv, RunningLimits, BackLimits
  <1>13. CASE ~StopsAt(t)
    <2>1. pc' \in {"read", "flush", "inspect"} /\ p' = p + 1 /\ s' = t /\ Forward'
      BY <1>1, <1>13 DEF AfterLast, Forward
    <2>2. NextByte' = at + 1
      BY <1>1, <1>3, <2>1 DEF NextByte
    <2>3. OutLimits'
      <3>1. \A i \in 1..Len(out) : out[i] \in Nat
        BY <1>3, ElementOfSeq
      <3>2. \A i \in 1..Len(out) : out[i] <= at + 1
        BY <1>1, <1>5, <3>1 DEF LimitInv, OutLimits
      <3> QED
        BY <1>1, <1>10, <2>1, <2>2, <3>2 DEF LimitInv, OutLimits
    <2>4. opt.line > 0 => LineRuns(opt.line, input, start, at + 1, t.line)
      BY <1>3, <1>5, <1>6, <1>7, <1>13, LineGrows
    <2>5. CountLimits'
      <3>1. opt.line > 0 => LinesFit(opt.line, input, start, at + 1)
        <4>1. at + 1 \in Nat
          BY <1>5
        <4> QED
          BY <1>3, <1>7, <2>4, <4>1, RunsFit
      <3>2. opt.bytes > 0 => at + 1 <= start + opt.bytes
        BY <1>3, <1>5, <1>6, <1>7, <1>13
      <3> QED
        BY <1>1, <2>2, <3>1, <3>2 DEF CountLimits
    <2>6. RunningLimits'
      <3>1. opt.bytes > 0 => t.bytes = at + 1 - start
        BY <1>3, <1>5, <1>6, <1>7
      <3> QED
        BY <1>1, <1>3, <1>5, <1>11, <2>1, <2>2, <2>4, <3>1 DEF RunningLimits
    <2>7. SeenLimits'
      <3>1. EndsLimited(opt.score, input, start, at + 1)
        BY <1>3, <1>5, <1>7, <1>11, <1>13, EndsWeaken
      <3>2. StretchesLimited(opt.score, input, start, at + 1)
        BY <1>3, <1>5, <1>6, <3>1, StretchesGrow
      <3> QED
        BY <1>1, <2>1, <2>2, <3>2 DEF SeenLimits
    <2> QED
      BY <2>1, <2>3, <2>5, <2>6, <2>7 DEF LimitInv, BackLimits
  <1> QED
    BY <1>8, <1>12, <1>13

\* What is written out of the buffer before index n is what the limits are proved of.
LEMMA BufferWritten ==
    ASSUME TextInv, LimitInv, Forward, NEW n \in Nat, n <= Len(buf),
           WriteAll(SubSeq(buf, 1, n)) \/ WriteFails(SubSeq(buf, 1, n)),
           StretchesLimited(opt.score, input, start, BufStart + n)
    PROVE  /\ out' \in Seq(Nat) /\ Limited(opt.score, input, start, out')
           /\ \A i \in 1..Len(out') : out'[i] < BufStart + n
  <1>1. /\ TypeOK /\ BufStart \in Nat /\ start <= BufStart /\ Run(buf, BufStart)
        /\ BufStart + Len(buf) = fdpos /\ fdpos <= Len(input)
    BY ForwardFacts
  <1>2. /\ Len(buf) \in Nat /\ start \in Nat /\ opt.score \in Nat /\ out \in Seq(Nat) /\ failed \in BOOLEAN
        /\ input \in Inputs /\ Len(input) \in Nat /\ Len(out) \in Nat
    BY <1>1, Numbers DEF TypeOK
  <1>3. SubSeq(buf, 1, n) \in Seq(Nat) /\ Len(SubSeq(buf, 1, n)) = n /\ Run(SubSeq(buf, 1, n), BufStart)
    BY <1>1, BufferParts
  <1> DEFINE b == SubSeq(buf, 1, n)
             x == BufStart
  <1>4. b \in Seq(Nat) /\ Len(b) = n /\ Run(b, x) /\ x \in Int /\ (WriteAll(b) \/ WriteFails(b))
    BY <1>1, <1>3
  <1>5. Limited(opt.score, input, start, out) /\ \A i \in 1..Len(out) : out[i] < x
    BY DEF LimitInv, OutLimits
  <1>6. x \in Nat /\ start <= x /\ x + Len(buf) <= Len(input)
    BY <1>1, <1>2
  <1>7. StretchesLimited(opt.score, input, start, x + n)
    OBVIOUS
  <1> HIDE DEF b, x
  <1>8. PICK k \in 0..n : out' \in Seq(Nat) /\ Appends(out, out', x, k)
    BY <1>2, <1>4, WrittenPart
  <1>9. k \in Nat /\ k <= n /\ x + k \in Int /\ x + n \in Int /\ x + k <= x + n /\ x + k <= Len(input)
    BY <1>2, <1>6
  <1>10. Limited(opt.score, input, start, out')
    <2>1. start <= start /\ StretchesLimited(opt.score, input, start, x + k)
      BY <1>2, <1>7, <1>9, StretchesPart
    <2> QED
      BY <1>2, <1>5, <1>6, <1>8, <1>9, <2>1, LimitedGrows
  <1>11. ASSUME NEW i \in 1..Len(out') PROVE out'[i] < x + n
    <2>1. Len(out') = Len(out) + k /\ out'[i] = IF i <= Len(out) THEN out[i] ELSE x + (i - Len(out)) - 1
      BY <1>8 DEF Appends
    <2>2. CASE i <= Len(out)
      <3>1. out[i] < x /\ out'[i] = out[i] /\ out[i] \in Nat
        BY <1>2, <1>5, <2>1, <2>2, ElementOfSeq
      <3> QED
        BY <1>6, <3>1
    <2>3. CASE ~(i <= Len(out))
      <3> DEFINE d == i - Len(out)
      <3>1. d \in Int /\ d <= k /\ out'[i] = x + d - 1
        BY <1>2, <1>9, <2>1, <2>3
      <3> HIDE DEF d
      <3> QED
        BY <1>6, <1>9, <3>1
    <2> QED
      BY <2>2, <2>3
  <1> QED
    BY <1>8, <1>10, <1>11 DEF x

\* A flush moves bytes from the buffer to the output, and inspects none.
LEMMA FlushLimits == ASSUME TextInv, LimitInv, Flush PROVE LimitInv'
  <1>1. /\ pc = "flush" /\ Forward /\ pc' = "read" /\ Forward' /\ s.last # Null
        /\ WriteAll(BeforeLetter)
        /\ buf' = FromLetter /\ p' = Len(FromLetter) /\ s' = [s EXCEPT !.last = Null]
        /\ UNCHANGED <<opt, input, start, fdpos>>
    BY DEF Flush, Forward
  <1>2. /\ TypeOK /\ BufStart \in Nat /\ start <= BufStart /\ Run(buf, BufStart)
        /\ BufStart + Len(buf) = fdpos /\ fdpos <= Len(input) /\ NextByte = BufStart + p
    BY <1>1, ForwardFacts
  <1>3. /\ Len(buf) \in Nat /\ fdpos \in Nat /\ start \in Nat /\ p \in Nat /\ s \in ScoresType
        /\ s.last \in Nat /\ s.last < Len(buf) /\ p = Len(buf)
    BY <1>1, <1>2, Numbers DEF TextInv, TypeOK, Places, ForwardPlaces
  <1>4. Len(FromLetter) = Len(buf) - s.last
    <2> DEFINE n == s.last
    <2>1. n \in Nat /\ n <= Len(buf)
      BY <1>3
    <2> HIDE DEF n
    <2>2. Len(SubSeq(buf, n + 1, Len(buf))) = Len(buf) - n
      BY <1>2, <2>1, BufferParts
    <2> QED
      BY <2>2 DEF FromLetter, n
  <1>5. BufStart' = BufStart + s.last /\ NextByte' = fdpos /\ NextByte = fdpos
    <2> DEFINE n == Len(buf)
               m == Len(FromLetter)
    <2>1. n \in Nat /\ m \in Nat /\ m = n - s.last /\ s.last \in Nat /\ fdpos \in Nat /\ p = n
      BY <1>3, <1>4
    <2>2. BufStart' = fdpos - m /\ NextByte' = fdpos - (m - m) /\ NextByte = fdpos - (n - p)
          /\ BufStart = fdpos - n
      BY <1>1 DEF NextByte, BufStart
    <2> DEFINE l == s.last
    <2>3. l \in Nat /\ m = n - l
      BY <2>1
    <2> HIDE DEF n, m, l
    <2>4. fdpos - m = (fdpos - n) + l
      BY <2>1, <2>3
    <2>5. fdpos - (m - m) = fdpos /\ fdpos - (n - p) = fdpos
      BY <2>1
    <2> QED
      BY <2>2, <2>4, <2>5 DEF l
  <1>6. StretchesLimited(opt.score, input, start, BufStart + s.last)
    <2>1. StretchesLimited(opt.score, input, start, NextByte)
      BY <1>1 DEF LimitInv, SeenLimits
    <2>2. start <= start /\ BufStart + s.last <= NextByte /\ BufStart + s.last \in Int
      BY <1>2, <1>3
    <2> QED
      BY <1>3, <1>5, <2>1, <2>2, StretchesPart
  <1>7. /\ out' \in Seq(Nat) /\ Limited(opt.score, input, start, out')
        /\ \A i \in 1..Len(out') : out'[i] < BufStart + s.last
    BY <1>1, <1>3, <1>6, BufferWritten DEF BeforeLetter
  <1>8. OutLimits'
    <2>1. \A i \in 1..Len(out') : out'[i] <= fdpos
      <3>1. \A i \in 1..Len(out') : out'[i] \in Nat
        BY <1>7, ElementOfSeq
      <3>2. BufStart + s.last \in Int /\ BufStart + s.last <= fdpos /\ fdpos \in Int
        BY <1>2, <1>3
      <3>3. ASSUME NEW i \in 1..Len(out') PROVE out'[i] <= fdpos
        <4>1. out'[i] \in Int /\ out'[i] < BufStart + s.last
          BY <1>7, <3>1
        <4> QED
          BY <3>2, <4>1
      <3> QED
        BY <3>3
    <2> QED
      BY <1>1, <1>5, <1>7, <2>1 DEF OutLimits
  <1>9. CountLimits'
    BY <1>1, <1>5 DEF LimitInv, CountLimits
  <1>10. RunningLimits'
    <2>1. s'.line = s.line /\ s'.bytes = s.bytes /\ s'.sum = s.sum
      BY <1>1, <1>3 DEF ScoresType
    <2> QED
      BY <1>1, <1>5, <2>1 DEF LimitInv, RunningLimits
  <1>11. SeenLimits' /\ BackLimits'
    BY <1>1, <1>5 DEF LimitInv, SeenLimits, BackLimits
  <1> QED
    BY <1>8, <1>9, <1>10, <1>11 DEF LimitInv

\* At the end only the output matters, and how far it may go.
LEMMA EndLimits ==
    ASSUME TypeOK, LimitInv, pc' \in {"done", "internal_error"}, UNCHANGED <<opt, input, start, fdpos, buf, p>>,
           Limited(opt.score, input, start, out'), \A i \in 1..Len(out') : out'[i] <= NextByte
    PROVE  LimitInv'
  <1>1. NextByte' = NextByte
    BY DEF NextByte
  <1>2. OutLimits' /\ CountLimits'
    BY <1>1 DEF LimitInv, OutLimits, CountLimits, Forward
  <1> QED
    BY <1>2 DEF LimitInv, RunningLimits, SeenLimits, BackLimits, Forward

LEMMA FlushFailsLimits == ASSUME TextInv, LimitInv, FlushFails PROVE LimitInv'
  <1>1. /\ pc = "flush" /\ Forward /\ pc' = "done" /\ s.last # Null
        /\ (BeforeLetter = <<>> /\ UNCHANGED <<out, failed>>) \/ WriteFails(BeforeLetter)
        /\ UNCHANGED <<opt, input, start, fdpos, buf, p>>
    BY DEF FlushFails, Forward
  <1>2. /\ TypeOK /\ BufStart \in Nat /\ start <= BufStart /\ Run(buf, BufStart)
        /\ NextByte = BufStart + p
    BY <1>1, ForwardFacts
  <1>3. /\ Len(buf) \in Nat /\ start \in Nat /\ p \in Nat /\ s.last \in Nat /\ s.last < Len(buf) /\ p = Len(buf)
    BY <1>1, <1>2, Numbers DEF TextInv, TypeOK, Places, ForwardPlaces
  <1>4. CASE UNCHANGED <<out, failed>>
    <2>1. Limited(opt.score, input, start, out) /\ \A i \in 1..Len(out) : out[i] <= NextByte
      BY DEF LimitInv, OutLimits
    <2> QED
      BY <1>1, <1>2, <1>4, <2>1, EndLimits
  <1>5. CASE WriteFails(BeforeLetter)
    <2>1. StretchesLimited(opt.score, input, start, NextByte)
      BY <1>1 DEF LimitInv, SeenLimits
    <2>2. start <= start /\ BufStart + s.last <= NextByte /\ BufStart + s.last \in Int /\ NextByte \in Int
      BY <1>2, <1>3
    <2>3. StretchesLimited(opt.score, input, start, BufStart + s.last)
      BY <1>3, <2>1, <2>2, StretchesPart
    <2>4. /\ out' \in Seq(Nat) /\ Limited(opt.score, input, start, out')
          /\ \A i \in 1..Len(out') : out'[i] < BufStart + s.last
      BY <1>1, <1>3, <1>5, <2>3, BufferWritten DEF BeforeLetter
    <2>5. \A i \in 1..Len(out') : out'[i] <= NextByte
      <3>1. \A i \in 1..Len(out') : out'[i] \in Nat
        BY <2>4, ElementOfSeq
      <3> QED
        BY <2>2, <2>4, <3>1
    <2> QED
      BY <1>1, <1>2, <2>4, <2>5, EndLimits
  <1> QED
    BY <1>1, <1>4, <1>5

LEMMA InternalErrorLimits == ASSUME TextInv, LimitInv, InternalError PROVE LimitInv'
  <1>1. pc' = "internal_error" /\ UNCHANGED <<opt, input, start, fdpos, buf, p, out>> /\ TypeOK
    BY DEF InternalError, TextInv
  <1>2. Limited(opt.score, input, start, out) /\ \A i \in 1..Len(out) : out[i] <= NextByte
    BY DEF LimitInv, OutLimits
  <1> QED
    BY <1>1, <1>2, EndLimits

\* What is left is written up to the last letter, which may be the byte that ended the text.
LEMMA FinishLimits == ASSUME TextInv, LimitInv, Finish PROVE LimitInv'
  <1>1. /\ pc = "finish" /\ Forward /\ pc' = "done"
        /\ WriteAll(UpToLetter) \/ WriteFails(UpToLetter)
        /\ UNCHANGED <<opt, input, start, fdpos, buf, p, s>>
    BY DEF Finish, Forward
  <1>2. /\ TypeOK /\ BufStart \in Nat /\ start <= BufStart /\ Run(buf, BufStart)
        /\ NextByte = BufStart + p /\ BufStart + Len(buf) = fdpos /\ fdpos <= Len(input)
    BY <1>1, ForwardFacts
  <1>3. /\ s.last \in Nat \cup {Null} /\ p \in Nat /\ Len(buf) \in Nat /\ (s.last # Null => s.last < Len(buf))
        /\ start \in Nat /\ opt.score \in Nat /\ input \in Inputs
    BY <1>1, <1>2, Numbers DEF TextInv, TypeOK, Places
  <1> DEFINE n == s.last + 1
  <1>4. n \in Nat /\ n <= Len(buf) /\ (s.last = Null => n = 0) /\ (s.last # Null => n = s.last + 1)
    BY <1>3 DEF Null
  <1>5. UpToLetter = SubSeq(buf, 1, n)
    BY <1>3, <1>4, SubSeqEmpty DEF UpToLetter
  <1>6. /\ StretchesLimited(opt.score, input, start, NextByte)
        /\ s.last = Null \/ s.last <= p
        /\ s.last = p => EndsLimited(opt.score, input, start, NextByte + 1)
    BY <1>1 DEF LimitInv, SeenLimits
  <1>7. StretchesLimited(opt.score, input, start, BufStart + n)
    <2>1. CASE s.last = p
      <3>1. BufStart + n = NextByte + 1 /\ NextByte \in Nat
        BY <1>2, <1>3, <2>1
      <3>2. StretchesLimited(opt.score, input, start, NextByte + 1)
        BY <1>3, <1>6, <2>1, <3>1, StretchesGrow
      <3> QED
        BY <3>1, <3>2
    <2>2. CASE s.last # p
      <3>1. n <= p
        BY <1>3, <1>4, <1>6, <2>2
      <3> HIDE DEF n
      <3>2. start <= start /\ BufStart + n <= NextByte /\ BufStart + n \in Int /\ NextByte \in Int
        BY <1>2, <1>3, <1>4, <3>1
      <3> QED
        BY <1>3, <1>6, <3>2, StretchesPart
    <2> QED
      BY <2>1, <2>2
  <1>8. n <= p + 1
    BY <1>3, <1>4, <1>6
  <1> HIDE DEF n
  <1>9. /\ out' \in Seq(Nat) /\ Limited(opt.score, input, start, out')
        /\ \A i \in 1..Len(out') : out'[i] < BufStart + n
    BY <1>1, <1>4, <1>5, <1>7, BufferWritten
  <1>10. \A i \in 1..Len(out') : out'[i] <= NextByte
    <2>1. \A i \in 1..Len(out') : out'[i] \in Nat
      BY <1>9, ElementOfSeq
    <2>2. BufStart + n <= NextByte + 1 /\ BufStart + n \in Int /\ NextByte \in Int
      BY <1>2, <1>3, <1>4, <1>8
    <2>3. ASSUME NEW i \in 1..Len(out') PROVE out'[i] <= NextByte
      <3>1. out'[i] \in Int /\ out'[i] < BufStart + n
        BY <1>9, <2>1
      <3> QED
        BY <2>2, <3>1
    <2> QED
      BY <2>3
  <1> QED
    BY <1>1, <1>2, <1>9, <1>10, EndLimits

LEMMA NextLimits == ASSUME TextInv, LimitInv, [Next]_vars PROVE LimitInv'
  <1>1. CASE UNCHANGED vars
    <2>1. UNCHANGED <<pc, opt, input, start, fdpos, buf, p, s, out>>
      BY <1>1 DEF vars
    <2>2. BufStart' = BufStart /\ (Forward' <=> Forward) /\ NextByte' = NextByte
      BY <2>1 DEF BufStart, Forward, NextByte
    <2>3. OutLimits' /\ CountLimits'
      BY <2>1, <2>2 DEF LimitInv, OutLimits, CountLimits
    <2>4. RunningLimits' /\ SeenLimits' /\ BackLimits'
      BY <2>1, <2>2 DEF LimitInv, RunningLimits, SeenLimits, BackLimits
    <2> QED
      BY <2>3, <2>4 DEF LimitInv
  <1>2. CASE Main \/ CannotStart
    BY <1>2, MainLimits, GivesUpLimits
  <1>3. CASE NothingBefore \/ ReadBackward \/ ReadBackwardFails \/ InspectBackward
    BY <1>3, NothingBeforeLimits, ReadBackwardLimits, GivesUpLimits, InspectBackwardLimits
  <1>4. CASE Read \/ ReadEnds \/ Inspect
    BY <1>4, ReadLimits, ReadEndsLimits, InspectLimits
  <1>5. CASE Flush \/ FlushFails \/ InternalError \/ Finish
    BY <1>5, FlushLimits, FlushFailsLimits, InternalErrorLimits, FinishLimits
  <1> QED
    BY <1>1, <1>2, <1>3, <1>4, <1>5 DEF Next

(***************************************************************************)
(* The theorems.                                                           *)
(***************************************************************************)

\* The invariant holds of every run of textextract.
THEOREM TextInvariant == Spec => []TextInv
  <1> QED
    BY InitHolds, NextKeeps, PTL DEF Spec

\* The variables keep their types, and the buffer is never overfull.
THEOREM TextTypes == Spec => []TypeOK
  <1>1. TextInv => TypeOK
    BY DEF TextInv
  <1> QED
    BY <1>1, TextInvariant, PTL

\* The branch "this shouldn't happen" is taken only where -s asks for a score that does
\* not fit the buffer, and otherwise every flush has something to write.
THEOREM BufferNeverStuck == Spec => []FlushFindsLetter
  <1>1. TextInv => FlushFindsLetter
    <2> SUFFICES ASSUME TextInv PROVE FlushFindsLetter
      OBVIOUS
    <2>1. TypeOK
      BY DEF TextInv
    <2>2. /\ s.last \in Nat \cup {Null} /\ s.sum \in Nat /\ opt.score \in Nat /\ Capacity \in Nat
      BY <2>1, Numbers
    <2>3. ASSUME pc = "flush", Capacity > opt.score + 1 PROVE s.last > 0
      <3>1. /\ p = Capacity /\ s.sum <= opt.score
            /\ IF s.last = Null THEN p - 1 <= s.sum ELSE s.last < p /\ p - s.last - 1 <= s.sum
        BY <2>3 DEF TextInv, Places, ForwardPlaces, ScoreInv
      <3>2. s.last # Null
        BY <2>2, <2>3, <3>1
      <3>3. s.last \in Nat /\ s.last # 0
        BY <2>2, <2>3, <3>1, <3>2
      <3> QED
        BY <3>3
    <2> QED
      BY <2>3 DEF TextInv, ScoreInv, FlushFindsLetter
  <1> QED
    BY <1>1, TextInvariant, PTL

\* However the reads are cut and wherever the buffer fills up, the output is one stretch
\* of the input around the start.
THEOREM OutputIsWhole == Spec => []OutputIsOneStretch
  <1>1. TextInv => OutputIsOneStretch
    <2> SUFFICES ASSUME TextInv, ~failed, out # <<>>
                 PROVE  /\ \A i \in 1..Len(out)-1 : out[i + 1] = out[i] + 1
                        /\ out[1] <= start /\ start <= out[Len(out)] + 1
      BY DEF OutputIsOneStretch
    <2>1. TypeOK
      BY DEF TextInv
    <2>2. start \in Nat /\ Len(out) \in Nat /\ Len(out) # 0 /\ fdpos \in Nat /\ Len(buf) \in Nat
      BY <2>1, Numbers, EmptySeq DEF TypeOK
    <2>3. PICK x \in Int : Run(out, x) /\ x <= start /\ start <= x + Len(out)
      <3>1. CASE Forward
        <4> DEFINE y == BufStart - Len(out)
        <4>1. Run(out, y) /\ y <= start /\ start <= BufStart /\ BufStart \in Nat
          BY <3>1, ForwardFacts DEF TextInv, OutInv
        <4>2. y \in Int /\ y + Len(out) = BufStart
          BY <2>2, <4>1
        <4> HIDE DEF y
        <4> QED
          BY <4>1, <4>2
      <3>2. CASE ~Forward
        BY <3>2 DEF TextInv, OutInv
      <3> QED
        BY <3>1, <3>2
    <2>4. \A i \in 1..Len(out) : out[i] = x + i - 1
      BY <2>3 DEF Run
    <2>5. out[1] = x /\ out[Len(out)] = x + Len(out) - 1
      BY <2>2, <2>4
    <2>6. ASSUME NEW i \in 1..Len(out)-1 PROVE out[i + 1] = out[i] + 1
      BY <2>2, <2>4
    <2> QED
      BY <2>2, <2>3, <2>5, <2>6
  <1> QED
    BY <1>1, TextInvariant, PTL

\* Of the letters inspected at most the last is missing from the output.
THEOREM NoLetterLost == Spec => []LettersKept
  <1>1. TextInv => LettersKept
    BY DEF TextInv, LetterInv
  <1> QED
    BY <1>1, TextInvariant, PTL

\* Without a backward pass the score is raised at the block boundaries of the input.
THEOREM BlocksAreInPlace == Spec => []BlocksFromStart
  <1>1. TextInv => BlocksFromStart
    BY DEF TextInv, OffsetInv, BlocksFromStart
  <1> QED
    BY <1>1, TextInvariant, PTL

\* No stretch of the output scores more than -s allows, whatever was raised and cut off
\* on the way, and no line and no output is more than a byte longer than -l and -M allow.
THEOREM LimitsAreKept == Spec => []OutputWithinLimits
  <1>1. ASSUME TextInv, LimitInv PROVE OutputWithinLimits
    <2>1. TypeOK
      BY <1>1 DEF TextInv
    <2>2. /\ start \in Nat /\ fdpos \in Nat /\ Len(buf) \in Nat /\ p \in Nat /\ Len(out) \in Nat
          /\ opt.score \in Nat /\ opt.line \in Nat /\ opt.bytes \in Nat /\ input \in Inputs
          /\ out \in Seq(Nat) /\ DOMAIN out = 1..Len(out)
      BY <2>1, Numbers, LenProperties DEF TypeOK
    <2>3. NextByte \in Int
      BY <2>2 DEF NextByte
    <2>4. \A i \in 1..Len(out) : out[i] \in Nat /\ out[i] <= NextByte
      BY <1>1, <2>2, ElementOfSeq DEF LimitInv, OutLimits
    <2>5. ASSUME NEW i \in DOMAIN out, NEW j \in DOMAIN out, i <= j, out[i] >= start \/ out[j] < start
          PROVE  ScoreOf(out[i], out[j]) <= opt.score
      <3>1. out[i] <= out[j] /\ out[j] < Len(input) /\ Cost(input, out[i], out[j]) <= opt.score
        BY <1>1, <2>2, <2>5 DEF LimitInv, OutLimits, Limited
      <3>2. out[i] \in Nat /\ out[j] \in Nat
        BY <2>2, <2>4
      <3> QED
        BY <2>2, <3>1, <3>2, ScoreIsCost
    <2>6. \A x \in Kept : x \in Nat /\ start <= x /\ x <= NextByte
      BY <2>2, <2>4 DEF Kept
    <2>7. ASSUME opt.line > 0, NEW x \in Kept
          PROVE  \E y \in x..(x + opt.line + 1) : y \notin Kept \/ CharAt(y) \in Newlines
      <3>1. x \in Nat /\ start <= x /\ x <= NextByte
        BY <2>6
      <3>2. CASE x = NextByte
        <4>1. x + 1 \in x..(x + opt.line + 1) /\ x + 1 \notin Kept
          BY <2>2, <2>3, <2>6, <3>1, <3>2
        <4> QED
          BY <4>1
      <3>3. CASE x # NextByte
        <4>1. x < NextByte
          BY <2>3, <3>1, <3>3
        <4>2. PICK y \in Nat : /\ x <= y /\ y <= x + opt.line + 1
                               /\ y > NextByte \/ (y < NextByte /\ input[y + 1] \in Newlines)
          BY <1>1, <2>7, <3>1, <4>1 DEF LimitInv, CountLimits, LinesFit
        <4>3. y \in x..(x + opt.line + 1)
          BY <2>2, <3>1, <4>2
        <4>4. y \notin Kept \/ CharAt(y) \in Newlines
          BY <2>3, <2>6, <4>2 DEF CharAt
        <4> QED
          BY <4>3, <4>4
      <3> QED
        BY <3>2, <3>3
    <2>8. ASSUME opt.bytes > 0, NEW x \in Kept PROVE x <= start + opt.bytes
      <3>1. NextByte <= start + opt.bytes
        BY <1>1, <2>8 DEF LimitInv, CountLimits
      <3> QED
        BY <2>2, <2>3, <2>6, <3>1
    <2> QED
      BY <2>5, <2>7, <2>8 DEF OutputWithinLimits
  <1>2. Init => TextInv /\ LimitInv
    BY InitHolds, InitLimits
  <1>3. TextInv /\ LimitInv /\ [Next]_vars => (TextInv /\ LimitInv)'
    BY NextKeeps, NextLimits
  <1>4. TextInv /\ LimitInv => OutputWithinLimits
    BY <1>1
  <1> QED
    BY <1>2, <1>3, <1>4, PTL DEF Spec

=============================================================================
