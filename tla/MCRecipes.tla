----------------------------- MODULE MCRecipes -----------------------------
(***************************************************************************)
(* Small instances of Recipes: two characters, the letter a and the line   *)
(* end, whose score is the lower one; a machine word of four bytes.        *)
(***************************************************************************)
EXTENDS Recipes

a == 97
eol == 10

MCScoreTable == [b \in Bytes |-> CASE b = 0 -> 1747 [] b = eol -> 91 [] b = a -> 123 [] OTHER -> 16]

\* a\n, \x61\n, \na, a\na, a, \n and \x00, as they are written in a recipe.
AEol    == <<a, 92, 110>>
HexAEol == <<92, 120, 54, 49, 92, 110>>
EolA    == <<92, 110, a>>
AEolA   == <<a, 92, 110, a>>
OnlyA   == <<a>>
OnlyEol == <<92, 110>>
Zeros   == <<92, 120, 48, 48, 92, 120, 48, 48>>

MCMeaning ==
    [w \in {AEol, HexAEol, EolA, AEolA, OnlyA, OnlyEol, Zeros} |->
        CASE w \in {AEol, HexAEol} -> <<a, eol>> [] w = EolA -> <<eol, a>> [] w = AEolA -> <<a, eol, a>>
          [] w = OnlyA -> <<a>> [] w = OnlyEol -> <<eol>> [] w = Zeros -> <<0, 0>>]

\* The numbers 610A0000 and FFFF0000, in hexadecimal.
Number == <<54, 49, 48, 65, 48, 48, 48, 48>>
Mask   == <<70, 70, 70, 70, 48, 48, 48, 48>>

Match(offset, op, words) == [is |-> "match", op |-> op, offset |-> offset, words |-> words]
Directive(op) == [is |-> "directive", op |-> op, offset |-> 0, words |-> <<OnlyA>>]
Ignored == [is |-> "ignored", op |-> "", offset |-> 0, words |-> <<>>]
Command == Directive("command")

Whole(lines) == [lines |-> lines, newline |-> TRUE]

MCFiles == [
    plain    |-> Whole(<<Match(0, "string", <<AEol>>), Directive("extension"), Command>>),
    twin     |-> Whole(<<Match(0, "string", <<HexAEol>>), Match(3, "char", <<OnlyA>>), Command>>),
    shifted  |-> Whole(<<Match(1, "string", <<AEol>>), Ignored, Match(0, "char", <<OnlyEol>>), Command>>),
    masked   |-> [lines |-> <<Match(1, "int32", <<Number, Mask>>), Match(2, "char", <<OnlyEol>>),
                              Directive("min_output_file"), Command>>, newline |-> FALSE],
    long     |-> Whole(<<Match(0, "string", <<AEolA>>), Match(3, "string", <<EolA>>), Command>>),
    nulls    |-> Whole(<<Match(0, "string", <<Zeros>>), Command>>),
    \* Recipes that need -b, or that parse_recipe refuses.
    number   |-> Whole(<<Match(0, "int32", <<Number, Mask>>), Command>>),
    nothing  |-> Whole(<<Match(0, "string", <<AEol>>), Directive("rename")>>),
    unknown  |-> Whole(<<Match(0, "md5", <<AEol>>), Command>>),
    empty    |-> Whole(<<Match(0, "string", << <<>> >>), Command>>),
    oneword  |-> Whole(<<Match(0, "string", <<AEol>>), Match(0, "int32", <<Number>>), Command>>),
    chopped  |-> [lines |-> <<Match(0, "string", <<AEol>>), Command, Directive("extension")>>,
                  newline |-> FALSE],
    invalid  |-> Whole(<<Directive("comand")>>)]

BlockSize(n) == [opt |-> "b", block |-> n, found |-> FALSE, files |-> <<>>]
OutputDir == [opt |-> "d", block |-> 0, found |-> TRUE, files |-> <<>>]
NoSuchDir == [OutputDir EXCEPT !.found = FALSE]
Recipe(files) == [opt |-> "r", block |-> 0, found |-> FALSE, files |-> files]

MCCommandLines == {
    <<OutputDir, Recipe(<<"plain", "twin">>), Recipe(<<"shifted">>), Recipe(<<"plain">>)>>,
    <<BlockSize(4), Recipe(<<"number">>), Recipe(<<"twin">>), BlockSize(1), Recipe(<<"twin">>), OutputDir>>,
    <<BlockSize(2), Recipe(<<"long">>), BlockSize(4), Recipe(<<"shifted">>), OutputDir>>,
    <<Recipe(<<"long">>), Recipe(<<"masked", "shifted">>), OutputDir, Recipe(<<"nulls">>)>>,
    <<OutputDir, Recipe(<<"masked">>)>>,
    <<Recipe(<<"shifted">>), Recipe(<<"long">>)>>,
    <<OutputDir, Recipe(<<>>)>>,
    <<Recipe(<<"plain">>), NoSuchDir>>,
    <<OutputDir, BlockSize(3), Recipe(<<"plain">>)>>}
    \cup {<<OutputDir, Recipe(<<f>>)>> :
          f \in {"number", "nothing", "unknown", "empty", "oneword", "chopped", "invalid", "absent"}}

\* All windows of a and line ends that matter to the recipes with these offsets,
\* and two with zeros.
MCWindows ==
    {w \o <<a, eol, a, a, a, a, a>> : w \in [1..6 -> {a, eol}]}
    \cup {w \o <<0, 0, eol, a, a, a, a, a, a, a, a, a>> : w \in [1..1 -> {0, a}]}

\* The conditions of the theorem about MatchesFound hold here.
ASSUME HypothesesHold == StringsMean /\ MatchLinesEnd

=============================================================================
