------------------------------ MODULE Recipes ------------------------------
(***************************************************************************)
(* From the command line to the matches: main's options -b, -d and -r,     *)
(* parse_recipe, which turns a recipe file into a scanner and a recipe     *)
(* under it and lets overlap grow (src/src/magicrescue.c), the scanner     *)
(* functions (src/src/scanner.c), the operations (src/src/recipe.c) and    *)
(* the search of one window of a device by all of them (scan_buf).  The    *)
(* extractions claim nothing here: ScanDisk is about the skip ranges.      *)
(*                                                                         *)
(* Characters and bytes are numbers.  A line of a recipe file is what      *)
(* sscanf takes it for, with its words.                                    *)
(*                                                                         *)
(* Some definitions are faulty variants of the one that follows them: no   *)
(* action uses them, they show what each property notices.                 *)
(***************************************************************************)
EXTENDS Integers, Sequences, FiniteSets

CONSTANTS
    CommandLines,  \* the command lines, sequences of options
    Files,         \* recipe files: name -> [lines, newline]
    Meaning,       \* the bytes each parameter of a string line stands for
    ScoreTable,    \* scoretable: how frequent each byte is
    WordSize,      \* sizeof(long)
    WindowLen,     \* scanbuf_len
    Windows,       \* the possible bytes of a window and of the overlap behind it
    Positions      \* the possible scanbuf_filepos

Bytes == 0..255
IsPowerOfTwo(n) == \E k \in 0..n : n = 2^k

Line == [is : {"match", "directive", "ignored"}, op : STRING, offset : Nat, words : Seq(Seq(Bytes))]

\* What follows the name of an operation is its first word, possibly empty.
ASSUME FilesAssumption ==
    \A f \in DOMAIN Files :
        /\ Files[f] \in [lines : Seq(Line), newline : BOOLEAN]
        /\ \A i \in DOMAIN Files[f].lines :
            Files[f].lines[i].is # "ignored" => Files[f].lines[i].words # <<>>
\* readdir returns each name of a directory once.
ASSUME CommandLinesAssumption ==
    \A c \in CommandLines :
        /\ c \in Seq([opt : {"b", "d", "r"}, block : Int, found : BOOLEAN, files : Seq(STRING)])
        /\ \A a \in DOMAIN c : \A j, k \in DOMAIN c[a].files :
            c[a].files[j] = c[a].files[k] => j = k
ASSUME WindowsAssumption ==
    /\ WordSize \in Nat \ {0} /\ WindowLen \in Nat /\ Positions \subseteq Nat
    /\ Windows \subseteq Seq(Bytes)
    /\ ScoreTable \in [Bytes -> Nat] /\ \A b \in Bytes : ScoreTable[b] <= ScoreTable[0]

VARIABLES
    pc,                       \* where the program is
    args, optind,             \* the command line and the option reached
    global,                   \* global_scanner
    output_dir,               \* whether output_dir is set
    todo, line,               \* files still to parse for this -r; the line reached
    r, scanner,               \* parse_recipe: the recipe and its scanner
    scanners, overlap,        \* the global list and the bytes to look ahead
    win, filepos,             \* scan_buf: the window and its place
    sc, p,                    \* the scanner reached, p - scanbuf
    found                     \* history: the recipes that matched, and where

parseVars == <<todo, line, r, scanner>>
scanVars  == <<win, filepos, sc, p, found>>
vars == <<pc, args, optind, global, output_dir, parseVars, scanners, overlap, scanVars>>

Larger(a, b) == IF a > b THEN a ELSE b

(***************************************************************************)
(* Strings: hex2num, string_init and hextoll.                              *)
(***************************************************************************)

Backslash == 92
LetterX == 120

hex2num(c) ==
    CASE c \in 48..57  -> c - 48
      [] c \in 97..102 -> c - 87
      [] c \in 65..70  -> c - 55
      [] OTHER -> 0

\* \a, \b, \f, \n, \r, \t and \v; any other character stands for itself.
Escapes == {<<97, 7>>, <<98, 8>>, <<102, 12>>, <<110, 10>>, <<114, 13>>, <<116, 9>>, <<118, 11>>}
Escaped(c) ==
    IF \E e \in Escapes : e[1] = c THEN (CHOOSE e \in Escapes : e[1] = c)[2] ELSE c

\* A backslash at the end escapes the 0 behind the string.
StringInit(src) ==
    LET n == Len(src)
        rest[i \in 1..n + 4] ==
            IF i > n THEN <<>>
            ELSE IF src[i] # Backslash THEN <<src[i]>> \o rest[i + 1]
            ELSE IF i + 3 <= n /\ src[i + 1] = LetterX
                 THEN <<16 * hex2num(src[i + 2]) + hex2num(src[i + 3])>> \o rest[i + 4]
            ELSE <<IF i < n THEN Escaped(src[i + 1]) ELSE 0>> \o rest[i + 2]
    IN  rest[1]

\* hextoll of up to eight digits, as the four bytes of the number.
HexBytes(digits) ==
    LET digit(k) == IF k <= 8 - Len(digits) THEN 0 ELSE hex2num(digits[k - 8 + Len(digits)])
    IN  [j \in 1..4 |-> 16 * digit(2 * j - 1) + digit(2 * j)]

Bits(b) == {k \in 0..7 : (b \div 2^k) % 2 = 1}

(***************************************************************************)
(* Scanners and operations.  The bytes of the window are win[1] on; the    *)
(* mask and the value of an int32 are the bits set in each of their bytes. *)
(***************************************************************************)

NoScanner == [func |-> "none", offset |-> 0, bytes |-> <<>>, block |-> 0, recipes |-> <<>>]

\* Whether the bytes from cell x of the window on are those of s.
SameBytes(x, s) == \A k \in 1..Len(s) : win[x + k] = s[k]

op_string(op, x) == SameBytes(x + op.offset, op.bytes)
op_int32(op, x) ==
    \A j \in 1..4 : Bits(win[x + op.offset + j]) \cap op.mask[j] = op.val[j]
OpMatches(op, x) == IF op.func = "string" THEN op_string(op, x) ELSE op_int32(op, x)

\* scanner_string_init: the first of the rarest bytes of the string.
magicoff(s) ==
    CHOOSE i \in 0..Len(s)-1 :
        /\ \A j \in 1..Len(s) : ScoreTable[s[i + 1]] <= ScoreTable[s[j]]
        /\ \A j \in 1..i : ScoreTable[s[j]] # ScoreTable[s[i + 1]]

Nowhere == -1

\* memchr: the first cell from x on, before limit, that holds c.
memchr(x, c, limit) ==
    IF \E y \in x..limit-1 : win[y + 1] = c
    THEN CHOOSE y \in x..limit-1 : win[y + 1] = c /\ \A z \in x..y-1 : win[z + 1] # c
    ELSE Nowhere

scanner_char(s, from, n, offset) == memchr(from, s.bytes[1], from + n)

scanner_block(s, from, n, offset) ==
    LET extrabytes == offset % s.block IN
    IF extrabytes = 0 THEN from
    ELSE IF s.block - extrabytes < n THEN from + s.block - extrabytes ELSE Nowhere

\* The limit is not moved with the place the search starts from.
scanner_string_short(s, from, n, offset) ==
    LET off == magicoff(s.bytes)
        limit == from + n
        search[x \in from..limit + off + 1] ==
            LET y == memchr(x, s.bytes[off + 1], limit) IN
            IF x >= limit \/ y = Nowhere THEN Nowhere
            ELSE IF SameBytes(y - off, s.bytes) THEN y - off ELSE search[y + 1]
    IN  search[from + off]
scanner_string(s, from, n, offset) ==
    LET off == magicoff(s.bytes)
        limit == from + n + off
        search[x \in from..limit + 1] ==
            LET y == memchr(x, s.bytes[off + 1], limit) IN
            IF x >= limit \/ y = Nowhere THEN Nowhere
            ELSE IF SameBytes(y - off, s.bytes) THEN y - off ELSE search[y + 1]
    IN  search[from + off]

Func(s, from, n, offset) ==
    CASE s.func = "char"   -> scanner_char(s, from, n, offset)
      [] s.func = "block"  -> scanner_block(s, from, n, offset)
      [] s.func = "string" -> scanner_string(s, from, n, offset)

\* scanner_compare says 0: same function, offset and parameter.
SameScanner(a, b) ==
    a.func = b.func /\ a.offset = b.offset /\ a.bytes = b.bytes /\ a.block = b.block

SameAsLast(s) == {i \in DOMAIN scanners : i = Len(scanners) /\ SameScanner(s, scanners[i])}
Same(s) == {i \in DOMAIN scanners : SameScanner(s, scanners[i])}

\* scanner_add_or_reuse, and the recipe added to the scanner it returns.
AddRecipe(s, recipe) ==
    IF Same(s) = {} THEN Append(scanners, [s EXCEPT !.recipes = <<recipe>>])
    ELSE LET first == CHOOSE i \in Same(s) : \A j \in Same(s) : i <= j
         IN  [scanners EXCEPT ![first].recipes = Append(@, recipe)]

(***************************************************************************)
(* main's options.                                                         *)
(***************************************************************************)

NoRecipe == [id |-> <<0, "">>, ops |-> <<>>, set |-> {}]

Init ==
    /\ pc = "options"
    /\ args \in CommandLines /\ optind = 1
    /\ global = NoScanner /\ output_dir = FALSE
    /\ todo = <<>> /\ line = 1 /\ r = NoRecipe /\ scanner = NoScanner
    /\ scanners = <<>> /\ overlap = 0
    /\ win = <<>> /\ filepos = 0 /\ sc = 1 /\ p = 0
    /\ found = {}

Option(letter) == pc = "options" /\ optind <= Len(args) /\ args[optind].opt = letter

Fail ==
    /\ pc' = "failed"
    /\ UNCHANGED <<args, optind, global, output_dir, parseVars, scanners, overlap, scanVars>>

OptionB ==
    /\ Option("b")
    /\ args[optind].block <= 1 \/ IsPowerOfTwo(args[optind].block)
    /\ global' = IF args[optind].block <= 1 THEN NoScanner
                 ELSE [NoScanner EXCEPT !.func = "block", !.block = args[optind].block]
    /\ optind' = optind + 1
    /\ UNCHANGED <<pc, args, output_dir, parseVars, scanners, overlap, scanVars>>

OptionBFails ==
    /\ Option("b")
    /\ args[optind].block > 1 /\ ~IsPowerOfTwo(args[optind].block)
    /\ Fail

OptionD ==
    /\ Option("d") /\ args[optind].found
    /\ output_dir' = TRUE
    /\ optind' = optind + 1
    /\ UNCHANGED <<pc, args, global, parseVars, scanners, overlap, scanVars>>

OptionDFails == Option("d") /\ ~args[optind].found /\ Fail

\* One file, or those of a directory in the order readdir returns them.
OptionR ==
    /\ Option("r")
    /\ todo' = args[optind].files
    /\ optind' = optind + 1
    /\ pc' = "open"
    /\ UNCHANGED <<args, global, output_dir, line, r, scanner, scanners, overlap, scanVars>>

\* No recipes or no output directory: the usage text.
OptionsEnd ==
    /\ pc = "options" /\ optind > Len(args)
    /\ IF scanners = <<>> \/ ~output_dir
       THEN pc' = "failed" /\ UNCHANGED <<win, filepos>>
       ELSE /\ pc' = "scanner"
            /\ win' \in Windows /\ filepos' \in Positions
    /\ UNCHANGED <<args, optind, global, output_dir, parseVars, scanners, overlap, sc, p, found>>

(***************************************************************************)
(* parse_recipe.                                                           *)
(***************************************************************************)

DirectoryEnds ==
    /\ pc = "open" /\ todo = <<>>
    /\ pc' = "options"
    /\ UNCHANGED <<args, optind, global, output_dir, parseVars, scanners, overlap, scanVars>>

Open ==
    /\ pc = "open" /\ todo # <<>> /\ Head(todo) \in DOMAIN Files
    /\ r' = [NoRecipe EXCEPT !.id = <<optind - 1, Head(todo)>>]
    /\ scanner' = global
    /\ line' = 1
    /\ pc' = "line"
    /\ UNCHANGED <<args, optind, global, output_dir, todo, scanners, overlap, scanVars>>

OpenFails ==
    /\ pc = "open" /\ todo # <<>> /\ Head(todo) \notin DOMAIN Files
    /\ Fail

File == Files[Head(todo)]

\* The last character of the line is cut off, newline or not.
Words ==
    LET words == File.lines[line].words
        final == words[Len(words)]
    IN  IF line < Len(File.lines) \/ File.newline \/ words = <<>> THEN words
        ELSE [words EXCEPT ![Len(words)] = SubSeq(final, 1, Len(final) - 1)]

AtLine(is) == pc = "line" /\ line <= Len(File.lines) /\ File.lines[line].is = is

LineOffset == File.lines[line].offset
IsString == File.lines[line].op \in {"string", "char"}
Param == StringInit(Words[1])

Int32Valid == Len(Words) >= 2 /\ Words[2] # <<>>

\* What the line becomes: a scanner, an operation, or an error.
BecomesScanner == scanner = NoScanner /\ IsString /\ Param # <<>>
ValidOperation == (IsString /\ Param # <<>>) \/ (File.lines[line].op = "int32" /\ Int32Valid)

\* The string.l == 1 case left to scanner_string.
NewScannerString == [NoScanner EXCEPT !.func = "string", !.offset = LineOffset, !.bytes = Param]
NewScanner ==
    [NoScanner EXCEPT !.func = IF Len(Param) = 1 THEN "char" ELSE "string",
                      !.offset = LineOffset, !.bytes = Param]

NewOperation ==
    IF IsString
    THEN [func |-> "string", offset |-> LineOffset, bytes |-> Param]
    ELSE [func |-> "int32", offset |-> LineOffset,
          mask |-> [j \in 1..4 |-> Bits(HexBytes(Words[2])[j])],
          val  |-> [j \in 1..4 |-> Bits(HexBytes(Words[1])[j]) \cap Bits(HexBytes(Words[2])[j])]]

ReadLen == IF IsString THEN Len(Param) ELSE 4

Grows(len) == Larger(overlap, LineOffset + len)

NextLine ==
    /\ line' = line + 1
    /\ UNCHANGED <<pc, args, optind, global, output_dir, todo, scanners, scanVars>>

ScannerLine ==
    /\ AtLine("match") /\ BecomesScanner
    /\ scanner' = NewScanner
    /\ overlap' = Grows(ReadLen)
    /\ NextLine /\ UNCHANGED r

OperationLine ==
    /\ AtLine("match") /\ ~BecomesScanner /\ ValidOperation
    /\ r' = [r EXCEPT !.ops = Append(@, NewOperation)]
    /\ overlap' = Grows(ReadLen)
    /\ NextLine /\ UNCHANGED scanner

BadMatchLine == AtLine("match") /\ ~BecomesScanner /\ ~ValidOperation /\ Fail

\* sscanf wants a word; strncmp is content with an empty rest of the line.
ValidDirective ==
    \/ File.lines[line].op \in {"command", "postextract", "rename"}
    \/ File.lines[line].op \in {"extension", "min_output_file", "allow_overlap"} /\ Words[1] # <<>>

DirectiveLine ==
    /\ AtLine("directive") /\ ValidDirective
    /\ r' = [r EXCEPT !.set = @ \cup {File.lines[line].op}]
    /\ NextLine /\ UNCHANGED <<scanner, overlap>>

BadDirectiveLine == AtLine("directive") /\ ~ValidDirective /\ Fail

IgnoredLine ==
    /\ AtLine("ignored")
    /\ NextLine /\ UNCHANGED <<r, scanner, overlap>>

\* fgets fails, as on a directory.
ReadFails == pc = "line" /\ Fail

RoundedDown(n) == n - (n % WordSize)
RoundedUp(n) == RoundedDown(n + WordSize - 1)

RecipeEnds ==
    /\ pc = "line" /\ line > Len(File.lines)
    /\ scanner # NoScanner /\ "command" \in r.set
    /\ scanners' = AddRecipe(scanner, r)
    /\ overlap' = RoundedUp(overlap)
    /\ todo' = Tail(todo)
    /\ pc' = "open"
    /\ UNCHANGED <<args, optind, global, output_dir, line, r, scanner, scanVars>>

RecipeIncomplete ==
    /\ pc = "line" /\ line > Len(File.lines)
    /\ scanner = NoScanner \/ "command" \notin r.set
    /\ Fail

(***************************************************************************)
(* scan_buf without the skip ranges.                                       *)
(***************************************************************************)

NextScanner ==
    /\ pc = "scanner" /\ sc <= Len(scanners)
    /\ p' = scanners[sc].offset
    /\ pc' = "search"
    /\ UNCHANGED <<args, optind, global, output_dir, parseVars, scanners, overlap, win, filepos, sc, found>>

ScannersEnd ==
    /\ pc = "scanner" /\ sc > Len(scanners)
    /\ pc' = "done"
    /\ UNCHANGED <<args, optind, global, output_dir, parseVars, scanners, overlap, scanVars>>

Hit == LET s == scanners[sc] IN
    IF p < WindowLen THEN Func(s, p, WindowLen - p + s.offset, filepos + p) ELSE Nowhere

SearchEnds ==
    /\ pc = "search" /\ Hit = Nowhere
    /\ sc' = sc + 1
    /\ pc' = "scanner"
    /\ UNCHANGED <<args, optind, global, output_dir, parseVars, scanners, overlap, win, filepos, p, found>>

AllOpsMatch(recipe, x) == \A i \in DOMAIN recipe.ops : OpMatches(recipe.ops[i], x)

Matching(s, x) == {s.recipes[i].id : i \in {j \in DOMAIN s.recipes : AllOpsMatch(s.recipes[j], x)}}

TryRecipes ==
    LET s == scanners[sc] IN
    /\ pc = "search" /\ Hit # Nowhere
    /\ found' = found \cup {<<id, Hit - s.offset>> : id \in Matching(s, Hit - s.offset)}
    /\ p' = Hit + 1
    /\ UNCHANGED <<pc, args, optind, global, output_dir, parseVars, scanners, overlap, win, filepos, sc>>

Next ==
    \/ OptionB \/ OptionBFails \/ OptionD \/ OptionDFails \/ OptionR \/ OptionsEnd
    \/ DirectoryEnds \/ Open \/ OpenFails
    \/ ScannerLine \/ OperationLine \/ BadMatchLine
    \/ DirectiveLine \/ BadDirectiveLine \/ IgnoredLine \/ ReadFails
    \/ RecipeEnds \/ RecipeIncomplete
    \/ NextScanner \/ ScannersEnd \/ SearchEnds \/ TryRecipes

Spec == Init /\ [][Next]_vars

(***************************************************************************)
(* Properties.                                                             *)
(***************************************************************************)

ScannerType(s) ==
    /\ s.func \in {"none", "char", "block", "string"}
    /\ s.offset \in Nat /\ s.bytes \in Seq(Bytes) /\ s.block \in Nat
    /\ s.func = "char" => Len(s.bytes) = 1
    /\ s.func = "string" => Len(s.bytes) > 1

\* The variables keep their types, and each scanner has what its function uses.
TypeOK ==
    /\ pc \in {"options", "open", "line", "scanner", "search", "done", "failed"}
    /\ args \in CommandLines /\ optind \in 1..Len(args) + 1
    /\ ScannerType(global) /\ ScannerType(scanner) /\ output_dir \in BOOLEAN
    /\ line \in Nat /\ overlap \in Nat /\ todo \in Seq(STRING)
    /\ \A i \in DOMAIN scanners : ScannerType(scanners[i]) /\ scanners[i].func # "none"
    /\ p \in Nat /\ sc \in 1..Len(scanners) + 1 /\ filepos \in Nat

OpEnd(op) == op.offset + (IF op.func = "string" THEN Len(op.bytes) ELSE 4)
ScannerEnd(s) == s.offset + Len(s.bytes)

\* What is kept of a block for the next one is enough for everything the scanners
\* and operations read from a match on, in whatever order the recipes are parsed
\* and overlap is rounded, and it is a number of whole machine words.
OverlapCovers ==
    /\ ScannerEnd(scanner) <= overlap
    /\ \A i \in DOMAIN r.ops : OpEnd(r.ops[i]) <= overlap
    /\ \A i \in DOMAIN scanners :
        /\ ScannerEnd(scanners[i]) <= overlap
        /\ \A j \in DOMAIN scanners[i].recipes : \A k \in DOMAIN scanners[i].recipes[j].ops :
            OpEnd(scanners[i].recipes[j].ops[k]) <= overlap
    /\ pc = "scanner" => overlap % WordSize = 0

Places(id) ==
    UNION {{<<i, j>> : j \in {k \in DOMAIN scanners[i].recipes : scanners[i].recipes[k].id = id}} :
           i \in DOMAIN scanners}

\* No two scanners of the list look for the same thing, so that no candidate is
\* tried twice, and each -r has put every one of its recipes into the list once.
EachRecipeOnce ==
    /\ \A i, j \in DOMAIN scanners : SameScanner(scanners[i], scanners[j]) => i = j
    /\ pc = "scanner" =>
        \A a \in DOMAIN args : args[a].opt = "r" =>
            \A k \in DOMAIN args[a].files : Cardinality(Places(<<a, args[a].files[k]>>)) = 1

(***************************************************************************)
(* What the manual says of a recipe: all its match lines hold at the start *)
(* of the file, which -b before its -r asks to be at the start of a block. *)
(***************************************************************************)

LineHolds(l, x) ==
    IF l.op = "int32"
    THEN \A j \in 1..4 : LET mask == Bits(HexBytes(l.words[2])[j]) IN
            Bits(win[x + l.offset + j]) \cap mask = Bits(HexBytes(l.words[1])[j]) \cap mask
    ELSE SameBytes(x + l.offset, Meaning[l.words[1]])

MatchLines(f) == {i \in DOMAIN Files[f].lines : Files[f].lines[i].is = "match"}

\* What the theorem about MatchesFound asks of the files and of Meaning, which is
\* what the manual makes of a parameter, the escapes in it replaced.  The last
\* character of a match line that ends the file without a newline is lost.
StringsMean ==
    \A f \in DOMAIN Files : \A i \in MatchLines(f) :
        LET l == Files[f].lines[i] IN
        l.op # "int32" /\ StringInit(l.words[1]) # <<>> => Meaning[l.words[1]] = StringInit(l.words[1])
MatchLinesEnd ==
    \A f \in DOMAIN Files : \A i \in MatchLines(f) : i < Len(Files[f].lines) \/ Files[f].newline

\* The block size in force for the -r at a: that of the last -b before it.
BlockFor(a) ==
    LET before == {b \in 1..a-1 : args[b].opt = "b"}
        final  == CHOOSE b \in before : \A c \in before : c <= b
    IN  IF before = {} THEN 1 ELSE Larger(1, args[final].block)

\* The first string or char line; without -b it is searched for, and its offset
\* is how far the search ends before the window does.
ScannedOffset(a, f) ==
    IF BlockFor(a) > 1 THEN 0
    ELSE LET strings == {i \in MatchLines(f) : Files[f].lines[i].op # "int32"}
         IN  Files[f].lines[CHOOSE i \in strings : \A j \in strings : i <= j].offset

Asked(id) == args[id[1]].opt = "r" /\ \E k \in DOMAIN args[id[1]].files : args[id[1]].files[k] = id[2]
Holds(id, x) ==
    /\ \A i \in MatchLines(id[2]) : LineHolds(Files[id[2]].lines[i], x)
    /\ (filepos + x) % BlockFor(id[1]) = 0

\* A recipe is tried only where all its match lines hold, and at each such place
\* its search reaches: sharing scanners, the search for the rarest byte, the escapes,
\* a -b given before some of the recipes only and the order of the lines make no
\* difference.
MatchesFound ==
    pc = "done" =>
        \A a \in DOMAIN args, f \in DOMAIN Files, x \in 0..WindowLen-1 :
            IF ~Asked(<<a, f>>) THEN <<<<a, f>>, x>> \notin found
            ELSE /\ <<<<a, f>>, x>> \in found => Holds(<<a, f>>, x)
                 /\ Holds(<<a, f>>, x) /\ x + ScannedOffset(a, f) < WindowLen
                        => <<<<a, f>>, x>> \in found

=============================================================================
