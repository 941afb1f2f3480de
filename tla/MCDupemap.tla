----------------------------- MODULE MCDupemap -----------------------------
(***************************************************************************)
(* Small file systems for Dupemap.                                         *)
(*                                                                         *)
(*   home/           a directory: a, link -> outside, sub/, alias -> sub   *)
(*   home/sub/       b, deep/, lost: its path name does not fit            *)
(*   home/sub/deep/  c: below the stack of open directories                *)
(*   rescued         a file                                                *)
(*   sealed/         a directory that cannot be opened                     *)
(*   outside         a file; the path name that leads to it does not fit   *)
(***************************************************************************)
EXTENDS Dupemap

MCNodes == {"home", "a", "link", "alias", "sub", "b", "deep", "c", "lost", "rescued", "sealed", "outside"}
Root == "none"

MCParent == [n \in MCNodes |->
    CASE n \in {"a", "link", "alias", "sub"} -> "home"
      [] n \in {"b", "deep", "lost"} -> "sub"
      [] n = "c" -> "deep"
      [] OTHER -> Root]
MCKind == [n \in MCNodes |->
    CASE n \in {"home", "sub", "deep", "sealed"} -> "dir"
      [] n \in {"link", "alias"} -> "link"
      [] OTHER -> "file"]
MCTarget == [n \in MCNodes |->
    CASE n = "link" -> "outside"
      [] n = "alias" -> "sub"
      [] OTHER -> Root]
MCLongNames == {<<"home", "sub", "lost">>, <<"outside">>}
MCSum == [n \in MCNodes |-> IF n \in {"a", "b", "outside"} THEN "same" ELSE "other"]

Command(ops, hasdb, arguments, lines) ==
    [ops |-> ops, hasdb |-> hasdb, paths |-> arguments, names |-> lines, namesOpen |-> TRUE]

MCCommands == {
    Command({"delete"}, FALSE, <<"home">>, <<"rescued">>),
    Command({"scan", "report"}, TRUE, <<"home">>, <<>>),
    Command({"delete", "report"}, TRUE, <<"sealed", "rescued">>, <<>>),
    [Command({"report"}, FALSE, <<>>, <<"a">>) EXCEPT !.namesOpen = FALSE],
    Command({"report"}, FALSE, <<"outside">>, <<"a">>),
    Command({"scan"}, FALSE, <<"home">>, <<>>) }

\* The link and the file it names are in one directory.
MCLinkWithin == [MCTarget EXCEPT !["link"] = "a"]
MCDelete == { Command({"delete"}, FALSE, <<"home">>, <<>>) }

=============================================================================
