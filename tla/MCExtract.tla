----------------------------- MODULE MCExtract -----------------------------
(***************************************************************************)
(* Small instances of Extract: a scan of devices and a scan of files into  *)
(* one directory that holds a file, or a link that leads nowhere, under    *)
(* the first names that would be chosen.                                   *)
(***************************************************************************)
EXTENDS Extract

MCNameMode == [s \in Scans |-> IF s = "disk" THEN "device" ELSE "files"]
MCBasename == [s \in Scans |-> "base"]

MCRecipes == {
    [extension |-> "gz", rename |-> TRUE,  postextract |-> FALSE, min_output_file |-> 1],
    [extension |-> "gz", rename |-> FALSE, postextract |-> TRUE,  min_output_file |-> 0] }

At(i, ext) == [key |-> DeviceKey(7), i |-> i, ext |-> ext]
Old(kind) == [by |-> 0, kind |-> kind, size |-> 1]

MCLeftovers == {
    [n \in {} |-> 0],
    [n \in {At(0, "gz"), At(0, "tar")} |->
        IF n = At(0, "gz") THEN Old("dangling_link") ELSE Old("file")] }

=============================================================================
