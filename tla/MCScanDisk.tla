----------------------------- MODULE MCScanDisk -----------------------------
(***************************************************************************)
(* Small instances of ScanDisk.  Two devices: one long enough for three    *)
(* blocks, and one that a single short read takes whole.  Scanner 1 looks  *)
(* for its pattern at the start of a file, scanner 2 one byte into it and  *)
(* has two recipes.                                                        *)
(***************************************************************************)
EXTENDS ScanDisk

MCDevLen == <<9, 3>>
\* Two devices of one block each: the first is scanned from an offset, and no block of
\* either has bytes kept in front of it.
MCOneBlockEach == <<7, 6>>

MCOffset == <<0, 1>>
MCAllowOverlap == <<<<0>>, <<-1, 1>>>>

Disk(a1, a2, b1, b2) == <<<<a1, a2>>, <<b1, b2>>>>

MCContents == {
    Disk({0, 3}, {1, 2}, {0}, {}),
    Disk({2, 5}, {3, 4}, {}, {0}) }

\* No scanner has an offset.
MCNoOffset == <<0, 0>>

\* No recipe sets allow_overlap.
MCDefaultOverlap == <<<<0>>, <<0>>>>

=============================================================================
