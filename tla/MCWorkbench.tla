---------------------------- MODULE MCWorkbench ----------------------------
(***************************************************************************)
(* Small instances of Workbench for TLC.                                   *)
(***************************************************************************)
EXTENDS Workbench

CONSTANTS x, y, h1, h2, s1, s2, s3   \* contents, horizon names, source aliases

\* Horizon names and source aliases are interchangeable.
Symmetry == Permutations({ h1, h2 }) \cup Permutations({ s1, s2, s3 })

File(i, c) == [ identity |-> i, content |-> c ]

\* Two files that differ; a hard link; two files with the same bytes.
MCInitialHosts ==
  { << File(1, x), File(2, y) >>,
    << File(1, x), File(1, x) >>,
    << File(1, x), File(2, x) >> }
MCOneHost  == { << File(1, x), File(2, y) >> }
MCPaths    == 1 .. 2
MCSerials  == 1 .. 8
MCContents == { x, y }
=============================================================================
