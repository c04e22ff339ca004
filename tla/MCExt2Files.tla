----------------------------- MODULE MCExt2Files -----------------------------
(***************************************************************************)
(* Small instances of Ext2Files for TLC.                                   *)
(***************************************************************************)
EXTENDS Ext2Files, TLC

CONSTANTS f, g, a, v1, v2

TwoFiles   == {f, g}
OneHandle  == {a}
TwoValues  == {v1, v2}
Blocks2    == {1, 2}
Blocks3    == {1, 2, 3}

Works   == {{}}
OneSite == {{}} \cup {{s} : s \in FileSite}

Symm == Permutations(TwoFiles) \cup Permutations(TwoValues)
=============================================================================
