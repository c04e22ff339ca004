----------------------------- MODULE MCExt2Mount -----------------------------
(***************************************************************************)
(* Small instances of Ext2Mount for TLC.                                   *)
(***************************************************************************)
EXTENDS Ext2Mount, TLC

CONSTANTS f1, f2

Symm == Permutations({f1, f2})

OneFile   == {f1}
TwoFiles  == {f1, f2}
OneBlock  == {1}
TwoBlocks == {1, 2}

Forced   == {<<"rw+">>, <<"rw", "force">>}
JustRead == {<<"ro">>}
\* Lists of up to two options, and of three that set a mode.
AnyList  == UNION {[1 .. k -> Option] : k \in 0 .. 2}
                \cup [1 .. 3 -> {"ro", "rw", "rw+", "force"}]

Works    == {{}}
\* Every call but the flush of current_ext2fs may fail.
OneOther == {{}} \cup {{c} : c \in Call \ {"write_bitmaps"}}
=============================================================================
