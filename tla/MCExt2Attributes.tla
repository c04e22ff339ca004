-------------------------- MODULE MCExt2Attributes --------------------------
(***************************************************************************)
(* Small instances of Ext2Attributes for TLC, with the numbers of the disk *)
(* format.                                                                 *)
(***************************************************************************)
EXTENDS Ext2Attributes, TLC

CONSTANT f

OneFile == {f}

\* A regular file and two devices, 0644 and 04755.
Modes == {8 * Perms + 420, 2 * Perms + 2541, 6 * Perms + 420}

\* Both sides of the limits of old_valid_dev, and bits in every part.
Devices == {<<0, 0>>, <<0, 7>>, <<255, 255>>, <<256, 0>>, <<8, 256>>, <<0, 4096>>,
            <<4095, 524287>>}

\* Both sides of 2^16, and bits in both halves.
Owners == {0, 65535, 4 * Half + 7}

Times == {0, 1}

OneFault == {{}, {"namei"}, {"readinode"}, {"writeinode"}}

\* Up to 28 groups, one of them the 25th and one the 27th.
Geometry ==
    [blocks : {64, 225}, first : {0, 1}, per_group : {8, 32},
     desc_per_block : {2, 16}, reserved_gdt : {0, 1},
     inodes_per_group : {4}, inodes_per_block : {2},
     sparse : BOOLEAN, minix_df : BOOLEAN, free : {3}, reserved : {2, 5}]

\* Where mke2fs puts bitmaps and inodes, those of "flex" groups together.
GroupDescs(s, flex) ==
    LET Behind(g) == GroupStart(s, g) +
                        (IF Backup(s, g) THEN 1 + GdbCount(s) + s.reserved_gdt ELSE 0)
        table == s.inodes_per_group \div s.inodes_per_block
    IN  [k \in 1 .. Groups(s) |->
            LET n == (k - 1) % flex
                h == Behind(k - 1 - n)
            IN  [bg_block_bitmap |-> h + n, bg_inode_bitmap |-> h + flex + n,
                 bg_inode_table  |-> h + 2 * flex + n * table]]

\* minix_df is not tried with each number of reserved blocks: op_statfs reads
\* the two apart.
Supers ==
    {s \in {("group_desc" :> GroupDescs(s, flex)) @@ s : s \in Geometry, flex \in {1, 4}} :
        Consistent(s) /\ (s.minix_df <=> s.reserved = 2)}
=============================================================================
