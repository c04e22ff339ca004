----------------------------- MODULE LibExt2fs -----------------------------
(***************************************************************************)
(* The part of libext2fs that fuse-ext2 stands on.  The library is not in  *)
(* the repository: every operator is modelled from how src/fuse-ext2 calls *)
(* it and what the callers rely on.                                        *)
(*                                                                         *)
(* A file system is a record:                                              *)
(*   inode   the inode table (a freed inode keeps its last contents)       *)
(*   data    what a block holds when it is read as a directory block       *)
(*   dotdot  the ".." entry of a directory                                 *)
(*   imap    the inode bitmap                                              *)
(*   bmap    the block bitmap                                              *)
(* Times, owners, permissions and file contents are left out.              *)
(***************************************************************************)
EXTENDS Naturals, FiniteSets

CONSTANTS
    Ino,            \* inode numbers
    Root,           \* EXT2_ROOT_INO
    NoIno,          \* an empty directory slot; "no inode"
    Block,          \* block numbers
    Name,           \* file names
    SlotsPerBlock,  \* directory entries that fit in a block
    LinkMod         \* i_links_count is arithmetic modulo this (2^16)

ASSUME RootAssumption  == Root \in Ino /\ NoIno \notin Ino
ASSUME SlotsAssumption == SlotsPerBlock \in Nat \ {0}
ASSUME WidthAssumption == LinkMod \in Nat /\ LinkMod > 2

Kind  == {"dir", "reg", "lnk", "dev"}
Inode == [kind : Kind, links : 0 .. LinkMod - 1, blk : SUBSET Block]

FileSystem ==
    [inode  : [Ino -> Inode],
     data   : [Block -> [Name -> Ino \cup {NoIno}]],
     dotdot : [Ino -> Ino \cup {NoIno}],
     imap   : SUBSET Ino,
     bmap   : SUBSET Block]

-----------------------------------------------------------------------------
(* Reading *)

Live(f)     == {i \in f.imap : f.inode[i].links > 0}
Dirs(f)     == {i \in Live(f) : f.inode[i].kind = "dir"}
IsDir(f, i) == f.inode[i].kind = "dir"

\* The blocks of directory d that hold an entry called n.
Holding(f, d, n) == {b \in f.inode[d].blk : f.data[b][n] # NoIno}

\* ext2fs_namei for the last component of a path, its parent resolved to d.
ext2fs_namei(f, d, n) ==
    IF Holding(f, d, n) = {} THEN NoIno
    ELSE f.data[CHOOSE b \in Holding(f, d, n) : TRUE][n]

Entries(f, b)   == {n \in Name : f.data[b][n] # NoIno}
EmptyDir(f, d)  == \A b \in f.inode[d].blk : Entries(f, b) = {}
FreeInodes(f)   == Ino \ f.imap
FreeBlocks(f)   == Block \ f.bmap

\* Blocks of d in which an entry called n still fits.
Room(f, d, n) ==
    {b \in f.inode[d].blk :
        /\ f.data[b][n] = NoIno
        /\ Cardinality(Entries(f, b)) < SlotsPerBlock}

\* The inode numbers ext2fs_new_inode may return; NoIno when it fails.
ext2fs_new_inode(f) == IF FreeInodes(f) = {} THEN {NoIno} ELSE FreeInodes(f)

ext2fs_new_block(f) == CHOOSE b \in FreeBlocks(f) : TRUE

-----------------------------------------------------------------------------
(* Writing *)

ext2fs_write_inode(f, i, r) == [f EXCEPT !.inode[i] = r]

SetEntry(f, b, n, i) == [f EXCEPT !.data[b][n] = i]

\* Adds the entry and nothing else: neither a link count nor a check that the
\* name is new.  Only called when Room(f, d, n) # {}.
ext2fs_link(f, d, n, i) == SetEntry(f, CHOOSE b \in Room(f, d, n) : TRUE, n, i)

\* Clears the entry of that name and that inode.
ext2fs_unlink(f, d, n, i) ==
    SetEntry(f, CHOOSE b \in Holding(f, d, n) : f.data[b][n] = i, n, NoIno)

\* Gives d one more block, empty, and writes the inode of d.
ext2fs_expand_dir(f, d) ==
    LET b == ext2fs_new_block(f) IN
    [f EXCEPT
        !.inode[d].blk = @ \cup {b},
        !.data[b]      = [n \in Name |-> NoIno],
        !.bmap         = @ \cup {b}]

\* Marks the inode used.
ext2fs_inode_alloc(f, i) == [f EXCEPT !.imap = @ \cup {i}]

\* A new directory i with one block, linked into d under n, whose link count
\* goes up for the ".." of i.
ext2fs_mkdir(f, d, n, i) ==
    LET b == ext2fs_new_block(f)
        g == [f EXCEPT
                !.inode[i]  = [kind |-> "dir", links |-> 2, blk |-> {b}],
                !.data[b]   = [m \in Name |-> NoIno],
                !.dotdot[i] = d,
                !.imap      = @ \cup {i},
                !.bmap      = @ \cup {b}]
    IN  [ext2fs_link(g, d, n, i) EXCEPT !.inode[d].links = (@ + 1) % LinkMod]

\* ext2fs_file_write past the last block of a file: one more block.
ext2fs_file_grow(f, i) ==
    LET b == ext2fs_new_block(f) IN
    [f EXCEPT
        !.inode[i].blk = @ \cup {b},
        !.data[b]      = [n \in Name |-> NoIno],
        !.bmap         = @ \cup {b}]

\* ext2fs_file_set_size2 to length 0: the file gives back its blocks.
ext2fs_file_clear(f, i) ==
    [f EXCEPT
        !.inode[i].blk = {},
        !.bmap         = @ \ f.inode[i].blk]

\* A freshly made file system: the root directory, one block, no entry.
Mkfs(b) ==
    [inode  |-> [i \in Ino |->
        IF i = Root THEN [kind |-> "dir", links |-> 2, blk |-> {b}]
                    ELSE [kind |-> "reg", links |-> 0, blk |-> {}]],
     data   |-> [c \in Block |-> [n \in Name |-> NoIno]],
     dotdot |-> [i \in Ino |-> IF i = Root THEN Root ELSE NoIno],
     imap   |-> {Root},
     bmap   |-> {b}]
=============================================================================
