---------------------------- MODULE MCExt2Daemon ----------------------------
(***************************************************************************)
(* Small instances of Ext2Daemon for TLC.                                  *)
(***************************************************************************)
EXTENDS Ext2Daemon, TLC

CONSTANTS root, i1, i2, i3, noIno, m, n

MCIno   == {root, i1, i2, i3}
MCIno3  == {root, i1, i2}
MCName  == {m, n}
Blocks2 == 1 .. 2
Blocks3 == 1 .. 3
Blocks4 == 1 .. 4

\* What the next request depends on: neither the last reply, nor what a free
\* block or a free inode was left with, which nothing reads.
InUse == <<fs.imap, fs.bmap, [i \in fs.imap \cap Ino |-> <<fs.inode[i], fs.dotdot[i]>>],
           [b \in fs.bmap |-> fs.data[b]]>>

NoFault   == {{}}
OneSafe   == {{}} \cup {{s} : s \in SafeSites}
OneUnlink == {{}, {"unlink.dirent"}, {"unlink.parent"}, {"unlink.inode"}}
OneOfAny  == {{}} \cup {{s} : s \in Site}

RegOnly   == {"reg"}
RegAndDev == {"reg", "dev"}

\* Root is named by the initial state; the other inodes and the names are not.
Symm == Permutations(MCIno \ {root}) \cup Permutations(MCName)
Symm3 == Permutations(MCIno3 \ {root}) \cup Permutations(MCName)

AllRequests  == OpName

\* The requests on names, and the one that gives a file a block.
NameRequests == {"mknod", "mkdir", "link", "unlink", "rmdir", "rename", "write"}
=============================================================================
