----------------------------- MODULE Ext2Daemon -----------------------------
(***************************************************************************)
(* The fuse-ext2 daemon: one file system, one request at a time, each of   *)
(* them run to its end (or to the call that fails) before the next.        *)
(*                                                                         *)
(* What the kernel's VFS settles before it sends a request is a guard of   *)
(* the action; what the handler itself tests is in Ext2Ops.                *)
(***************************************************************************)
EXTENDS Ext2Ops

OpName == {"mkfs", "open", "create", "mknod", "mkdir", "symlink", "link",
           "unlink", "rmdir", "rename", "write", "truncate"}

CONSTANTS
    FirstBlock,     \* the block mkfs gives to the root directory
    Faults,         \* sets of call sites that may fail together in a request
    MknodKinds,     \* kinds of file mknod is asked for
    LinkIntoFull,   \* whether op_link may meet a parent without room
    Requests,       \* the requests the kernel sends in this instance
    MaxFileBlocks   \* bound on the blocks of a file

ASSUME FirstBlockAssumption == FirstBlock \in Block
ASSUME FaultsAssumption == Faults \subseteq SUBSET Site
ASSUME RequestsAssumption == Requests \subseteq OpName
ASSUME KindsAssumption  == MknodKinds \subseteq {"reg", "dev"}

VARIABLES
    fs,     \* the file system, as libext2fs sees it
    ret     \* the last reply: handler, return value, inode it was about

vars == <<fs, ret>>

TypeOK ==
    /\ fs \in FileSystem
    /\ ret \in [op : OpName, rc : Reply, ino : Ino \cup {NoIno}]

Init ==
    /\ fs = Mkfs(FirstBlock)
    /\ ret = [op |-> "mkfs", rc |-> "ok", ino |-> Root]

-----------------------------------------------------------------------------
(* What the kernel checks *)

\* The names of inode i: the slots of directories in use that hold it.
DirBlocks(f) == UNION {f.inode[d].blk : d \in Dirs(f)}
Refs(f, i)   == {s \in DirBlocks(f) \X Name : f.data[s[1]][s[2]] = i}

\* i and what is below it in the tree.
Children(f, S) ==
    {f.data[b][n] : b \in UNION {f.inode[d].blk : d \in S \cap Dirs(f)}, n \in Name}
Subtree(f, i) ==
    LET Within[k \in Nat] ==
            IF k = 0 THEN {i}
            ELSE Within[k - 1] \cup (Children(f, Within[k - 1]) \cap Ino)
    IN  {i} \cup Within[Cardinality(Ino)]

\* Directories a path can lead to.
PathDirs(f) == Dirs(f) \cap Subtree(f, Root)
Present(f, d, n) == ext2fs_namei(f, d, n) # NoIno

\* The bound on hard links: one more does not wrap i_links_count.
LinkRoom(f, i) == f.inode[i].links + 1 < LinkMod

-----------------------------------------------------------------------------
(* Requests *)

\* The call sites on the way of a handler: failures of others change nothing.
SitesOf(op) ==
    LET create == {"readinode", "dir.link", "dir.expand",
                   "create.write_new_inode", "create.parent"}
        kill   == {"kill.inode", "kill.blocks"}
        unlink == {"readinode", "unlink.dirent", "unlink.parent", "unlink.inode"}
        rmdir  == {"readinode", "rmdir.dirent", "rmdir.parent"}
    IN  CASE op = "open"     -> {"readinode", "open.atime"}
          [] op = "create"   -> create \cup {"open.atime"}
          [] op = "mknod"    -> create
          [] op = "symlink"  -> create \cup {"open.atime", "write.data", "symlink.release"}
          [] op = "mkdir"    -> {"readinode", "dir.expand", "mkdir.mkdir",
                                 "mkdir.attributes"}
          [] op = "link"     -> {"readinode", "dir.link", "dir.expand",
                                 "link.source_inode", "link.dest_inode"}
          [] op = "unlink"   -> unlink \cup kill
          [] op = "rmdir"    -> rmdir \cup kill
          [] op = "rename"   -> unlink \cup rmdir \cup kill \cup
                                {"dir.link", "dir.expand", "rename.reread",
                                 "rename.src_parent", "rename.dotdot",
                                 "rename.dest_parent", "rename.source", "rename.dirent"}
          [] op = "write"    -> {"write.data"}
          [] op = "truncate" -> {"readinode", "open.atime", "truncate.size",
                                 "truncate.inode"}
          [] OTHER           -> {}

Sent(op, bad) == op \in Requests /\ bad \subseteq SitesOf(op)

Done(op, i, r) ==
    /\ fs' = r.fs
    /\ ret' = [op |-> op, rc |-> r.rc, ino |-> i]

Open(d, n, bad) ==
    /\ Sent("open", bad)
    /\ Present(fs, d, n)
    /\ Done("open", ext2fs_namei(fs, d, n), op_open(fs, d, n, bad))

Create(d, n, ni, bad) ==
    /\ Sent("create", bad)
    /\ ~ Present(fs, d, n)
    /\ Done("create", ni, op_create(fs, d, n, ni, bad))

Mknod(d, n, kind, ni, bad) ==
    /\ Sent("mknod", bad)
    /\ ~ Present(fs, d, n)
    /\ Done("mknod", ni, op_mknod(fs, d, n, kind, ni, bad))

Mkdir(d, n, ni, bad) ==
    /\ Sent("mkdir", bad)
    /\ ~ Present(fs, d, n)
    /\ LinkRoom(fs, d)
    /\ Done("mkdir", ni, op_mkdir(fs, d, n, ni, bad))

Symlink(d, n, long, ni, bad) ==
    /\ Sent("symlink", bad)
    /\ ~ Present(fs, d, n)
    /\ Done("symlink", ni, op_symlink(fs, d, n, long, ni, bad))

\* No hard link to a directory.
Link(sd, sn, d, n, bad) ==
    LET i == ext2fs_namei(fs, sd, sn) IN
    /\ Sent("link", bad)
    /\ i # NoIno
    /\ ~ IsDir(fs, i)
    /\ ~ Present(fs, d, n)
    /\ LinkRoom(fs, i)
    /\ LinkIntoFull \/ Room(fs, d, n) # {}
    /\ Done("link", i, op_link(fs, sd, sn, d, n, bad))

Unlink(d, n, bad) ==
    /\ Sent("unlink", bad)
    /\ Done("unlink", ext2fs_namei(fs, d, n), op_unlink(fs, d, n, bad))

Rmdir(d, n, bad) ==
    /\ Sent("rmdir", bad)
    /\ Done("rmdir", ext2fs_namei(fs, d, n), op_rmdir(fs, d, n, bad))

Rename(sd, sn, td, tn, bad) ==
    LET i == ext2fs_namei(fs, sd, sn) IN
    /\ Sent("rename", bad)
    /\ i # NoIno
    /\ <<sd, sn>> # <<td, tn>>
    /\ IsDir(fs, i) => td \notin Subtree(fs, i) /\ LinkRoom(fs, td)
    /\ Done("rename", i, op_rename(fs, sd, sn, td, tn, bad))

Write(d, n, bad) ==
    LET i == ext2fs_namei(fs, d, n) IN
    /\ Sent("write", bad)
    /\ i # NoIno
    /\ fs.inode[i].kind = "reg"
    /\ Cardinality(fs.inode[i].blk) < MaxFileBlocks
    /\ Done("write", i, op_write(fs, d, n, bad))

Truncate(d, n, bad) ==
    LET i == ext2fs_namei(fs, d, n) IN
    /\ Sent("truncate", bad)
    /\ i # NoIno
    /\ fs.inode[i].kind = "reg"
    /\ Done("truncate", i, op_truncate(fs, d, n, bad))

\* Requests on one name, and requests on two.
NameRequest(d, n, bad) ==
    \/ Open(d, n, bad)
    \/ \E ni \in ext2fs_new_inode(fs) :
        \/ Create(d, n, ni, bad)
        \/ \E kind \in MknodKinds : Mknod(d, n, kind, ni, bad)
        \/ Mkdir(d, n, ni, bad)
        \/ \E long \in BOOLEAN : Symlink(d, n, long, ni, bad)
    \/ Unlink(d, n, bad)
    \/ Rmdir(d, n, bad)
    \/ Write(d, n, bad)
    \/ Truncate(d, n, bad)

TwoNameRequest(sd, sn, td, tn, bad) ==
    \/ Link(sd, sn, td, tn, bad)
    \/ Rename(sd, sn, td, tn, bad)

Next ==
    \E bad \in Faults, d \in PathDirs(fs), n \in Name :
        \/ NameRequest(d, n, bad)
        \/ \E td \in PathDirs(fs), tn \in Name : TwoNameRequest(d, n, td, tn, bad)

Spec == Init /\ [][Next]_vars

-----------------------------------------------------------------------------
(* Invariants, whichever of the safe call sites fail *)

\* No block belongs to two files, and the blocks of a file are marked used:
\* a kill through a stale copy, or one that frees twice, would break it.
NoSharedBlocks ==
    \A i \in Live(fs) :
        /\ fs.inode[i].blk \subseteq fs.bmap
        /\ \A j \in Live(fs) \ {i} : fs.inode[i].blk \cap fs.inode[j].blk = {}

\* Every name leads to an inode in use: handlers that write a directory entry
\* and an inode leave no entry without its inode, wherever they stop.
NamesResolve == \A b \in DirBlocks(fs) : \A n \in Entries(fs, b) :
    fs.data[b][n] \in Live(fs)

\* No file has more names than its link count, so that the unlink that brings
\* the count to 0, and frees the inode, is the last one.  A directory has one
\* name at most, the root none.
CountCovers(f, i) ==
    IF i = Root THEN Refs(f, i) = {}
    ELSE IF IsDir(f, i) THEN Cardinality(Refs(f, i)) <= 1
    ELSE Cardinality(Refs(f, i)) <= f.inode[i].links
NoUndercount == \A i \in Live(fs) : CountCovers(fs, i)

\* A directory never holds the same name twice, though ext2fs_link does not
\* look: the handlers delete a name before they add it again.
UniqueNames ==
    \A d \in Dirs(fs), n \in Name : Cardinality(Holding(fs, d, n)) <= 1

\* A free inode has no link left, so that do_create, when it stops between
\* taking the number and writing the inode, brings no old file back.
FreeUnlinked(f) == \A i \in Ino \ f.imap : f.inode[i].links = 0

(* Invariants when nothing fails *)

SubDirs(f, d) == {i \in Dirs(f) \ {d} : \E s \in Refs(f, i) : s[1] \in f.inode[d].blk}

\* i_links_count is what the tree says: the names of a file, and two and one
\* for each subdirectory of a directory.  Rmdir, rename over a directory and
\* rename across directories all have to keep it so.
LinkCountsExact ==
    \A i \in Live(fs) : fs.inode[i].links =
        IF IsDir(fs, i) THEN 2 + Cardinality(SubDirs(fs, i))
                        ELSE Cardinality(Refs(fs, i))

\* The bitmaps hold what is in use and nothing else: no handler leaks an inode
\* or a block, not even one that returns an error half way.
AccountingExact ==
    /\ fs.imap = Live(fs)
    /\ fs.bmap = UNION {fs.inode[i].blk : i \in Live(fs)}

\* The directories form one tree under the root, and ".." names the directory
\* that holds the name: rename has to move ".." with the directory.
OneTree ==
    /\ Dirs(fs) \subseteq Subtree(fs, Root)
    /\ \A d \in Dirs(fs), i \in Dirs(fs) : i \in SubDirs(fs, d) => fs.dotdot[i] = d

-----------------------------------------------------------------------------
(* What a reply promises *)

AllRefs(f) == {s \in DirBlocks(f) \X Name : f.data[s[1]][s[2]] # NoIno}
Names(f)   == [d \in Dirs(f) |-> [n \in Name |-> ext2fs_namei(f, d, n)]]

\* A handler that returns 0 did what it was asked: one name more, one name
\* less, or for rename the file it was about has as many names as before.
SuccessMeansDone == [][
    ret'.rc = "ok" =>
        /\ ret'.op \in {"create", "mknod", "mkdir", "symlink", "link"} =>
            /\ Cardinality(AllRefs(fs')) = Cardinality(AllRefs(fs)) + 1
            /\ Cardinality(Refs(fs', ret'.ino)) = Cardinality(Refs(fs, ret'.ino)) + 1
        /\ ret'.op \in {"unlink", "rmdir"} =>
            Cardinality(AllRefs(fs')) = Cardinality(AllRefs(fs)) - 1
        /\ ret'.op = "rename" =>
            Cardinality(Refs(fs', ret'.ino)) = Cardinality(Refs(fs, ret'.ino))]_vars

\* A handler that returns an error left every name as it was.  The exception
\* is the long symbolic link whose target found no block: its name stays.
ErrorsAreAtomic == [][
    ret'.rc \in Error =>
        \/ Names(fs') = Names(fs)
        \/ /\ ret'.op = "symlink"
           /\ ret'.ino \in Live(fs')
           /\ fs'.inode[ret'.ino].blk = {}]_vars

\* rename returns 0 only when the file it is about changed place, or has
\* another name ("rename() does nothing" for two names of one file).
RenameMoves == [][
    ret'.op = "rename" /\ ret'.rc = "ok" =>
        \/ Refs(fs', ret'.ino) # Refs(fs, ret'.ino)
        \/ Cardinality(Refs(fs, ret'.ino)) > 1]_vars

\* link returns 0 only when the file has one name more than before.
LinkAddsName == [][
    ret'.op = "link" /\ ret'.rc = "ok" =>
        Cardinality(Refs(fs', ret'.ino)) = Cardinality(Refs(fs, ret'.ino)) + 1]_vars

-----------------------------------------------------------------------------
(* What one failing call can do to a sound file system *)

\* The file systems the checks with unsafe call sites go on from: what is left
\* after such a failure is for e2fsck.
Sound ==
    /\ Root \in Dirs(fs)
    /\ NoSharedBlocks /\ NamesResolve /\ NoUndercount /\ UniqueNames
    /\ FreeUnlinked(fs)

\* Whatever fails, rename never leaves the file it moves without a name.
RenameNeverLoses == [][
    Sound /\ ret'.op = "rename" => Refs(fs', ret'.ino) # {}]_vars

\* The names of inode i.
Places(f, i) == {p \in Dirs(f) \X Name : ext2fs_namei(f, p[1], p[2]) = i}

\* What g has left of inode i of f, when the names in S go: the others, and its
\* inode and its blocks, unless no other is left.
Spared(f, g, i, S) ==
    /\ Places(f, i) \ S \subseteq Places(g, i)
    /\ \/ Places(f, i) # {} /\ Places(f, i) \subseteq S
       \/ /\ i \in Live(g)
          /\ g.inode[i].kind = f.inode[i].kind
          /\ f.inode[i].blk \subseteq g.inode[i].blk

\* The names a rename may have deleted to move its file there: each is free
\* now, or the file's.
Overwritten ==
    {p \in Dirs(fs) \X Name :
        ret'.op = "rename" /\ ext2fs_namei(fs', p[1], p[2]) \in {NoIno, ret'.ino}}

\* Whatever fails, the damage is confined to the inode of the request.  Every
\* name but its own leads to an inode, every other inode is counted for its
\* names, blocks are never shared, and no directory holds a name twice.  And no
\* other file loses a name, its inode or a block, but for the destination of a
\* rename, which is deleted before the file is moved there and does not come
\* back when that fails.
DamageIsConfined == [][
    Sound =>
        /\ NoSharedBlocks' /\ UniqueNames'
        /\ \A b \in DirBlocks(fs') : \A n \in Entries(fs', b) :
            fs'.data[b][n] \in Live(fs') \cup {ret'.ino}
        /\ \A i \in Live(fs') \ {ret'.ino} : CountCovers(fs', i)
        /\ \E S \in {{}} \cup {{p} : p \in Overwritten} :
            \A i \in Live(fs) \ {ret'.ino} : Spared(fs, fs', i, S)]_vars

\* A handler that leaves a name without an inode, or a link count too low,
\* says so: it never returns 0 from there.
DamageIsReported == [][Sound /\ ~ Sound' => ret'.rc \in Error]_vars

-----------------------------------------------------------------------------
(* The tree the daemon shows *)

Tree == INSTANCE PosixTree WITH
    Node  <- Ino,
    None  <- NoIno,
    kind  <- [i \in Ino |-> IF i \in Live(fs) THEN fs.inode[i].kind ELSE "none"],
    names <- [d \in Ino |-> [n \in Name |->
                IF d \in Dirs(fs) THEN ext2fs_namei(fs, d, n) ELSE NoIno]],
    reply <- IF ret.rc \in Error THEN "error" ELSE "ok"

\* When no call fails, each handler is one step of the tree: it does what POSIX
\* says or nothing.  Rename, unlink and link of several inodes, blocks and
\* counts never show an intermediate tree, and a file lives exactly as long
\* as it has a name.
ImplementsPosixTree == Tree!Spec
=============================================================================
