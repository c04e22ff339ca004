------------------------------ MODULE Ext2Ops ------------------------------
(***************************************************************************)
(* The handlers of fuse-ext2 that change the name space, as functions of   *)
(* the file system they find.  The daemon runs with "-s", one thread, so a *)
(* handler is never interleaved with another one; what makes it hard is    *)
(* that it may stop half way.                                              *)
(*                                                                         *)
(* Every handler takes the file system f, the request's path as <<d, n>>   *)
(* (the directory its parent resolves to and the last component), and      *)
(* "bad", the set of call sites whose libext2fs call fails this time.  It  *)
(* returns the file system it leaves and its reply.  A test in the ladder  *)
(* of IFs is an early return, in the order of the C code.                  *)
(*                                                                         *)
(* An operator named X_Something is X with a mistake in it.  No handler    *)
(* uses it: it stands in for X when a check is tried on faulty code.       *)
(***************************************************************************)
EXTENDS LibExt2fs

\* Call sites whose failure leaves a name without an inode or a link count
\* behind it: the code has already written a directory entry and does not
\* take it back.
UnsafeSites ==
    {"create.write_new_inode", "link.source_inode", "rename.src_parent",
     "rename.dotdot", "rename.dest_parent", "rename.source", "rename.dirent"}

\* The other call sites that can fail after something was written, or before
\* anything was.
SafeSites ==
    {"readinode", "kill.inode", "kill.blocks", "open.atime", "dir.link",
     "dir.expand", "create.parent", "link.dest_inode", "mkdir.mkdir",
     "mkdir.attributes", "unlink.dirent", "unlink.parent", "unlink.inode",
     "rmdir.dirent", "rmdir.parent", "rename.reread", "truncate.size",
     "truncate.inode", "write.data", "symlink.release"}

Site  == UnsafeSites \cup SafeSites
Error == {"ENOENT", "EIO", "ENOMEM", "ENOSPC", "EISDIR", "ENOTDIR", "ENOTEMPTY"}
Reply == Error \cup {"ok", "short"}

Ret(f, rc) == [fs |-> f, rc |-> rc]

-----------------------------------------------------------------------------
(* do_*: what the handlers share *)

do_killfilebyinode_LeaksBlocks(f, i, r, bad) ==
    Ret([f EXCEPT !.inode[i].links = 0, !.imap = @ \ {i}], "ok")

do_killfilebyinode_BlocksFirst(f, i, r, bad) ==
    LET g == [f EXCEPT !.bmap = @ \ r.blk] IN
    IF "kill.inode" \in bad THEN Ret(g, "EIO")
    ELSE Ret([g EXCEPT !.inode[i].links = 0, !.imap = @ \ {i}], "ok")

\* The inode is written with link count 0, the blocks it lists are released
\* one by one (a failure of the iteration is not looked at), the inode number
\* is released.  The freed inode goes on listing its blocks.
do_killfilebyinode(f, i, r, bad) ==
    IF "kill.inode" \in bad THEN Ret(f, "EIO")
    ELSE LET dead == [r EXCEPT !.links = 0]
             gone == IF "kill.blocks" \in bad THEN {} ELSE r.blk
         IN  Ret([f EXCEPT !.inode[i] = dead,
                           !.bmap     = @ \ gone,
                           !.imap     = @ \ {i}], "ok")

do_writeinode_OneLinkTooFew(f, i, r, site, bad) ==
    IF r.links <= 1 THEN do_killfilebyinode(f, i, r, bad)
    ELSE IF site \in bad THEN Ret(f, "EIO")
    ELSE Ret(ext2fs_write_inode(f, i, r), "ok")

\* Writes r, a copy of inode i that the caller read earlier and may have
\* changed; without links the file goes.
do_writeinode(f, i, r, site, bad) ==
    IF r.links < 1 THEN do_killfilebyinode(f, i, r, bad)
    ELSE IF site \in bad THEN Ret(f, "EIO")
    ELSE Ret(ext2fs_write_inode(f, i, r), "ok")

AddEntry_NoRetry(f, d, n, i, bad) ==
    IF Room(f, d, n) = {} /\ FreeBlocks(f) = {} THEN Ret(f, "ENOSPC")
    ELSE IF Room(f, d, n) = {} THEN Ret(ext2fs_expand_dir(f, d), "ok")
    ELSE Ret(ext2fs_link(f, d, n, i), "ok")

AddEntry_LosesError(f, d, n, i, bad) ==
    LET full == Room(f, d, n) = {}
        g    == IF full THEN ext2fs_expand_dir(f, d) ELSE f
    IN  IF full /\ (FreeBlocks(f) = {} \/ "dir.expand" \in bad)
        THEN Ret(f, "ENOSPC")
        ELSE IF "dir.link" \in bad THEN Ret(g, "ok")
        ELSE Ret(ext2fs_link(g, d, n, i), "ok")

\* do { ext2fs_link } while EXT2_ET_DIR_NO_SPACE, with ext2fs_expand_dir
\* between two rounds: the loop of do_create, op_link and op_rename.
AddEntry(f, d, n, i, bad) ==
    LET full == Room(f, d, n) = {}
        g    == IF full THEN ext2fs_expand_dir(f, d) ELSE f
    IN  IF full /\ (FreeBlocks(f) = {} \/ "dir.expand" \in bad)
        THEN Ret(f, "ENOSPC")
        ELSE IF "dir.link" \in bad THEN Ret(g, "EIO")
        ELSE Ret(ext2fs_link(g, d, n, i), "ok")

\* Reads the inode and writes it back with a new access time.
do_open(f, d, n, bad) ==
    LET i == ext2fs_namei(f, d, n) IN
    IF i = NoIno \/ "readinode" \in bad THEN Ret(f, "ENOENT")
    ELSE LET w == do_writeinode(f, i, f.inode[i], "open.atime", bad) IN
         Ret(w.fs, IF w.rc = "ok" THEN "ok" ELSE "ENOENT")

do_create_NoInodeTest(f, d, n, kind, ni, bad) ==
    LET lk == AddEntry(f, d, n, ni, bad)
        g  == ext2fs_inode_alloc(lk.fs, ni)
    IN  IF lk.rc # "ok" THEN lk
        ELSE Ret(ext2fs_write_inode(g, ni,
                    [kind |-> kind, links |-> 1, blk |-> {}]), "ok")

\* ni is the inode number ext2fs_new_inode finds.  The entry is written
\* before the inode; the parent is read again before its times are written.
do_create(f, d, n, kind, ni, bad) ==
    LET lk == AddEntry(f, d, n, ni, bad)
        g  == ext2fs_inode_alloc(lk.fs, ni)
        h  == ext2fs_write_inode(g, ni, [kind |-> kind, links |-> 1, blk |-> {}])
        w  == do_writeinode(h, d, h.inode[d], "create.parent", bad)
    IN  IF "readinode" \in bad THEN Ret(f, "EIO")
        ELSE IF ni = NoIno THEN Ret(f, "ENOMEM")
        ELSE IF lk.rc # "ok" THEN lk
        ELSE IF "create.write_new_inode" \in bad THEN Ret(g, "EIO")
        ELSE w

\* -ENOTEMPTY when some entry other than "." and ".." is in use.
do_check_empty_dir(f, i) == IF EmptyDir(f, i) THEN "ok" ELSE "ENOTEMPTY"

-----------------------------------------------------------------------------
(* Handlers *)

op_mknod(f, d, n, kind, ni, bad) == do_create(f, d, n, kind, ni, bad)

op_open(f, d, n, bad) == do_open(f, d, n, bad)

\* Open when the name is there, else create and open.
op_create(f, d, n, ni, bad) ==
    LET first == op_open(f, d, n, bad)
        made  == do_create(first.fs, d, n, "reg", ni, bad)
        again == op_open(made.fs, d, n, bad)
    IN  IF first.rc = "ok" THEN first
        ELSE IF made.rc # "ok" THEN made
        ELSE Ret(again.fs, IF again.rc = "ok" THEN "ok" ELSE "EIO")

op_mkdir(f, d, n, ni, bad) ==
    LET full == Room(f, d, n) = {}
        g    == IF full THEN ext2fs_expand_dir(f, d) ELSE f
        h    == ext2fs_mkdir(g, d, n, ni)
        w1   == do_writeinode(h, ni, h.inode[ni], "mkdir.attributes", bad)
        w2   == do_writeinode(w1.fs, d, w1.fs.inode[d], "mkdir.attributes", bad)
    IN  IF "readinode" \in bad THEN Ret(f, "EIO")
        \* the library allocates before it looks for room in the directory
        ELSE IF ni = NoIno \/ FreeBlocks(f) = {} \/ "mkdir.mkdir" \in bad
             THEN Ret(f, "EIO")
        ELSE IF full /\ "dir.expand" \in bad THEN Ret(f, "ENOSPC")
        ELSE IF FreeBlocks(g) = {} THEN Ret(g, "EIO")
        ELSE IF w1.rc # "ok" THEN w1
        ELSE w2

\* A short target lives in the inode; a long one is written to a block, and
\* when that fails the new name stays.
op_symlink(f, d, n, long, ni, bad) ==
    LET made   == do_create(f, d, n, "lnk", ni, bad)
        opened == do_open(made.fs, d, n, bad)
    IN  IF made.rc # "ok" \/ ~ long THEN made
        ELSE IF opened.rc # "ok" THEN Ret(opened.fs, "EIO")
        ELSE IF FreeBlocks(opened.fs) = {} \/ "write.data" \in bad
             THEN Ret(opened.fs, "EIO")
        ELSE Ret(ext2fs_file_grow(opened.fs, ni),
                 IF "symlink.release" \in bad THEN "EIO" ELSE "ok")

op_link_NoCount(f, sd, sn, d, n, bad) ==
    LET s_ino == ext2fs_namei(f, sd, sn)
        lk    == AddEntry(f, d, n, s_ino, bad)
    IN  IF s_ino = NoIno THEN Ret(f, "ENOENT") ELSE lk

op_link_LosesError(f, sd, sn, d, n, bad) ==
    LET s_ino == ext2fs_namei(f, sd, sn)
        lk    == AddEntry(f, d, n, s_ino, bad)
        src   == [f.inode[s_ino] EXCEPT !.links = (@ + 1) % LinkMod]
        w1    == do_writeinode(lk.fs, s_ino, src, "link.source_inode", bad)
        w2    == do_writeinode(w1.fs, d, f.inode[d], "link.dest_inode", bad)
    IN  IF s_ino = NoIno THEN Ret(f, "ENOENT")
        ELSE IF lk.rc # "ok" THEN lk
        ELSE w2

\* d_inode, the destination's parent, is read before ext2fs_link and
\* ext2fs_expand_dir and written after them.
op_link(f, sd, sn, d, n, bad) ==
    LET s_ino == ext2fs_namei(f, sd, sn)
        lk    == AddEntry(f, d, n, s_ino, bad)
        src   == [f.inode[s_ino] EXCEPT !.links = (@ + 1) % LinkMod]
        w1    == do_writeinode(lk.fs, s_ino, src, "link.source_inode", bad)
        w2    == do_writeinode(w1.fs, d, f.inode[d], "link.dest_inode", bad)
    IN  IF "readinode" \in bad THEN Ret(f, "EIO")
        ELSE IF s_ino = NoIno THEN Ret(f, "ENOENT")
        ELSE IF lk.rc # "ok" THEN lk
        ELSE IF w1.rc # "ok" THEN Ret(w1.fs, "EIO")
        ELSE Ret(w2.fs, IF w2.rc = "ok" THEN "ok" ELSE "EIO")

op_unlink_TestsLate(f, d, n, bad) ==
    LET r_ino == ext2fs_namei(f, d, n)
        cut   == ext2fs_unlink(f, d, n, r_ino)
        less  == [f.inode[r_ino] EXCEPT !.links = @ - 1]
    IN  IF r_ino = NoIno THEN Ret(f, "ENOENT")
        ELSE IF IsDir(f, r_ino) THEN Ret(cut, "EISDIR")
        ELSE do_writeinode(cut, r_ino, less, "unlink.inode", bad)

op_unlink_InodeFirst(f, d, n, bad) ==
    LET r_ino == ext2fs_namei(f, d, n)
        less  == [f.inode[r_ino] EXCEPT !.links = IF @ > 0 THEN @ - 1 ELSE 0]
        w     == do_writeinode(f, r_ino, less, "unlink.inode", bad)
    IN  IF r_ino = NoIno THEN Ret(f, "ENOENT")
        ELSE IF IsDir(f, r_ino) THEN Ret(f, "EISDIR")
        ELSE IF w.rc # "ok" THEN w
        ELSE IF "unlink.dirent" \in bad THEN Ret(w.fs, "EIO")
        ELSE Ret(ext2fs_unlink(w.fs, d, n, r_ino), "ok")

op_unlink(f, d, n, bad) ==
    LET r_ino == ext2fs_namei(f, d, n)
        cut   == ext2fs_unlink(f, d, n, r_ino)
        w1    == do_writeinode(cut, d, f.inode[d], "unlink.parent", bad)
        less  == [f.inode[r_ino] EXCEPT !.links = IF @ > 0 THEN @ - 1 ELSE 0]
        w2    == do_writeinode(w1.fs, r_ino, less, "unlink.inode", bad)
    IN  IF "readinode" \in bad THEN Ret(f, "EIO")
        ELSE IF r_ino = NoIno THEN Ret(f, "ENOENT")
        ELSE IF IsDir(f, r_ino) THEN Ret(f, "EISDIR")
        ELSE IF "unlink.dirent" \in bad THEN Ret(f, "EIO")
        ELSE IF w1.rc # "ok" THEN w1
        ELSE w2

op_rmdir_ParentUncounted(f, d, n, bad) ==
    LET r_ino == ext2fs_namei(f, d, n) IN
    IF r_ino = NoIno THEN Ret(f, "ENOENT")
    ELSE IF ~ IsDir(f, r_ino) THEN Ret(f, "ENOTDIR")
    ELSE IF do_check_empty_dir(f, r_ino) # "ok" THEN Ret(f, "ENOTEMPTY")
    ELSE do_killfilebyinode(ext2fs_unlink(f, d, n, r_ino), r_ino,
                            f.inode[r_ino], bad)

op_rmdir_KillFirst(f, d, n, bad) ==
    LET r_ino == ext2fs_namei(f, d, n)
        k     == do_killfilebyinode(f, r_ino, f.inode[r_ino], bad)
    IN  IF r_ino = NoIno THEN Ret(f, "ENOENT")
        ELSE IF ~ IsDir(f, r_ino) THEN Ret(f, "ENOTDIR")
        ELSE IF do_check_empty_dir(f, r_ino) # "ok" THEN Ret(f, "ENOTEMPTY")
        ELSE IF k.rc # "ok" THEN k
        ELSE IF "rmdir.dirent" \in bad THEN Ret(k.fs, "EIO")
        ELSE Ret(ext2fs_unlink(k.fs, d, n, r_ino), "ok")

op_rmdir_NoEmptyTest(f, d, n, bad) ==
    LET r_ino == ext2fs_namei(f, d, n)
        k     == do_killfilebyinode(ext2fs_unlink(f, d, n, r_ino), r_ino,
                                    f.inode[r_ino], bad)
        less  == [k.fs.inode[d] EXCEPT !.links = IF @ > 1 THEN @ - 1 ELSE @]
    IN  IF r_ino = NoIno THEN Ret(f, "ENOENT")
        ELSE IF ~ IsDir(f, r_ino) THEN Ret(f, "ENOTDIR")
        ELSE IF k.rc # "ok" THEN k
        ELSE do_writeinode(k.fs, d, less, "rmdir.parent", bad)

\* The parent is read again after the directory is gone: its count is the
\* one on disk, and does not go below 1.
op_rmdir(f, d, n, bad) ==
    LET r_ino == ext2fs_namei(f, d, n)
        k     == do_killfilebyinode(ext2fs_unlink(f, d, n, r_ino), r_ino,
                                    f.inode[r_ino], bad)
        less  == [k.fs.inode[d] EXCEPT !.links = IF @ > 1 THEN @ - 1 ELSE @]
        w     == do_writeinode(k.fs, d, less, "rmdir.parent", bad)
    IN  IF "readinode" \in bad THEN Ret(f, "EIO")
        ELSE IF r_ino = NoIno THEN Ret(f, "ENOENT")
        ELSE IF ~ IsDir(f, r_ino) THEN Ret(f, "ENOTDIR")
        ELSE IF r_ino = Root THEN Ret(f, "EIO")
        ELSE IF do_check_empty_dir(f, r_ino) # "ok"
             THEN Ret(f, do_check_empty_dir(f, r_ino))
        ELSE IF "rmdir.dirent" \in bad THEN Ret(f, "EIO")
        ELSE IF k.rc # "ok" THEN k
        ELSE w

do_fix_dotdot_Skipped(f, i, dotdot) == f

\* Points ".." of directory i at its new parent.
do_fix_dotdot(f, i, dotdot) == [f EXCEPT !.dotdot[i] = dotdot]

-----------------------------------------------------------------------------
(* op_rename, in its three steps *)

RenameRefusal_NoEmptyTest(f, src, dest) ==
    IF IsDir(f, dest) /\ ~ IsDir(f, src) THEN "EISDIR"
    ELSE IF IsDir(f, src) /\ ~ IsDir(f, dest) THEN "ENOTDIR"
    ELSE "ok"

RenameRefusal_NoKindTest(f, src, dest) ==
    IF IsDir(f, dest) /\ do_check_empty_dir(f, dest) # "ok" THEN "ENOTEMPTY"
    ELSE "ok"

\* Why a rename onto an existing name is refused; "ok" when it is not.
RenameRefusal(f, src, dest) ==
    IF IsDir(f, dest) /\ ~ IsDir(f, src) THEN "EISDIR"
    ELSE IF IsDir(f, dest) /\ do_check_empty_dir(f, dest) # "ok" THEN "ENOTEMPTY"
    ELSE IF IsDir(f, src) /\ ~ IsDir(f, dest) THEN "ENOTDIR"
    ELSE "ok"

RemoveDest_Skipped(f, d, n, bad) == Ret(f, "ok")

\* Step 1: the destination is deleted by the handler for its kind.
RemoveDest(f, d, n, bad) ==
    IF IsDir(f, ext2fs_namei(f, d, n)) THEN op_rmdir(f, d, n, bad)
                                       ELSE op_unlink(f, d, n, bad)

MoveEntry_OldFirst(g, sd, sn, d_src, si, src, td, tn, bad) ==
    AddEntry(ext2fs_unlink(g, sd, sn, si), td, tn, si, bad)

\* Steps 2 and 3, on the file system g that step 1 left: the entry in the new
\* place, the counters and ".." of a directory that changes parents, the
\* inodes, and last the entry in the old place.  d_src and src are the copies
\* read before step 1; the destination's parent is read again after step 1 and
\* after ext2fs_expand_dir.
MoveEntry(g, sd, sn, d_src, si, src, td, tn, bad) ==
    LET lk     == AddEntry(g, td, tn, si, bad)
        across == src.kind = "dir" /\ sd # td
        d_dest == [lk.fs.inode[td] EXCEPT
                     !.links = IF across THEN (@ + 1) % LinkMod ELSE @]
        less   == [d_src EXCEPT !.links = IF @ > 1 THEN @ - 1 ELSE @]
        w1     == IF across
                  THEN do_writeinode(lk.fs, sd, less, "rename.src_parent", bad)
                  ELSE lk
        h      == IF across THEN do_fix_dotdot(w1.fs, si, td) ELSE w1.fs
        w2     == do_writeinode(h, td, d_dest, "rename.dest_parent", bad)
        w3     == do_writeinode(w2.fs, si, src, "rename.source", bad)
    IN  IF lk.rc # "ok" THEN lk
        ELSE IF w1.rc # "ok" THEN Ret(w1.fs, "EIO")
        ELSE IF across /\ "rename.dotdot" \in bad THEN Ret(w1.fs, "EIO")
        ELSE IF w2.rc # "ok" THEN w2
        ELSE IF w3.rc # "ok" THEN w3
        ELSE IF "rename.dirent" \in bad THEN Ret(w3.fs, "EIO")
        ELSE Ret(ext2fs_unlink(w3.fs, sd, sn, si), "ok")

op_rename_IgnoresRemove(f, sd, sn, td, tn, bad) ==
    LET si == ext2fs_namei(f, sd, sn)
        ti == ext2fs_namei(f, td, tn)
        g  == IF ti = NoIno THEN f ELSE RemoveDest(f, td, tn, bad).fs
    IN  IF si = NoIno THEN Ret(f, "ENOENT")
        ELSE IF si = ti THEN Ret(f, "ok")
        ELSE IF ti # NoIno /\ RenameRefusal(f, si, ti) # "ok"
             THEN Ret(f, RenameRefusal(f, si, ti))
        ELSE MoveEntry(g, sd, sn, f.inode[sd], si, f.inode[si], td, tn, bad)

\* When the destination cannot be deleted the handler returns rt, which is
\* still 0, and not the error rc.
op_rename(f, sd, sn, td, tn, bad) ==
    LET si   == ext2fs_namei(f, sd, sn)
        ti   == ext2fs_namei(f, td, tn)
        rm   == RemoveDest(f, td, tn, bad)
        Move(g) == MoveEntry(g, sd, sn, f.inode[sd], si, f.inode[si], td, tn, bad)
    IN  IF "readinode" \in bad THEN Ret(f, "EIO")
        ELSE IF si = NoIno THEN Ret(f, "ENOENT")
        ELSE IF ti = NoIno THEN Move(f)
        ELSE IF si = ti THEN Ret(f, "ok")
        ELSE IF RenameRefusal(f, si, ti) # "ok" THEN Ret(f, RenameRefusal(f, si, ti))
        ELSE IF rm.rc # "ok" THEN Ret(rm.fs, "ok")
        ELSE IF "rename.reread" \in bad THEN Ret(rm.fs, "EIO")
        ELSE Move(rm.fs)

-----------------------------------------------------------------------------
(* File contents, as far as they take and give back blocks *)

\* One block past the end of the file; a full disk makes a short write.  The
\* handler goes on with the NULL of a do_open that failed, which is undefined:
\* those failures are left out.
op_write(f, d, n, bad) ==
    LET o == do_open(f, d, n, bad \ {"open.atime", "readinode"})
        i == ext2fs_namei(f, d, n)
    IN  IF "write.data" \in bad THEN Ret(o.fs, "EIO")
        ELSE IF FreeBlocks(o.fs) = {} THEN Ret(o.fs, "short")
        ELSE Ret(ext2fs_file_grow(o.fs, i), "ok")

op_truncate_Stale(f, d, n, bad) ==
    LET i == ext2fs_namei(f, d, n)
        w == do_writeinode(ext2fs_file_clear(f, i), i, f.inode[i],
                           "truncate.inode", bad)
    IN  Ret(w.fs, IF w.rc = "ok" THEN "ok" ELSE "EIO")

\* To length 0.  The inode is read again after the blocks are released.
op_truncate(f, d, n, bad) ==
    LET o == do_open(f, d, n, bad)
        i == ext2fs_namei(f, d, n)
        g == ext2fs_file_clear(o.fs, i)
        w == do_writeinode(g, i, g.inode[i], "truncate.inode", bad)
    IN  IF o.rc # "ok" THEN Ret(o.fs, "ENOENT")
        ELSE IF "truncate.size" \in bad THEN Ret(o.fs, "EIO")
        ELSE Ret(w.fs, IF w.rc = "ok" THEN "ok" ELSE "EIO")
=============================================================================
