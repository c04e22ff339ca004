--------------------------- MODULE Ext2TypeProofs ---------------------------
(***************************************************************************)
(* Two invariants of the daemon, whichever calls fail: TypeOK, and that no *)
(* directory block holds more entries than it has room for.  One lemma     *)
(* for each library call and each handler, then the theorem.               *)
(***************************************************************************)
EXTENDS Ext2Daemon, FiniteSetTheorems, TLAPS

Result == [fs : FileSystem, rc : Reply]

-----------------------------------------------------------------------------
(* The library *)

LEMMA ReplyTyped ==
    /\ "ok" \in Reply /\ "short" \in Reply /\ "EIO" \in Reply
    /\ "ENOENT" \in Reply /\ "ENOMEM" \in Reply /\ "ENOSPC" \in Reply
    /\ "EISDIR" \in Reply /\ "ENOTDIR" \in Reply /\ "ENOTEMPTY" \in Reply
  BY DEF Reply, Error

LEMMA RetTyped ==
    ASSUME NEW f \in FileSystem, NEW rc \in Reply
    PROVE  /\ Ret(f, rc) \in Result
           /\ Ret(f, rc).fs = f
           /\ Ret(f, rc).rc = rc
  BY DEF Ret, Result

\* A link count stays within its width.
LEMMA LinksTyped ==
    ASSUME NEW r \in Inode
    PROVE  /\ [r EXCEPT !.links = (@ + 1) % LinkMod] \in Inode
           /\ [r EXCEPT !.links = IF @ > 0 THEN @ - 1 ELSE 0] \in Inode
           /\ [r EXCEPT !.links = IF @ > 1 THEN @ - 1 ELSE @] \in Inode
           /\ [r EXCEPT !.links = 0] \in Inode
<1>1. r.links \in 0 .. LinkMod - 1 /\ LinkMod \in Nat /\ LinkMod > 2
  BY WidthAssumption DEF Inode
<1>2. (r.links + 1) % LinkMod \in 0 .. LinkMod - 1
  BY <1>1
<1> QED
  BY <1>1, <1>2 DEF Inode

LEMMA WriteInodeTyped ==
    ASSUME NEW f \in FileSystem, NEW i, NEW r \in Inode
    PROVE  ext2fs_write_inode(f, i, r) \in FileSystem
  BY DEF ext2fs_write_inode, FileSystem

LEMMA SetEntryTyped ==
    ASSUME NEW f \in FileSystem, NEW b, NEW n, NEW i \in Ino \cup {NoIno}
    PROVE  SetEntry(f, b, n, i) \in FileSystem
  BY DEF SetEntry, FileSystem

LEMMA LinkTyped ==
    ASSUME NEW f \in FileSystem, NEW d, NEW n, NEW i \in Ino
    PROVE  ext2fs_link(f, d, n, i) \in FileSystem
  BY SetEntryTyped DEF ext2fs_link

LEMMA UnlinkTyped ==
    ASSUME NEW f \in FileSystem, NEW d, NEW n, NEW i
    PROVE  ext2fs_unlink(f, d, n, i) \in FileSystem
  BY SetEntryTyped DEF ext2fs_unlink

LEMMA NewBlockTyped ==
    ASSUME NEW f \in FileSystem, FreeBlocks(f) # {}
    PROVE  ext2fs_new_block(f) \in Block /\ ext2fs_new_block(f) \notin f.bmap
  BY DEF ext2fs_new_block, FreeBlocks

LEMMA ExpandTyped ==
    ASSUME NEW f \in FileSystem, NEW d \in Ino, FreeBlocks(f) # {}
    PROVE  ext2fs_expand_dir(f, d) \in FileSystem
<1> DEFINE b == ext2fs_new_block(f)
<1>1. b \in Block
  BY NewBlockTyped
<1>2. [f.inode[d] EXCEPT !.blk = @ \cup {b}] \in Inode
  BY <1>1 DEF FileSystem, Inode
<1>3. [n \in Name |-> NoIno] \in [Name -> Ino \cup {NoIno}]
  OBVIOUS
<1> HIDE DEF b
<1> QED
  BY <1>1, <1>2, <1>3 DEF FileSystem, ext2fs_expand_dir, b

LEMMA GrowTyped ==
    ASSUME NEW f \in FileSystem, NEW i \in Ino, FreeBlocks(f) # {}
    PROVE  ext2fs_file_grow(f, i) \in FileSystem
<1> DEFINE b == ext2fs_new_block(f)
<1>1. b \in Block
  BY NewBlockTyped
<1>2. [f.inode[i] EXCEPT !.blk = @ \cup {b}] \in Inode
  BY <1>1 DEF FileSystem, Inode
<1>3. [n \in Name |-> NoIno] \in [Name -> Ino \cup {NoIno}]
  OBVIOUS
<1> HIDE DEF b
<1> QED
  BY <1>1, <1>2, <1>3 DEF FileSystem, ext2fs_file_grow, b

LEMMA ClearTyped ==
    ASSUME NEW f \in FileSystem, NEW i \in Ino
    PROVE  ext2fs_file_clear(f, i) \in FileSystem
<1>1. [f.inode[i] EXCEPT !.blk = {}] \in Inode
  BY DEF FileSystem, Inode
<1> QED
  BY <1>1 DEF FileSystem, ext2fs_file_clear

LEMMA AllocTyped ==
    ASSUME NEW f \in FileSystem, NEW i \in Ino
    PROVE  ext2fs_inode_alloc(f, i) \in FileSystem
  BY DEF ext2fs_inode_alloc, FileSystem

LEMMA MkdirTyped ==
    ASSUME NEW f \in FileSystem, NEW d \in Ino, NEW n, NEW i \in Ino,
           FreeBlocks(f) # {}
    PROVE  ext2fs_mkdir(f, d, n, i) \in FileSystem
<1> DEFINE b == ext2fs_new_block(f)
           r == [kind |-> "dir", links |-> 2, blk |-> {b}]
           g == [f EXCEPT
                    !.inode[i]  = r,
                    !.data[b]   = [m \in Name |-> NoIno],
                    !.dotdot[i] = d,
                    !.imap      = @ \cup {i},
                    !.bmap      = @ \cup {b}]
           h == ext2fs_link(g, d, n, i)
<1>1. b \in Block
  BY NewBlockTyped
<1>2. r \in Inode
  BY <1>1, WidthAssumption DEF Inode, Kind
<1>3. [m \in Name |-> NoIno] \in [Name -> Ino \cup {NoIno}]
  OBVIOUS
<1>4. g \in FileSystem
  <2> HIDE DEF b, r
  <2> QED
    BY <1>1, <1>2, <1>3 DEF FileSystem
<1>5. h \in FileSystem
  <2> HIDE DEF g
  <2> QED
    BY <1>4, LinkTyped
<1>6. ext2fs_mkdir(f, d, n, i) = [h EXCEPT !.inode[d].links = (@ + 1) % LinkMod]
  BY DEF ext2fs_mkdir
<1> HIDE DEF h
<1> DEFINE v == (h.inode[d].links + 1) % LinkMod
<1>7. v \in 0 .. LinkMod - 1
  BY <1>5, WidthAssumption DEF FileSystem, Inode
<1> HIDE DEF v
<1>8. [h.inode[d] EXCEPT !.links = v] \in Inode
  <2>1. h.inode[d] \in Inode
    BY <1>5 DEF FileSystem
  <2> QED
    BY <1>7, <2>1 DEF Inode
<1>9. [h EXCEPT !.inode[d].links = v] = ext2fs_write_inode(h, d, [h.inode[d] EXCEPT !.links = v])
  BY <1>5 DEF ext2fs_write_inode, FileSystem
<1> QED
  BY <1>5, <1>6, <1>8, <1>9, WriteInodeTyped DEF v

LEMMA NameiTyped ==
    ASSUME NEW f \in FileSystem, NEW d \in Ino, NEW n \in Name
    PROVE  ext2fs_namei(f, d, n) \in Ino \cup {NoIno}
<1>1. CASE Holding(f, d, n) = {}
  BY <1>1 DEF ext2fs_namei
<1>2. CASE Holding(f, d, n) # {}
  <2> DEFINE b == CHOOSE b \in Holding(f, d, n) : TRUE
  <2>1. b \in Block
    BY <1>2 DEF Holding, FileSystem, Inode
  <2> HIDE DEF b
  <2>2. f.data[b][n] \in Ino \cup {NoIno}
    BY <2>1 DEF FileSystem
  <2> QED
    BY <1>2, <2>2 DEF ext2fs_namei, b
<1> QED
  BY <1>1, <1>2

-----------------------------------------------------------------------------
(* The shared parts of the handlers *)

LEMMA KillTyped ==
    ASSUME NEW f \in FileSystem, NEW i, NEW r \in Inode, NEW bad
    PROVE  do_killfilebyinode(f, i, r, bad) \in Result
<1> DEFINE dead == [r EXCEPT !.links = 0]
           gone == IF "kill.blocks" \in bad THEN {} ELSE r.blk
           g    == [f EXCEPT !.inode[i] = dead,
                             !.bmap     = @ \ gone,
                             !.imap     = @ \ {i}]
<1>1. dead \in Inode
  BY LinksTyped
<1>2. g \in FileSystem
  <2> HIDE DEF dead, gone
  <2> QED
    BY <1>1 DEF FileSystem
<1>3. do_killfilebyinode(f, i, r, bad) =
        IF "kill.inode" \in bad THEN Ret(f, "EIO") ELSE Ret(g, "ok")
  BY DEF do_killfilebyinode
<1> HIDE DEF g
<1> QED
  BY <1>2, <1>3, RetTyped, ReplyTyped

LEMMA WriteTyped ==
    ASSUME NEW f \in FileSystem, NEW i, NEW r \in Inode, NEW site, NEW bad
    PROVE  do_writeinode(f, i, r, site, bad) \in Result
  BY KillTyped, WriteInodeTyped, RetTyped, ReplyTyped DEF do_writeinode

LEMMA AddEntryTyped ==
    ASSUME NEW f \in FileSystem, NEW d \in Ino, NEW n, NEW i \in Ino, NEW bad
    PROVE  AddEntry(f, d, n, i, bad) \in Result
<1> DEFINE full == Room(f, d, n) = {}
           g    == IF full THEN ext2fs_expand_dir(f, d) ELSE f
<1>1. CASE full /\ (FreeBlocks(f) = {} \/ "dir.expand" \in bad)
  BY <1>1, RetTyped, ReplyTyped DEF AddEntry
<1>2. CASE ~ (full /\ (FreeBlocks(f) = {} \/ "dir.expand" \in bad))
  <2>1. g \in FileSystem
    BY <1>2, ExpandTyped
  <2>2. AddEntry(f, d, n, i, bad) =
          IF "dir.link" \in bad THEN Ret(g, "EIO") ELSE Ret(ext2fs_link(g, d, n, i), "ok")
    BY <1>2 DEF AddEntry
  <2> HIDE DEF g
  <2> QED
    BY <2>1, <2>2, LinkTyped, RetTyped, ReplyTyped
<1> QED
  BY <1>1, <1>2

LEMMA OpenTyped ==
    ASSUME NEW f \in FileSystem, NEW d \in Ino, NEW n \in Name, NEW bad
    PROVE  /\ do_open(f, d, n, bad) \in Result
           /\ op_open(f, d, n, bad) \in Result
<1> DEFINE i == ext2fs_namei(f, d, n)
           w == do_writeinode(f, i, f.inode[i], "open.atime", bad)
<1>1. CASE i = NoIno \/ "readinode" \in bad
  BY <1>1, RetTyped, ReplyTyped DEF do_open, op_open
<1>2. CASE ~ (i = NoIno \/ "readinode" \in bad)
  <2>1. i \in Ino
    BY <1>2, NameiTyped
  <2>2. f.inode[i] \in Inode
    BY <2>1 DEF FileSystem
  <2>3. w \in Result
    BY <2>2, WriteTyped
  <2>4. do_open(f, d, n, bad) = Ret(w.fs, IF w.rc = "ok" THEN "ok" ELSE "ENOENT")
    BY <1>2 DEF do_open
  <2> HIDE DEF w
  <2> QED
    BY <2>3, <2>4, RetTyped, ReplyTyped DEF Result, op_open
<1> QED
  BY <1>1, <1>2

LEMMA DoCreateTyped ==
    ASSUME NEW f \in FileSystem, NEW d \in Ino, NEW n, NEW kind \in Kind,
           NEW ni \in Ino \cup {NoIno}, NEW bad
    PROVE  do_create(f, d, n, kind, ni, bad) \in Result
<1> DEFINE lk == AddEntry(f, d, n, ni, bad)
           g  == ext2fs_inode_alloc(lk.fs, ni)
           h  == ext2fs_write_inode(g, ni, [kind |-> kind, links |-> 1, blk |-> {}])
           w  == do_writeinode(h, d, h.inode[d], "create.parent", bad)
<1>1. CASE "readinode" \in bad \/ ni = NoIno
  BY <1>1, RetTyped, ReplyTyped DEF do_create
<1>2. CASE ~ ("readinode" \in bad \/ ni = NoIno)
  <2>1. lk \in Result
    BY <1>2, AddEntryTyped
  <2>2. g \in FileSystem
    BY <1>2, <2>1, AllocTyped DEF Result
  <2>3. [kind |-> kind, links |-> 1, blk |-> {}] \in Inode
    BY WidthAssumption DEF Inode
  <2>4. h \in FileSystem
    BY <2>2, <2>3, WriteInodeTyped
  <2>5. h.inode[d] \in Inode
    BY <2>4 DEF FileSystem
  <2>6. w \in Result
    BY <2>4, <2>5, WriteTyped
  <2>7. do_create(f, d, n, kind, ni, bad) =
          IF lk.rc # "ok" THEN lk
          ELSE IF "create.write_new_inode" \in bad THEN Ret(g, "EIO") ELSE w
    BY <1>2 DEF do_create
  <2> HIDE DEF lk, g, w
  <2> QED
    BY <2>1, <2>2, <2>6, <2>7, RetTyped, ReplyTyped
<1> QED
  BY <1>1, <1>2

-----------------------------------------------------------------------------
(* The handlers *)

LEMMA CreateTyped ==
    ASSUME NEW f \in FileSystem, NEW d \in Ino, NEW n \in Name,
           NEW ni \in Ino \cup {NoIno}, NEW bad
    PROVE  op_create(f, d, n, ni, bad) \in Result
<1> DEFINE first == op_open(f, d, n, bad)
           made  == do_create(first.fs, d, n, "reg", ni, bad)
           again == op_open(made.fs, d, n, bad)
<1>1. first \in Result
  BY OpenTyped
<1>2. made \in Result
  BY <1>1, DoCreateTyped DEF Result, Kind
<1>3. again \in Result
  BY <1>2, OpenTyped DEF Result
<1>4. op_create(f, d, n, ni, bad) =
        IF first.rc = "ok" THEN first
        ELSE IF made.rc # "ok" THEN made
        ELSE Ret(again.fs, IF again.rc = "ok" THEN "ok" ELSE "EIO")
  BY DEF op_create
<1> HIDE DEF first, made, again
<1> QED
  BY <1>1, <1>2, <1>3, <1>4, RetTyped, ReplyTyped DEF Result

LEMMA OpMkdirTyped ==
    ASSUME NEW f \in FileSystem, NEW d \in Ino, NEW n,
           NEW ni \in Ino \cup {NoIno}, NEW bad
    PROVE  op_mkdir(f, d, n, ni, bad) \in Result
<1> DEFINE full == Room(f, d, n) = {}
           g    == IF full THEN ext2fs_expand_dir(f, d) ELSE f
           h    == ext2fs_mkdir(g, d, n, ni)
           w1   == do_writeinode(h, ni, h.inode[ni], "mkdir.attributes", bad)
           w2   == do_writeinode(w1.fs, d, w1.fs.inode[d], "mkdir.attributes", bad)
<1>1. CASE \/ "readinode" \in bad
           \/ ni = NoIno \/ FreeBlocks(f) = {} \/ "mkdir.mkdir" \in bad
  BY <1>1, RetTyped, ReplyTyped DEF op_mkdir
<1>2. CASE ~ (\/ "readinode" \in bad
              \/ ni = NoIno \/ FreeBlocks(f) = {} \/ "mkdir.mkdir" \in bad)
  <2>1. g \in FileSystem
    BY <1>2, ExpandTyped
  <2>2. op_mkdir(f, d, n, ni, bad) =
          IF full /\ "dir.expand" \in bad THEN Ret(f, "ENOSPC")
          ELSE IF FreeBlocks(g) = {} THEN Ret(g, "EIO")
          ELSE IF w1.rc # "ok" THEN w1
          ELSE w2
    BY <1>2 DEF op_mkdir
  <2>3. ASSUME FreeBlocks(g) # {}
        PROVE  w1 \in Result /\ w2 \in Result
    <3> HIDE DEF g
    <3>1. h \in FileSystem
      BY <1>2, <2>1, <2>3, MkdirTyped
    <3> HIDE DEF h
    <3>2. h.inode[ni] \in Inode
      BY <1>2, <3>1 DEF FileSystem
    <3>3. w1 \in Result
      BY <3>1, <3>2, WriteTyped
    <3> HIDE DEF w1
    <3>4. w1.fs \in FileSystem /\ w1.fs.inode[d] \in Inode
      BY <3>3 DEF Result, FileSystem
    <3> QED
      BY <3>3, <3>4, WriteTyped
  <2> HIDE DEF g, w1, w2
  <2> QED
    BY <2>1, <2>2, <2>3, RetTyped, ReplyTyped
<1> QED
  BY <1>1, <1>2

LEMMA SymlinkTyped ==
    ASSUME NEW f \in FileSystem, NEW d \in Ino, NEW n \in Name, NEW long,
           NEW ni \in Ino \cup {NoIno}, NEW bad
    PROVE  op_symlink(f, d, n, long, ni, bad) \in Result
<1> DEFINE made   == do_create(f, d, n, "lnk", ni, bad)
           opened == do_open(made.fs, d, n, bad)
<1>1. made \in Result
  BY DoCreateTyped DEF Kind
<1>2. opened \in Result
  BY <1>1, OpenTyped DEF Result
<1>3. made.rc = "ok" => ni \in Ino
  BY DEF do_create, Ret
<1>4. op_symlink(f, d, n, long, ni, bad) =
        IF made.rc # "ok" \/ ~ long THEN made
        ELSE IF opened.rc # "ok" THEN Ret(opened.fs, "EIO")
        ELSE IF FreeBlocks(opened.fs) = {} \/ "write.data" \in bad
             THEN Ret(opened.fs, "EIO")
        ELSE Ret(ext2fs_file_grow(opened.fs, ni),
                 IF "symlink.release" \in bad THEN "EIO" ELSE "ok")
  BY DEF op_symlink
<1> HIDE DEF made, opened
<1> QED
  BY <1>1, <1>2, <1>3, <1>4, GrowTyped, RetTyped, ReplyTyped DEF Result

LEMMA OpLinkTyped ==
    ASSUME NEW f \in FileSystem, NEW sd \in Ino, NEW sn \in Name,
           NEW d \in Ino, NEW n, NEW bad
    PROVE  op_link(f, sd, sn, d, n, bad) \in Result
<1> DEFINE s_ino == ext2fs_namei(f, sd, sn)
           lk    == AddEntry(f, d, n, s_ino, bad)
           src   == [f.inode[s_ino] EXCEPT !.links = (@ + 1) % LinkMod]
           w1    == do_writeinode(lk.fs, s_ino, src, "link.source_inode", bad)
           w2    == do_writeinode(w1.fs, d, f.inode[d], "link.dest_inode", bad)
<1>1. CASE "readinode" \in bad \/ s_ino = NoIno
  BY <1>1, RetTyped, ReplyTyped DEF op_link
<1>2. CASE ~ ("readinode" \in bad \/ s_ino = NoIno)
  <2>1. s_ino \in Ino
    BY <1>2, NameiTyped
  <2>2. lk \in Result
    BY <2>1, AddEntryTyped
  <2>3. src \in Inode /\ f.inode[d] \in Inode
    BY <2>1, LinksTyped DEF FileSystem
  <2>4. w1 \in Result
    BY <2>2, <2>3, WriteTyped DEF Result
  <2>5. w2 \in Result
    BY <2>3, <2>4, WriteTyped DEF Result
  <2>6. op_link(f, sd, sn, d, n, bad) =
          IF lk.rc # "ok" THEN lk
          ELSE IF w1.rc # "ok" THEN Ret(w1.fs, "EIO")
          ELSE Ret(w2.fs, IF w2.rc = "ok" THEN "ok" ELSE "EIO")
    BY <1>2 DEF op_link
  <2> HIDE DEF s_ino, lk, src, w1, w2
  <2> QED
    BY <2>2, <2>4, <2>5, <2>6, RetTyped, ReplyTyped DEF Result
<1> QED
  BY <1>1, <1>2

LEMMA OpUnlinkTyped ==
    ASSUME NEW f \in FileSystem, NEW d \in Ino, NEW n \in Name, NEW bad
    PROVE  op_unlink(f, d, n, bad) \in Result
<1> DEFINE r_ino == ext2fs_namei(f, d, n)
           cut   == ext2fs_unlink(f, d, n, r_ino)
           w1    == do_writeinode(cut, d, f.inode[d], "unlink.parent", bad)
           less  == [f.inode[r_ino] EXCEPT !.links = IF @ > 0 THEN @ - 1 ELSE 0]
           w2    == do_writeinode(w1.fs, r_ino, less, "unlink.inode", bad)
<1>1. CASE "readinode" \in bad \/ r_ino = NoIno
  BY <1>1, RetTyped, ReplyTyped DEF op_unlink
<1>2. CASE ~ ("readinode" \in bad \/ r_ino = NoIno)
  <2>1. r_ino \in Ino
    BY <1>2, NameiTyped
  <2>2. cut \in FileSystem
    BY UnlinkTyped
  <2>3. f.inode[d] \in Inode /\ less \in Inode
    BY <2>1, LinksTyped DEF FileSystem
  <2>4. w1 \in Result
    BY <2>2, <2>3, WriteTyped
  <2>5. w2 \in Result
    BY <2>3, <2>4, WriteTyped DEF Result
  <2>6. op_unlink(f, d, n, bad) =
          IF IsDir(f, r_ino) THEN Ret(f, "EISDIR")
          ELSE IF "unlink.dirent" \in bad THEN Ret(f, "EIO")
          ELSE IF w1.rc # "ok" THEN w1
          ELSE w2
    BY <1>2 DEF op_unlink
  <2> HIDE DEF r_ino, cut, less, w1, w2
  <2> QED
    BY <2>4, <2>5, <2>6, RetTyped, ReplyTyped
<1> QED
  BY <1>1, <1>2

LEMMA OpRmdirTyped ==
    ASSUME NEW f \in FileSystem, NEW d \in Ino, NEW n \in Name, NEW bad
    PROVE  op_rmdir(f, d, n, bad) \in Result
<1> DEFINE r_ino == ext2fs_namei(f, d, n)
           cut   == ext2fs_unlink(f, d, n, r_ino)
           k     == do_killfilebyinode(cut, r_ino, f.inode[r_ino], bad)
           less  == [k.fs.inode[d] EXCEPT !.links = IF @ > 1 THEN @ - 1 ELSE @]
           w     == do_writeinode(k.fs, d, less, "rmdir.parent", bad)
<1>1. CASE "readinode" \in bad \/ r_ino = NoIno
  BY <1>1, RetTyped, ReplyTyped DEF op_rmdir
<1>2. CASE ~ ("readinode" \in bad \/ r_ino = NoIno)
  <2>1. r_ino \in Ino
    BY <1>2, NameiTyped
  <2>2. cut \in FileSystem
    BY UnlinkTyped
  <2>3. k \in Result
    BY <2>1, <2>2, KillTyped DEF FileSystem
  <2>4. less \in Inode
    <3> HIDE DEF k
    <3>1. k.fs.inode[d] \in Inode
      BY <2>3 DEF Result, FileSystem
    <3> QED
      BY <3>1, LinksTyped
  <2>5. w \in Result
    BY <2>3, <2>4, WriteTyped DEF Result
  <2>6. op_rmdir(f, d, n, bad) =
          IF ~ IsDir(f, r_ino) THEN Ret(f, "ENOTDIR")
          ELSE IF r_ino = Root THEN Ret(f, "EIO")
          ELSE IF do_check_empty_dir(f, r_ino) # "ok"
               THEN Ret(f, do_check_empty_dir(f, r_ino))
          ELSE IF "rmdir.dirent" \in bad THEN Ret(f, "EIO")
          ELSE IF k.rc # "ok" THEN k
          ELSE w
    BY <1>2 DEF op_rmdir
  <2>7. do_check_empty_dir(f, r_ino) \in Reply
    BY ReplyTyped DEF do_check_empty_dir
  <2> HIDE DEF r_ino, cut, less, k, w
  <2> QED
    BY <2>3, <2>5, <2>6, <2>7, RetTyped, ReplyTyped
<1> QED
  BY <1>1, <1>2

LEMMA MoveEntryTyped ==
    ASSUME NEW g \in FileSystem, NEW sd \in Ino, NEW sn, NEW d_src \in Inode,
           NEW si \in Ino, NEW src \in Inode, NEW td \in Ino, NEW tn, NEW bad
    PROVE  MoveEntry(g, sd, sn, d_src, si, src, td, tn, bad) \in Result
<1> DEFINE lk     == AddEntry(g, td, tn, si, bad)
           across == src.kind = "dir" /\ sd # td
           d_dest == [lk.fs.inode[td] EXCEPT
                        !.links = IF across THEN (@ + 1) % LinkMod ELSE @]
           less   == [d_src EXCEPT !.links = IF @ > 1 THEN @ - 1 ELSE @]
           w1     == IF across
                     THEN do_writeinode(lk.fs, sd, less, "rename.src_parent", bad)
                     ELSE lk
           h      == IF across THEN do_fix_dotdot(w1.fs, si, td) ELSE w1.fs
           w2     == do_writeinode(h, td, d_dest, "rename.dest_parent", bad)
           w3     == do_writeinode(w2.fs, si, src, "rename.source", bad)
           cut    == ext2fs_unlink(w3.fs, sd, sn, si)
<1>1. lk \in Result
  BY AddEntryTyped
<1>2. d_dest \in Inode
  <2> HIDE DEF lk
  <2>1. lk.fs.inode[td] \in Inode
    BY <1>1 DEF Result, FileSystem
  <2>2. [lk.fs.inode[td] EXCEPT !.links = @] = lk.fs.inode[td]
    BY <2>1 DEF Inode
  <2> QED
    BY <2>1, <2>2, LinksTyped
<1>3. less \in Inode
  BY LinksTyped
<1>4. w1 \in Result
  BY <1>1, <1>3, WriteTyped DEF Result
<1>5. h \in FileSystem
  <2> HIDE DEF w1
  <2> QED
    BY <1>4 DEF do_fix_dotdot, FileSystem, Result
<1>6. w2 \in Result
  <2> HIDE DEF h, d_dest
  <2> QED
    BY <1>2, <1>5, WriteTyped
<1>7. w3 \in Result
  <2> HIDE DEF w2
  <2> QED
    BY <1>6, WriteTyped DEF Result
<1>8. cut \in FileSystem
  <2> HIDE DEF w3
  <2> QED
    BY <1>7, UnlinkTyped DEF Result
<1>9. MoveEntry(g, sd, sn, d_src, si, src, td, tn, bad) =
        IF lk.rc # "ok" THEN lk
        ELSE IF w1.rc # "ok" THEN Ret(w1.fs, "EIO")
        ELSE IF across /\ "rename.dotdot" \in bad THEN Ret(w1.fs, "EIO")
        ELSE IF w2.rc # "ok" THEN w2
        ELSE IF w3.rc # "ok" THEN w3
        ELSE IF "rename.dirent" \in bad THEN Ret(w3.fs, "EIO")
        ELSE Ret(cut, "ok")
  BY DEF MoveEntry
<1> HIDE DEF lk, w1, w2, w3, cut
<1> QED
  BY <1>1, <1>4, <1>6, <1>7, <1>8, <1>9, RetTyped, ReplyTyped DEF Result

LEMMA OpRenameTyped ==
    ASSUME NEW f \in FileSystem, NEW sd \in Ino, NEW sn \in Name,
           NEW td \in Ino, NEW tn \in Name, NEW bad
    PROVE  op_rename(f, sd, sn, td, tn, bad) \in Result
<1> DEFINE si == ext2fs_namei(f, sd, sn)
           ti == ext2fs_namei(f, td, tn)
           rm == RemoveDest(f, td, tn, bad)
           Move(g) == MoveEntry(g, sd, sn, f.inode[sd], si, f.inode[si], td, tn, bad)
<1>1. CASE "readinode" \in bad \/ si = NoIno
  BY <1>1, RetTyped, ReplyTyped DEF op_rename
<1>2. CASE ~ ("readinode" \in bad \/ si = NoIno)
  <2>1. si \in Ino
    BY <1>2, NameiTyped
  <2>2. f.inode[sd] \in Inode /\ f.inode[si] \in Inode
    BY <2>1 DEF FileSystem
  <2>3. \A g \in FileSystem : Move(g) \in Result
    BY <2>1, <2>2, MoveEntryTyped
  <2>4. rm \in Result
    BY OpRmdirTyped, OpUnlinkTyped DEF RemoveDest
  <2>5. RenameRefusal(f, si, ti) \in Reply
    BY ReplyTyped DEF RenameRefusal
  <2>6. op_rename(f, sd, sn, td, tn, bad) =
          IF ti = NoIno THEN Move(f)
          ELSE IF si = ti THEN Ret(f, "ok")
          ELSE IF RenameRefusal(f, si, ti) # "ok"
               THEN Ret(f, RenameRefusal(f, si, ti))
          ELSE IF rm.rc # "ok" THEN Ret(rm.fs, "ok")
          ELSE IF "rename.reread" \in bad THEN Ret(rm.fs, "EIO")
          ELSE Move(rm.fs)
    BY <1>2 DEF op_rename
  <2> HIDE DEF si, ti, rm, Move
  <2> QED
    BY <2>3, <2>4, <2>5, <2>6, RetTyped, ReplyTyped DEF Result
<1> QED
  BY <1>1, <1>2

LEMMA OpWriteTyped ==
    ASSUME NEW f \in FileSystem, NEW d \in Ino, NEW n \in Name, NEW bad,
           ext2fs_namei(f, d, n) # NoIno
    PROVE  op_write(f, d, n, bad) \in Result
<1> DEFINE o == do_open(f, d, n, bad \ {"open.atime", "readinode"})
           i == ext2fs_namei(f, d, n)
<1>1. o \in Result
  BY OpenTyped
<1>2. i \in Ino
  BY NameiTyped
<1>3. op_write(f, d, n, bad) =
        IF "write.data" \in bad THEN Ret(o.fs, "EIO")
        ELSE IF FreeBlocks(o.fs) = {} THEN Ret(o.fs, "short")
        ELSE Ret(ext2fs_file_grow(o.fs, i), "ok")
  BY DEF op_write
<1> HIDE DEF o, i
<1> QED
  BY <1>1, <1>2, <1>3, GrowTyped, RetTyped, ReplyTyped DEF Result

LEMMA OpTruncateTyped ==
    ASSUME NEW f \in FileSystem, NEW d \in Ino, NEW n \in Name, NEW bad,
           ext2fs_namei(f, d, n) # NoIno
    PROVE  op_truncate(f, d, n, bad) \in Result
<1> DEFINE o == do_open(f, d, n, bad)
           i == ext2fs_namei(f, d, n)
           g == ext2fs_file_clear(o.fs, i)
           w == do_writeinode(g, i, g.inode[i], "truncate.inode", bad)
<1>1. o \in Result
  BY OpenTyped
<1>2. i \in Ino
  BY NameiTyped
<1>3. g \in FileSystem
  BY <1>1, <1>2, ClearTyped DEF Result
<1>4. w \in Result
  <2> HIDE DEF g
  <2>1. g.inode[i] \in Inode
    BY <1>2, <1>3 DEF FileSystem
  <2> QED
    BY <1>3, <2>1, WriteTyped
<1>5. op_truncate(f, d, n, bad) =
        IF o.rc # "ok" THEN Ret(o.fs, "ENOENT")
        ELSE IF "truncate.size" \in bad THEN Ret(o.fs, "EIO")
        ELSE Ret(w.fs, IF w.rc = "ok" THEN "ok" ELSE "EIO")
  BY DEF op_truncate
<1> HIDE DEF o, w
<1> QED
  BY <1>1, <1>4, <1>5, RetTyped, ReplyTyped DEF Result

-----------------------------------------------------------------------------
(* The theorem *)

LEMMA InitTyped == Init => TypeOK
<1> SUFFICES ASSUME Init PROVE TypeOK
  OBVIOUS
<1> DEFINE T == [i \in Ino |->
                   IF i = Root THEN [kind |-> "dir", links |-> 2, blk |-> {FirstBlock}]
                               ELSE [kind |-> "reg", links |-> 0, blk |-> {}]]
<1>1. T \in [Ino -> Inode]
  <2>1. [kind |-> "dir", links |-> 2, blk |-> {FirstBlock}] \in Inode
    BY WidthAssumption, FirstBlockAssumption DEF Inode, Kind
  <2>2. [kind |-> "reg", links |-> 0, blk |-> {}] \in Inode
    BY WidthAssumption DEF Inode, Kind
  <2> QED
    BY <2>1, <2>2
<1>2. [c \in Block |-> [n \in Name |-> NoIno]] \in [Block -> [Name -> Ino \cup {NoIno}]]
  OBVIOUS
<1>3. [i \in Ino |-> IF i = Root THEN Root ELSE NoIno] \in [Ino -> Ino \cup {NoIno}]
  BY RootAssumption
<1>4. fs = [inode  |-> T,
            data   |-> [c \in Block |-> [n \in Name |-> NoIno]],
            dotdot |-> [i \in Ino |-> IF i = Root THEN Root ELSE NoIno],
            imap   |-> {Root},
            bmap   |-> {FirstBlock}]
  BY DEF Init, Mkfs
<1>5. fs \in FileSystem
  <2> HIDE DEF T
  <2> QED
    BY <1>1, <1>2, <1>3, <1>4, RootAssumption, FirstBlockAssumption DEF FileSystem
<1>6. ret \in [op : OpName, rc : Reply, ino : Ino \cup {NoIno}]
  BY RootAssumption, ReplyTyped DEF Init, OpName
<1> QED
  BY <1>5, <1>6 DEF TypeOK

\* A request whose handler returns a typed result leads to a typed state.
LEMMA DoneTyped ==
    ASSUME NEW op \in OpName, NEW i \in Ino \cup {NoIno}, NEW r \in Result,
           Done(op, i, r)
    PROVE  TypeOK'
  BY DEF Done, TypeOK, Result

LEMMA NameRequestTyped ==
    ASSUME TypeOK, NEW bad, NEW d \in Ino, NEW n \in Name, NameRequest(d, n, bad)
    PROVE  TypeOK'
<1>0. fs \in FileSystem
  BY DEF TypeOK
<1>i. ext2fs_namei(fs, d, n) \in Ino \cup {NoIno}
  BY <1>0, NameiTyped
<1>n. \A ni \in ext2fs_new_inode(fs) : ni \in Ino \cup {NoIno}
  BY DEF ext2fs_new_inode, FreeInodes
<1>1. CASE Open(d, n, bad)
  BY <1>0, <1>1, <1>i, OpenTyped, DoneTyped DEF Open, OpName
<1>2. ASSUME NEW ni \in ext2fs_new_inode(fs), Create(d, n, ni, bad)
      PROVE  TypeOK'
  BY <1>0, <1>2, <1>n, CreateTyped, DoneTyped DEF Create, OpName
<1>3. ASSUME NEW ni \in ext2fs_new_inode(fs), NEW kind \in MknodKinds,
             Mknod(d, n, kind, ni, bad)
      PROVE  TypeOK'
  <2>1. kind \in Kind
    BY KindsAssumption DEF Kind
  <2> QED
    BY <1>0, <1>3, <1>n, <2>1, DoCreateTyped, DoneTyped DEF Mknod, op_mknod, OpName
<1>4. ASSUME NEW ni \in ext2fs_new_inode(fs), Mkdir(d, n, ni, bad)
      PROVE  TypeOK'
  BY <1>0, <1>4, <1>n, OpMkdirTyped, DoneTyped DEF Mkdir, OpName
<1>5. ASSUME NEW ni \in ext2fs_new_inode(fs), NEW long \in BOOLEAN,
             Symlink(d, n, long, ni, bad)
      PROVE  TypeOK'
  BY <1>0, <1>5, <1>n, SymlinkTyped, DoneTyped DEF Symlink, OpName
<1>6. CASE Unlink(d, n, bad)
  BY <1>0, <1>6, <1>i, OpUnlinkTyped, DoneTyped DEF Unlink, OpName
<1>7. CASE Rmdir(d, n, bad)
  BY <1>0, <1>7, <1>i, OpRmdirTyped, DoneTyped DEF Rmdir, OpName
<1>8. CASE Write(d, n, bad)
  BY <1>0, <1>8, <1>i, OpWriteTyped, DoneTyped DEF Write, OpName
<1>9. CASE Truncate(d, n, bad)
  BY <1>0, <1>9, <1>i, OpTruncateTyped, DoneTyped DEF Truncate, OpName
<1> QED
  BY <1>1, <1>2, <1>3, <1>4, <1>5, <1>6, <1>7, <1>8, <1>9 DEF NameRequest

LEMMA TwoNameRequestTyped ==
    ASSUME TypeOK, NEW bad, NEW sd \in Ino, NEW sn \in Name, NEW td \in Ino,
           NEW tn \in Name, TwoNameRequest(sd, sn, td, tn, bad)
    PROVE  TypeOK'
<1>0. fs \in FileSystem
  BY DEF TypeOK
<1>i. ext2fs_namei(fs, sd, sn) \in Ino \cup {NoIno}
  BY <1>0, NameiTyped
<1>1. CASE Link(sd, sn, td, tn, bad)
  BY <1>0, <1>1, <1>i, OpLinkTyped, DoneTyped DEF Link, OpName
<1>2. CASE Rename(sd, sn, td, tn, bad)
  BY <1>0, <1>2, <1>i, OpRenameTyped, DoneTyped DEF Rename, OpName
<1> QED
  BY <1>1, <1>2 DEF TwoNameRequest

\* Whatever requests arrive and whichever of their calls fail, the file system
\* and the reply keep their types: above all op_unlink, op_rmdir and op_rename
\* never count i_links_count below 0, and the bitmaps and directories never hold
\* the 0 that ext2fs_new_inode or ext2fs_namei returns when it finds nothing.
THEOREM Typing == Spec => []TypeOK
<1>1. Init => TypeOK
  BY InitTyped
<1>2. TypeOK /\ [Next]_vars => TypeOK'
  <2> SUFFICES ASSUME TypeOK, [Next]_vars PROVE TypeOK'
    OBVIOUS
  <2>1. CASE UNCHANGED vars
    BY <2>1 DEF TypeOK, vars
  <2>2. CASE Next
    <3>1. PICK bad \in Faults, d \in PathDirs(fs), n \in Name :
            \/ NameRequest(d, n, bad)
            \/ \E td \in PathDirs(fs), tn \in Name : TwoNameRequest(d, n, td, tn, bad)
      BY <2>2 DEF Next
    <3>2. PathDirs(fs) \subseteq Ino
      BY DEF PathDirs, Dirs, Live, TypeOK, FileSystem
    <3> QED
      BY <3>1, <3>2, NameRequestTyped, TwoNameRequestTyped
  <2> QED
    BY <2>1, <2>2
<1> QED
  BY <1>1, <1>2, PTL DEF Spec

-----------------------------------------------------------------------------
(* Directory blocks *)

\* No block holds more entries than fit in it.
Packed(f) == \A b \in Block : Cardinality(Entries(f, b)) <= SlotsPerBlock

LEMMA PackedSame ==
    ASSUME NEW f, NEW g, Packed(f), g.data = f.data
    PROVE  Packed(g)
<1>1. \A b \in Block : Entries(g, b) = Entries(f, b)
  BY DEF Entries
<1> QED
  BY <1>1 DEF Packed

\* A slot of block c is written: emptied, or filled when there was one left.
LEMMA PackedSet ==
    ASSUME IsFiniteSet(Name), NEW f \in FileSystem, Packed(f), NEW c, NEW n \in Name,
           NEW i \in Ino \cup {NoIno},
           i = NoIno \/ Cardinality(Entries(f, c)) < SlotsPerBlock
    PROVE  Packed(SetEntry(f, c, n, i))
<1> DEFINE g == SetEntry(f, c, n, i)
<1> SUFFICES ASSUME NEW b \in Block PROVE Cardinality(Entries(g, b)) <= SlotsPerBlock
  BY DEF Packed
<1>1. /\ IsFiniteSet(Entries(f, b)) /\ IsFiniteSet(Entries(f, b) \cup {n})
      /\ Cardinality(Entries(f, b)) \in Nat
      /\ Cardinality(Entries(f, b) \cup {n}) \in Nat
      /\ Cardinality(Entries(f, b) \cup {n}) <= Cardinality(Entries(f, b)) + 1
  <2>1. Entries(f, b) \subseteq Name
    BY DEF Entries
  <2>2. IsFiniteSet(Entries(f, b))
    BY <2>1, FS_Subset
  <2>3. /\ IsFiniteSet(Entries(f, b) \cup {n})
        /\ Cardinality(Entries(f, b) \cup {n}) =
             IF n \in Entries(f, b) THEN Cardinality(Entries(f, b))
                                    ELSE Cardinality(Entries(f, b)) + 1
    BY <2>2, FS_AddElement
  <2> QED
    BY <2>2, <2>3, FS_CardinalityType
<1>2. Cardinality(Entries(f, b)) <= SlotsPerBlock
  BY DEF Packed
<1>3. /\ b # c => Entries(g, b) = Entries(f, b)
      /\ b = c => Entries(g, b) \subseteq Entries(f, b) \cup {n}
      /\ b = c /\ i = NoIno => Entries(g, b) \subseteq Entries(f, b)
  BY DEF Entries, SetEntry, FileSystem
<1> HIDE DEF g
<1>4. CASE Entries(g, b) \subseteq Entries(f, b)
  <2>1. /\ Cardinality(Entries(g, b)) <= Cardinality(Entries(f, b))
        /\ Cardinality(Entries(g, b)) \in Nat
    BY <1>1, <1>4, FS_Subset, FS_CardinalityType
  <2> QED
    BY <1>1, <1>2, <2>1, SlotsAssumption
<1>5. CASE ~ (Entries(g, b) \subseteq Entries(f, b))
  <2>1. b = c /\ i # NoIno /\ Entries(g, b) \subseteq Entries(f, b) \cup {n}
    BY <1>3, <1>5
  <2>2. /\ Cardinality(Entries(g, b)) <= Cardinality(Entries(f, b) \cup {n})
        /\ Cardinality(Entries(g, b)) \in Nat
    BY <1>1, <2>1, FS_Subset, FS_CardinalityType
  <2>3. Cardinality(Entries(f, b)) < SlotsPerBlock
    BY <2>1
  <2> QED
    BY <1>1, <2>2, <2>3, SlotsAssumption
<1> QED
  BY <1>4, <1>5

\* A block that is taken from the free ones starts empty.
LEMMA PackedFresh ==
    ASSUME NEW f, NEW g, Packed(f), NEW c, f.data \in [Block -> [Name -> Ino \cup {NoIno}]],
           g.data = [f.data EXCEPT ![c] = [n \in Name |-> NoIno]]
    PROVE  Packed(g)
<1> SUFFICES ASSUME NEW b \in Block PROVE Cardinality(Entries(g, b)) <= SlotsPerBlock
  BY DEF Packed
<1>1. CASE b # c
  <2>1. Entries(g, b) = Entries(f, b)
    BY <1>1 DEF Entries
  <2> QED
    BY <2>1 DEF Packed
<1>2. CASE b = c
  <2>1. Entries(g, b) = {}
    BY <1>2 DEF Entries
  <2>2. Cardinality(Entries(g, b)) = 0
    BY <2>1, FS_EmptySet
  <2> QED
    BY <2>2, SlotsAssumption
<1> QED
  BY <1>1, <1>2

LEMMA PackedLink ==
    ASSUME IsFiniteSet(Name), NEW f \in FileSystem, Packed(f), NEW d, NEW n \in Name,
           NEW i \in Ino, Room(f, d, n) # {}
    PROVE  Packed(ext2fs_link(f, d, n, i))
<1> DEFINE b == CHOOSE c \in Room(f, d, n) : TRUE
<1>1. b \in Room(f, d, n)
  OBVIOUS
<1> HIDE DEF b
<1>2. Cardinality(Entries(f, b)) < SlotsPerBlock
  BY <1>1 DEF Room
<1>3. Packed(SetEntry(f, b, n, i))
  BY <1>2, PackedSet
<1> QED
  BY <1>3 DEF ext2fs_link, b

LEMMA PackedUnlink ==
    ASSUME IsFiniteSet(Name), NEW f \in FileSystem, Packed(f), NEW d, NEW n \in Name,
           NEW i
    PROVE  Packed(ext2fs_unlink(f, d, n, i))
  BY PackedSet DEF ext2fs_unlink

\* After an expansion there is room for the name.
LEMMA PackedExpand ==
    ASSUME NEW f \in FileSystem, Packed(f), NEW d \in Ino, NEW n \in Name,
           FreeBlocks(f) # {}
    PROVE  Packed(ext2fs_expand_dir(f, d)) /\ Room(ext2fs_expand_dir(f, d), d, n) # {}
<1> DEFINE b == ext2fs_new_block(f)
           g == ext2fs_expand_dir(f, d)
<1>1. b \in Block
  BY NewBlockTyped
<1>2. /\ g.data = [f.data EXCEPT ![b] = [m \in Name |-> NoIno]]
      /\ g.inode[d].blk = f.inode[d].blk \cup {b}
  <2>1. f.inode[d] \in Inode
    BY DEF FileSystem
  <2> HIDE DEF b
  <2> QED
    BY <2>1 DEF ext2fs_expand_dir, FileSystem, Inode, b
<1> HIDE DEF b, g
<1>3. Packed(g)
  BY <1>2, PackedFresh DEF FileSystem
<1>4. b \in Room(g, d, n)
  <2>1. g.data[b] = [m \in Name |-> NoIno]
    BY <1>1, <1>2 DEF FileSystem
  <2>2. Entries(g, b) = {}
    BY <2>1 DEF Entries
  <2>3. Cardinality(Entries(g, b)) < SlotsPerBlock
    BY <2>2, FS_EmptySet, SlotsAssumption
  <2> QED
    BY <1>2, <2>1, <2>3 DEF Room
<1> QED
  BY <1>3, <1>4 DEF g

LEMMA PackedGrow ==
    ASSUME NEW f \in FileSystem, Packed(f), NEW i, FreeBlocks(f) # {}
    PROVE  Packed(ext2fs_file_grow(f, i))
<1> DEFINE b == ext2fs_new_block(f)
           g == ext2fs_file_grow(f, i)
<1>1. g.data = [f.data EXCEPT ![b] = [m \in Name |-> NoIno]]
  <2> HIDE DEF b
  <2> QED
    BY DEF ext2fs_file_grow, FileSystem, b
<1> HIDE DEF b, g
<1>2. Packed(g)
  BY <1>1, PackedFresh DEF FileSystem
<1> QED
  BY <1>2 DEF g

LEMMA PackedKill ==
    ASSUME NEW f \in FileSystem, Packed(f), NEW i, NEW r, NEW bad
    PROVE  Packed(do_killfilebyinode(f, i, r, bad).fs)
<1> DEFINE k == do_killfilebyinode(f, i, r, bad)
<1>1. k.fs.data = f.data
  BY DEF do_killfilebyinode, Ret, FileSystem
<1> HIDE DEF k
<1>2. Packed(k.fs)
  BY <1>1, PackedSame
<1> QED
  BY <1>2 DEF k

LEMMA PackedWrite ==
    ASSUME NEW f \in FileSystem, Packed(f), NEW i, NEW r, NEW site, NEW bad
    PROVE  Packed(do_writeinode(f, i, r, site, bad).fs)
<1>1. Packed(ext2fs_write_inode(f, i, r))
  <2> DEFINE g == ext2fs_write_inode(f, i, r)
  <2>1. g.data = f.data
    BY DEF ext2fs_write_inode, FileSystem
  <2> HIDE DEF g
  <2>2. Packed(g)
    BY <2>1, PackedSame
  <2> QED
    BY <2>2 DEF g
<1> QED
  BY <1>1, PackedKill DEF do_writeinode, Ret

LEMMA PackedAdd ==
    ASSUME IsFiniteSet(Name), NEW f \in FileSystem, Packed(f), NEW d \in Ino,
           NEW n \in Name, NEW i \in Ino, NEW bad
    PROVE  Packed(AddEntry(f, d, n, i, bad).fs)
<1> DEFINE full == Room(f, d, n) = {}
           g    == IF full THEN ext2fs_expand_dir(f, d) ELSE f
<1>1. CASE full /\ (FreeBlocks(f) = {} \/ "dir.expand" \in bad)
  BY <1>1 DEF AddEntry, Ret
<1>2. CASE ~ (full /\ (FreeBlocks(f) = {} \/ "dir.expand" \in bad))
  <2>1. g \in FileSystem /\ Packed(g) /\ Room(g, d, n) # {}
    BY <1>2, ExpandTyped, PackedExpand
  <2>2. AddEntry(f, d, n, i, bad) =
          IF "dir.link" \in bad THEN Ret(g, "EIO") ELSE Ret(ext2fs_link(g, d, n, i), "ok")
    BY <1>2 DEF AddEntry
  <2> HIDE DEF g
  <2> QED
    BY <2>1, <2>2, PackedLink DEF Ret
<1> QED
  BY <1>1, <1>2

LEMMA PackedOpen ==
    ASSUME NEW f \in FileSystem, Packed(f), NEW d, NEW n, NEW bad
    PROVE  Packed(do_open(f, d, n, bad).fs)
  BY PackedWrite DEF do_open, Ret

LEMMA PackedCreate ==
    ASSUME IsFiniteSet(Name), NEW f \in FileSystem, Packed(f), NEW d \in Ino,
           NEW n \in Name, NEW kind \in Kind, NEW ni \in Ino \cup {NoIno}, NEW bad
    PROVE  Packed(do_create(f, d, n, kind, ni, bad).fs)
<1> DEFINE lk == AddEntry(f, d, n, ni, bad)
           g  == ext2fs_inode_alloc(lk.fs, ni)
           h  == ext2fs_write_inode(g, ni, [kind |-> kind, links |-> 1, blk |-> {}])
           w  == do_writeinode(h, d, h.inode[d], "create.parent", bad)
<1>1. CASE "readinode" \in bad \/ ni = NoIno
  BY <1>1 DEF do_create, Ret
<1>2. CASE ~ ("readinode" \in bad \/ ni = NoIno)
  <2>1. lk.fs \in FileSystem /\ Packed(lk.fs)
    BY <1>2, AddEntryTyped, PackedAdd DEF Result
  <2> HIDE DEF lk
  <2>2. g \in FileSystem /\ g.data = lk.fs.data
    BY <1>2, <2>1, AllocTyped DEF ext2fs_inode_alloc, FileSystem
  <2> HIDE DEF g
  <2>3. [kind |-> kind, links |-> 1, blk |-> {}] \in Inode
    BY WidthAssumption DEF Inode
  <2>4. h \in FileSystem /\ h.data = g.data
    BY <2>2, <2>3, WriteInodeTyped DEF ext2fs_write_inode, FileSystem
  <2> HIDE DEF h
  <2>5. Packed(g) /\ Packed(h)
    BY <2>1, <2>2, <2>4, PackedSame
  <2>6. Packed(w.fs)
    BY <2>4, <2>5, PackedWrite
  <2>7. do_create(f, d, n, kind, ni, bad) =
          IF lk.rc # "ok" THEN lk
          ELSE IF "create.write_new_inode" \in bad THEN Ret(g, "EIO") ELSE w
    BY <1>2 DEF do_create, lk, g, h
  <2> HIDE DEF w
  <2> QED
    BY <2>1, <2>5, <2>6, <2>7 DEF Ret
<1> QED
  BY <1>1, <1>2

LEMMA PackedOpCreate ==
    ASSUME IsFiniteSet(Name), NEW f \in FileSystem, Packed(f), NEW d \in Ino,
           NEW n \in Name, NEW ni \in Ino \cup {NoIno}, NEW bad
    PROVE  Packed(op_create(f, d, n, ni, bad).fs)
<1> DEFINE first == op_open(f, d, n, bad)
           made  == do_create(first.fs, d, n, "reg", ni, bad)
           again == op_open(made.fs, d, n, bad)
<1>1. first.fs \in FileSystem /\ Packed(first.fs)
  BY OpenTyped, PackedOpen DEF Result, op_open
<1> HIDE DEF first
<1>2. made.fs \in FileSystem /\ Packed(made.fs)
  BY <1>1, DoCreateTyped, PackedCreate DEF Result, Kind
<1> HIDE DEF made
<1>3. Packed(again.fs)
  BY <1>2, PackedOpen DEF op_open
<1>4. op_create(f, d, n, ni, bad) =
        IF first.rc = "ok" THEN first
        ELSE IF made.rc # "ok" THEN made
        ELSE Ret(again.fs, IF again.rc = "ok" THEN "ok" ELSE "EIO")
  BY DEF op_create, first, made
<1> HIDE DEF again
<1> QED
  BY <1>1, <1>2, <1>3, <1>4 DEF Ret

LEMMA PackedMkdir ==
    ASSUME IsFiniteSet(Name), NEW f \in FileSystem, Packed(f), NEW d \in Ino,
           NEW n \in Name, NEW i \in Ino, FreeBlocks(f) # {}, Room(f, d, n) # {}, i # d
    PROVE  Packed(ext2fs_mkdir(f, d, n, i))
<1> DEFINE b == ext2fs_new_block(f)
           r == [kind |-> "dir", links |-> 2, blk |-> {b}]
           g == [f EXCEPT
                    !.inode[i]  = r,
                    !.data[b]   = [m \in Name |-> NoIno],
                    !.dotdot[i] = d,
                    !.imap      = @ \cup {i},
                    !.bmap      = @ \cup {b}]
           h == ext2fs_link(g, d, n, i)
<1>1. b \in Block
  BY NewBlockTyped
<1>2. r \in Inode
  BY <1>1, WidthAssumption DEF Inode, Kind
<1>3. [m \in Name |-> NoIno] \in [Name -> Ino \cup {NoIno}]
  OBVIOUS
<1>4. /\ g \in FileSystem
      /\ g.data = [f.data EXCEPT ![b] = [m \in Name |-> NoIno]]
      /\ g.inode[d] = f.inode[d]
  <2> HIDE DEF b, r
  <2> QED
    BY <1>1, <1>2, <1>3 DEF FileSystem
<1>5. ext2fs_mkdir(f, d, n, i) = [h EXCEPT !.inode[d].links = (@ + 1) % LinkMod]
  BY DEF ext2fs_mkdir
<1> HIDE DEF b, r, g
<1>6. Packed(g)
  BY <1>4, PackedFresh DEF FileSystem
<1>7. Room(g, d, n) # {}
  <2>1. PICK c \in f.inode[d].blk :
          f.data[c][n] = NoIno /\ Cardinality(Entries(f, c)) < SlotsPerBlock
    BY DEF Room
  <2>2. c \in Block
    BY DEF FileSystem, Inode
  <2>3. g.data[c][n] = NoIno /\ Cardinality(Entries(g, c)) < SlotsPerBlock
    <3>1. CASE c = b
      <4>1. g.data[c] = [m \in Name |-> NoIno]
        BY <1>1, <1>4, <3>1 DEF FileSystem
      <4>2. Entries(g, c) = {}
        BY <4>1 DEF Entries
      <4> QED
        BY <4>1, <4>2, FS_EmptySet, SlotsAssumption
    <3>2. CASE c # b
      <4>1. g.data[c] = f.data[c]
        BY <1>4, <2>2, <3>2 DEF FileSystem
      <4> QED
        BY <2>1, <4>1 DEF Entries
    <3> QED
      BY <3>1, <3>2
  <2> QED
    BY <1>4, <2>3 DEF Room
<1>8. h \in FileSystem /\ Packed(h)
  BY <1>4, <1>6, <1>7, LinkTyped, PackedLink
<1> HIDE DEF h
<1> DEFINE v == (h.inode[d].links + 1) % LinkMod
<1>9. [h EXCEPT !.inode[d].links = v].data = h.data
  BY <1>8 DEF FileSystem
<1> HIDE DEF v
<1> DEFINE x == [h EXCEPT !.inode[d].links = v]
<1>10. x.data = h.data
  BY <1>9
<1> HIDE DEF x
<1>11. Packed(x)
  BY <1>8, <1>10, PackedSame
<1> QED
  BY <1>5, <1>11 DEF x, v

LEMMA PackedOpMkdir ==
    ASSUME IsFiniteSet(Name), NEW f \in FileSystem, Packed(f), NEW d \in Ino,
           NEW n \in Name, NEW ni \in Ino \cup {NoIno}, ni # d, NEW bad
    PROVE  Packed(op_mkdir(f, d, n, ni, bad).fs)
<1> DEFINE full == Room(f, d, n) = {}
           g    == IF full THEN ext2fs_expand_dir(f, d) ELSE f
           h    == ext2fs_mkdir(g, d, n, ni)
           w1   == do_writeinode(h, ni, h.inode[ni], "mkdir.attributes", bad)
           w2   == do_writeinode(w1.fs, d, w1.fs.inode[d], "mkdir.attributes", bad)
<1>1. CASE \/ "readinode" \in bad
           \/ ni = NoIno \/ FreeBlocks(f) = {} \/ "mkdir.mkdir" \in bad
  BY <1>1 DEF op_mkdir, Ret
<1>2. CASE ~ (\/ "readinode" \in bad
              \/ ni = NoIno \/ FreeBlocks(f) = {} \/ "mkdir.mkdir" \in bad)
  <2>1. g \in FileSystem /\ Packed(g) /\ Room(g, d, n) # {}
    BY <1>2, ExpandTyped, PackedExpand
  <2>2. op_mkdir(f, d, n, ni, bad) =
          IF full /\ "dir.expand" \in bad THEN Ret(f, "ENOSPC")
          ELSE IF FreeBlocks(g) = {} THEN Ret(g, "EIO")
          ELSE IF w1.rc # "ok" THEN w1
          ELSE w2
    BY <1>2 DEF op_mkdir
  <2>3. ASSUME FreeBlocks(g) # {}
        PROVE  Packed(w1.fs) /\ Packed(w2.fs)
    <3> HIDE DEF g
    <3>1. h \in FileSystem /\ Packed(h)
      BY <1>2, <2>1, <2>3, MkdirTyped, PackedMkdir
    <3> HIDE DEF h
    <3>2. h.inode[ni] \in Inode
      BY <1>2, <3>1 DEF FileSystem
    <3>3. w1.fs \in FileSystem /\ Packed(w1.fs)
      BY <3>1, <3>2, WriteTyped, PackedWrite DEF Result
    <3> HIDE DEF w1
    <3> QED
      BY <3>3, PackedWrite
  <2> HIDE DEF g, w1, w2
  <2> QED
    BY <2>1, <2>2, <2>3 DEF Ret
<1> QED
  BY <1>1, <1>2

LEMMA PackedSymlink ==
    ASSUME IsFiniteSet(Name), NEW f \in FileSystem, Packed(f), NEW d \in Ino,
           NEW n \in Name, NEW long, NEW ni \in Ino \cup {NoIno}, NEW bad
    PROVE  Packed(op_symlink(f, d, n, long, ni, bad).fs)
<1> DEFINE made   == do_create(f, d, n, "lnk", ni, bad)
           opened == do_open(made.fs, d, n, bad)
<1>1. made.fs \in FileSystem /\ Packed(made.fs)
  BY DoCreateTyped, PackedCreate DEF Kind, Result
<1>2. op_symlink(f, d, n, long, ni, bad) =
        IF made.rc # "ok" \/ ~ long THEN made
        ELSE IF opened.rc # "ok" THEN Ret(opened.fs, "EIO")
        ELSE IF FreeBlocks(opened.fs) = {} \/ "write.data" \in bad
             THEN Ret(opened.fs, "EIO")
        ELSE Ret(ext2fs_file_grow(opened.fs, ni),
                 IF "symlink.release" \in bad THEN "EIO" ELSE "ok")
  BY DEF op_symlink
<1> HIDE DEF made
<1>3. opened.fs \in FileSystem /\ Packed(opened.fs)
  BY <1>1, OpenTyped, PackedOpen DEF Result
<1> HIDE DEF opened
<1> QED
  BY <1>1, <1>2, <1>3, PackedGrow DEF Ret

LEMMA PackedOpLink ==
    ASSUME IsFiniteSet(Name), NEW f \in FileSystem, Packed(f), NEW sd \in Ino,
           NEW sn \in Name, NEW d \in Ino, NEW n \in Name, NEW bad
    PROVE  Packed(op_link(f, sd, sn, d, n, bad).fs)
<1> DEFINE s_ino == ext2fs_namei(f, sd, sn)
           lk    == AddEntry(f, d, n, s_ino, bad)
           src   == [f.inode[s_ino] EXCEPT !.links = (@ + 1) % LinkMod]
           w1    == do_writeinode(lk.fs, s_ino, src, "link.source_inode", bad)
           w2    == do_writeinode(w1.fs, d, f.inode[d], "link.dest_inode", bad)
<1>1. CASE "readinode" \in bad \/ s_ino = NoIno
  BY <1>1 DEF op_link, Ret
<1>2. CASE ~ ("readinode" \in bad \/ s_ino = NoIno)
  <2>1. s_ino \in Ino
    BY <1>2, NameiTyped
  <2>2. lk.fs \in FileSystem /\ Packed(lk.fs)
    BY <2>1, AddEntryTyped, PackedAdd DEF Result
  <2>3. src \in Inode
    BY <2>1, LinksTyped DEF FileSystem
  <2>4. op_link(f, sd, sn, d, n, bad) =
          IF lk.rc # "ok" THEN lk
          ELSE IF w1.rc # "ok" THEN Ret(w1.fs, "EIO")
          ELSE Ret(w2.fs, IF w2.rc = "ok" THEN "ok" ELSE "EIO")
    BY <1>2 DEF op_link
  <2> HIDE DEF s_ino, lk, src
  <2>5. w1.fs \in FileSystem /\ Packed(w1.fs)
    BY <2>2, <2>3, WriteTyped, PackedWrite DEF Result
  <2> HIDE DEF w1
  <2>6. Packed(w2.fs)
    BY <2>5, PackedWrite
  <2> HIDE DEF w2
  <2> QED
    BY <2>2, <2>4, <2>5, <2>6 DEF Ret
<1> QED
  BY <1>1, <1>2

\* What a removal leaves has room for the name again.
LEMMA RoomAgain ==
    ASSUME IsFiniteSet(Name), NEW f \in FileSystem, Packed(f), NEW d \in Ino,
           NEW n \in Name, NEW i, i = ext2fs_namei(f, d, n), i # NoIno
    PROVE  Room(ext2fs_unlink(f, d, n, i), d, n) # {}
<1> DEFINE c == CHOOSE b \in Holding(f, d, n) : f.data[b][n] = i
           g == SetEntry(f, c, n, NoIno)
<1>1. c \in Holding(f, d, n)
  <2> DEFINE b == CHOOSE b \in Holding(f, d, n) : TRUE
  <2>1. Holding(f, d, n) # {} /\ f.data[b][n] = i
    BY DEF ext2fs_namei
  <2>2. b \in Holding(f, d, n)
    BY <2>1
  <2> HIDE DEF b
  <2> QED
    BY <2>1, <2>2
<1> HIDE DEF c
<1>2. c \in Block /\ c \in f.inode[d].blk /\ n \in Entries(f, c)
  BY <1>1 DEF Holding, Entries, FileSystem, Inode
<1>3. /\ g.inode = f.inode /\ g.data[c][n] = NoIno
      /\ Entries(g, c) = Entries(f, c) \ {n}
  BY <1>2 DEF SetEntry, FileSystem, Entries
<1> HIDE DEF g
<1>4. Cardinality(Entries(g, c)) < SlotsPerBlock
  <2>1. IsFiniteSet(Entries(f, c))
    <3>1. Entries(f, c) \subseteq Name
      BY DEF Entries
    <3> QED
      BY <3>1, FS_Subset
  <2>2. /\ Cardinality(Entries(g, c)) = Cardinality(Entries(f, c)) - 1
        /\ Cardinality(Entries(f, c)) \in Nat
    BY <1>2, <1>3, <2>1, FS_RemoveElement, FS_CardinalityType
  <2>3. Cardinality(Entries(f, c)) <= SlotsPerBlock
    BY <1>2 DEF Packed
  <2> QED
    BY <2>2, <2>3, SlotsAssumption
<1>5. Room(g, d, n) # {}
  BY <1>2, <1>3, <1>4 DEF Room
<1> QED
  BY <1>5 DEF ext2fs_unlink, g, c

LEMMA PackedOpUnlink ==
    ASSUME IsFiniteSet(Name), NEW f \in FileSystem, Packed(f), NEW d \in Ino,
           NEW n \in Name, NEW bad
    PROVE  Packed(op_unlink(f, d, n, bad).fs)
<1> DEFINE r_ino == ext2fs_namei(f, d, n)
           cut   == ext2fs_unlink(f, d, n, r_ino)
           w1    == do_writeinode(cut, d, f.inode[d], "unlink.parent", bad)
           less  == [f.inode[r_ino] EXCEPT !.links = IF @ > 0 THEN @ - 1 ELSE 0]
           w2    == do_writeinode(w1.fs, r_ino, less, "unlink.inode", bad)
<1>1. cut \in FileSystem /\ Packed(cut)
  BY UnlinkTyped, PackedUnlink
<1>2. f.inode[d] \in Inode
  BY DEF FileSystem
<1>3. op_unlink(f, d, n, bad) =
        IF "readinode" \in bad THEN Ret(f, "EIO")
        ELSE IF r_ino = NoIno THEN Ret(f, "ENOENT")
        ELSE IF IsDir(f, r_ino) THEN Ret(f, "EISDIR")
        ELSE IF "unlink.dirent" \in bad THEN Ret(f, "EIO")
        ELSE IF w1.rc # "ok" THEN w1
        ELSE w2
  BY DEF op_unlink
<1> HIDE DEF cut, less
<1>4. w1.fs \in FileSystem /\ Packed(w1.fs)
  BY <1>1, <1>2, WriteTyped, PackedWrite DEF Result
<1> HIDE DEF w1
<1>5. Packed(w2.fs)
  BY <1>4, PackedWrite
<1> HIDE DEF w2
<1> QED
  BY <1>3, <1>4, <1>5 DEF Ret

LEMMA PackedOpRmdir ==
    ASSUME IsFiniteSet(Name), NEW f \in FileSystem, Packed(f), NEW d \in Ino,
           NEW n \in Name, NEW bad
    PROVE  Packed(op_rmdir(f, d, n, bad).fs)
<1> DEFINE r_ino == ext2fs_namei(f, d, n)
           cut   == ext2fs_unlink(f, d, n, r_ino)
           k     == do_killfilebyinode(cut, r_ino, f.inode[r_ino], bad)
           less  == [k.fs.inode[d] EXCEPT !.links = IF @ > 1 THEN @ - 1 ELSE @]
           w     == do_writeinode(k.fs, d, less, "rmdir.parent", bad)
<1>1. CASE "readinode" \in bad \/ r_ino = NoIno
  BY <1>1 DEF op_rmdir, Ret
<1>2. CASE ~ ("readinode" \in bad \/ r_ino = NoIno)
  <2>1. cut \in FileSystem /\ Packed(cut)
    BY UnlinkTyped, PackedUnlink
  <2>2. r_ino \in Ino /\ f.inode[r_ino] \in Inode
    BY <1>2, NameiTyped DEF FileSystem
  <2>3. op_rmdir(f, d, n, bad) =
          IF ~ IsDir(f, r_ino) THEN Ret(f, "ENOTDIR")
          ELSE IF r_ino = Root THEN Ret(f, "EIO")
          ELSE IF do_check_empty_dir(f, r_ino) # "ok"
               THEN Ret(f, do_check_empty_dir(f, r_ino))
          ELSE IF "rmdir.dirent" \in bad THEN Ret(f, "EIO")
          ELSE IF k.rc # "ok" THEN k
          ELSE w
    BY <1>2 DEF op_rmdir
  <2> HIDE DEF cut
  <2>4. k.fs \in FileSystem /\ Packed(k.fs)
    BY <2>1, <2>2, KillTyped, PackedKill DEF Result
  <2> HIDE DEF k, less
  <2>5. Packed(w.fs)
    BY <2>4, PackedWrite
  <2> HIDE DEF w
  <2> QED
    BY <2>3, <2>4, <2>5 DEF Ret
<1> QED
  BY <1>1, <1>2

LEMMA PackedMove ==
    ASSUME IsFiniteSet(Name), NEW g \in FileSystem, Packed(g), NEW sd \in Ino,
           NEW sn \in Name, NEW d_src \in Inode, NEW si \in Ino, NEW src \in Inode,
           NEW td \in Ino, NEW tn \in Name, NEW bad
    PROVE  Packed(MoveEntry(g, sd, sn, d_src, si, src, td, tn, bad).fs)
<1> DEFINE lk     == AddEntry(g, td, tn, si, bad)
           across == src.kind = "dir" /\ sd # td
           d_dest == [lk.fs.inode[td] EXCEPT
                        !.links = IF across THEN (@ + 1) % LinkMod ELSE @]
           less   == [d_src EXCEPT !.links = IF @ > 1 THEN @ - 1 ELSE @]
           w1     == IF across
                     THEN do_writeinode(lk.fs, sd, less, "rename.src_parent", bad)
                     ELSE lk
           h      == IF across THEN do_fix_dotdot(w1.fs, si, td) ELSE w1.fs
           w2     == do_writeinode(h, td, d_dest, "rename.dest_parent", bad)
           w3     == do_writeinode(w2.fs, si, src, "rename.source", bad)
           cut    == ext2fs_unlink(w3.fs, sd, sn, si)
<1>1. lk.fs \in FileSystem /\ Packed(lk.fs)
  BY AddEntryTyped, PackedAdd DEF Result
<1>9. MoveEntry(g, sd, sn, d_src, si, src, td, tn, bad) =
        IF lk.rc # "ok" THEN lk
        ELSE IF w1.rc # "ok" THEN Ret(w1.fs, "EIO")
        ELSE IF across /\ "rename.dotdot" \in bad THEN Ret(w1.fs, "EIO")
        ELSE IF w2.rc # "ok" THEN w2
        ELSE IF w3.rc # "ok" THEN w3
        ELSE IF "rename.dirent" \in bad THEN Ret(w3.fs, "EIO")
        ELSE Ret(cut, "ok")
  BY DEF MoveEntry
<1>2. d_dest \in Inode
  <2> HIDE DEF lk
  <2>1. lk.fs.inode[td] \in Inode
    BY <1>1 DEF FileSystem
  <2>2. [lk.fs.inode[td] EXCEPT !.links = @] = lk.fs.inode[td]
    BY <2>1 DEF Inode
  <2> QED
    BY <2>1, <2>2, LinksTyped
<1>3. less \in Inode
  BY LinksTyped
<1> HIDE DEF lk, less, d_dest
<1>4. w1.fs \in FileSystem /\ Packed(w1.fs)
  BY <1>1, <1>3, WriteTyped, PackedWrite DEF Result
<1> HIDE DEF w1
<1>5. h \in FileSystem /\ Packed(h)
  <2>1. h \in FileSystem /\ h.data = w1.fs.data
    BY <1>4 DEF do_fix_dotdot, FileSystem
  <2> HIDE DEF h
  <2> QED
    BY <1>4, <2>1, PackedSame
<1> HIDE DEF h
<1>6. w2.fs \in FileSystem /\ Packed(w2.fs)
  BY <1>2, <1>5, WriteTyped, PackedWrite DEF Result
<1> HIDE DEF w2
<1>7. w3.fs \in FileSystem /\ Packed(w3.fs)
  BY <1>6, WriteTyped, PackedWrite DEF Result
<1> HIDE DEF w3
<1>8. Packed(cut)
  BY <1>7, PackedUnlink
<1> HIDE DEF cut
<1> QED
  BY <1>1, <1>4, <1>6, <1>7, <1>8, <1>9 DEF Ret

LEMMA PackedRename ==
    ASSUME IsFiniteSet(Name), NEW f \in FileSystem, Packed(f), NEW sd \in Ino,
           NEW sn \in Name, NEW td \in Ino, NEW tn \in Name, NEW bad
    PROVE  Packed(op_rename(f, sd, sn, td, tn, bad).fs)
<1> DEFINE si == ext2fs_namei(f, sd, sn)
           ti == ext2fs_namei(f, td, tn)
           rm == RemoveDest(f, td, tn, bad)
           Move(g) == MoveEntry(g, sd, sn, f.inode[sd], si, f.inode[si], td, tn, bad)
<1>1. CASE "readinode" \in bad \/ si = NoIno
  BY <1>1 DEF op_rename, Ret
<1>2. CASE ~ ("readinode" \in bad \/ si = NoIno)
  <2>1. si \in Ino
    BY <1>2, NameiTyped
  <2>2. f.inode[sd] \in Inode /\ f.inode[si] \in Inode
    BY <2>1 DEF FileSystem
  <2>3. \A g \in FileSystem : Packed(g) => Packed(Move(g).fs)
    BY <2>1, <2>2, PackedMove
  <2>4. rm.fs \in FileSystem /\ Packed(rm.fs)
    BY OpRmdirTyped, OpUnlinkTyped, PackedOpRmdir, PackedOpUnlink DEF RemoveDest, Result
  <2>5. op_rename(f, sd, sn, td, tn, bad) =
          IF ti = NoIno THEN Move(f)
          ELSE IF si = ti THEN Ret(f, "ok")
          ELSE IF RenameRefusal(f, si, ti) # "ok"
               THEN Ret(f, RenameRefusal(f, si, ti))
          ELSE IF rm.rc # "ok" THEN Ret(rm.fs, "ok")
          ELSE IF "rename.reread" \in bad THEN Ret(rm.fs, "EIO")
          ELSE Move(rm.fs)
    BY <1>2 DEF op_rename
  <2> HIDE DEF si, ti, rm, Move
  <2> QED
    BY <2>3, <2>4, <2>5 DEF Ret
<1> QED
  BY <1>1, <1>2

LEMMA PackedOpWrite ==
    ASSUME NEW f \in FileSystem, Packed(f), NEW d \in Ino, NEW n \in Name, NEW bad
    PROVE  Packed(op_write(f, d, n, bad).fs)
<1> DEFINE o == do_open(f, d, n, bad \ {"open.atime", "readinode"})
<1>1. o.fs \in FileSystem /\ Packed(o.fs)
  BY OpenTyped, PackedOpen DEF Result
<1>2. op_write(f, d, n, bad) =
        IF "write.data" \in bad THEN Ret(o.fs, "EIO")
        ELSE IF FreeBlocks(o.fs) = {} THEN Ret(o.fs, "short")
        ELSE Ret(ext2fs_file_grow(o.fs, ext2fs_namei(f, d, n)), "ok")
  BY DEF op_write
<1> HIDE DEF o
<1> QED
  BY <1>1, <1>2, PackedGrow DEF Ret

LEMMA PackedOpTruncate ==
    ASSUME NEW f \in FileSystem, Packed(f), NEW d \in Ino, NEW n \in Name, NEW bad,
           ext2fs_namei(f, d, n) # NoIno
    PROVE  Packed(op_truncate(f, d, n, bad).fs)
<1> DEFINE o == do_open(f, d, n, bad)
           i == ext2fs_namei(f, d, n)
           g == ext2fs_file_clear(o.fs, i)
           w == do_writeinode(g, i, g.inode[i], "truncate.inode", bad)
<1>1. o.fs \in FileSystem /\ Packed(o.fs)
  BY OpenTyped, PackedOpen DEF Result
<1>2. op_truncate(f, d, n, bad) =
        IF o.rc # "ok" THEN Ret(o.fs, "ENOENT")
        ELSE IF "truncate.size" \in bad THEN Ret(o.fs, "EIO")
        ELSE Ret(w.fs, IF w.rc = "ok" THEN "ok" ELSE "EIO")
  BY DEF op_truncate
<1> HIDE DEF o
<1>3. i \in Ino
  BY NameiTyped
<1> HIDE DEF i
<1>4. g \in FileSystem /\ g.data = o.fs.data
  BY <1>1, <1>3, ClearTyped DEF ext2fs_file_clear, FileSystem
<1> HIDE DEF g
<1>5. Packed(g)
  BY <1>1, <1>4, PackedSame
<1>6. Packed(w.fs)
  BY <1>4, <1>5, PackedWrite
<1> HIDE DEF w
<1> QED
  BY <1>1, <1>2, <1>6 DEF Ret

LEMMA NameRequestPacked ==
    ASSUME IsFiniteSet(Name), fs \in FileSystem, Packed(fs), NEW bad, NEW d \in Dirs(fs),
           NEW n \in Name, NameRequest(d, n, bad)
    PROVE  Packed(fs')
<1>0. d \in Ino /\ d \in fs.imap
  BY DEF Dirs, Live, FileSystem
<1>n. \A ni \in ext2fs_new_inode(fs) : ni \in Ino \cup {NoIno} /\ ni # d
  BY <1>0, RootAssumption DEF ext2fs_new_inode, FreeInodes
<1>1. CASE Open(d, n, bad)
  BY <1>1, PackedOpen DEF Open, Done, op_open
<1>2. ASSUME NEW ni \in ext2fs_new_inode(fs), Create(d, n, ni, bad)
      PROVE  Packed(fs')
  BY <1>0, <1>2, <1>n, PackedOpCreate DEF Create, Done
<1>3. ASSUME NEW ni \in ext2fs_new_inode(fs), NEW kind \in MknodKinds,
             Mknod(d, n, kind, ni, bad)
      PROVE  Packed(fs')
  <2>1. kind \in Kind
    BY KindsAssumption DEF Kind
  <2> QED
    BY <1>0, <1>3, <1>n, <2>1, PackedCreate DEF Mknod, op_mknod, Done
<1>4. ASSUME NEW ni \in ext2fs_new_inode(fs), Mkdir(d, n, ni, bad)
      PROVE  Packed(fs')
  BY <1>0, <1>4, <1>n, PackedOpMkdir DEF Mkdir, Done
<1>5. ASSUME NEW ni \in ext2fs_new_inode(fs), NEW long \in BOOLEAN,
             Symlink(d, n, long, ni, bad)
      PROVE  Packed(fs')
  BY <1>0, <1>5, <1>n, PackedSymlink DEF Symlink, Done
<1>6. CASE Unlink(d, n, bad)
  BY <1>0, <1>6, PackedOpUnlink DEF Unlink, Done
<1>7. CASE Rmdir(d, n, bad)
  BY <1>0, <1>7, PackedOpRmdir DEF Rmdir, Done
<1>8. CASE Write(d, n, bad)
  BY <1>0, <1>8, PackedOpWrite DEF Write, Done
<1>9. CASE Truncate(d, n, bad)
  BY <1>0, <1>9, PackedOpTruncate DEF Truncate, Done
<1> QED
  BY <1>1, <1>2, <1>3, <1>4, <1>5, <1>6, <1>7, <1>8, <1>9 DEF NameRequest

\* Whatever fails, a directory block never holds more entries than it has slots:
\* the loops around ext2fs_link and ext2fs_expand_dir never add to a full block.
\* It is what lets op_rename delete the destination's name before it adds it
\* again: there is room for it.
THEOREM BlocksFit ==
    ASSUME IsFiniteSet(Name)
    PROVE  Spec => []Packed(fs)
<1>1. Init => Packed(fs)
  <2> SUFFICES ASSUME Init, NEW b \in Block
               PROVE  Cardinality(Entries(fs, b)) <= SlotsPerBlock
    BY DEF Packed
  <2>1. Entries(fs, b) = {}
    BY DEF Init, Mkfs, Entries
  <2> QED
    BY <2>1, FS_EmptySet, SlotsAssumption
<1>2. TypeOK /\ Packed(fs) /\ [Next]_vars => Packed(fs)'
  <2> SUFFICES ASSUME TypeOK, Packed(fs), [Next]_vars PROVE Packed(fs')
    BY DEF Packed, Entries
  <2>0. fs \in FileSystem
    BY DEF TypeOK
  <2>1. CASE UNCHANGED vars
    BY <2>1 DEF vars
  <2>2. CASE Next
    <3>1. PICK bad \in Faults, d \in PathDirs(fs), n \in Name :
            \/ NameRequest(d, n, bad)
            \/ \E td \in PathDirs(fs), tn \in Name : TwoNameRequest(d, n, td, tn, bad)
      BY <2>2 DEF Next
    <3>2. PathDirs(fs) \subseteq Dirs(fs) /\ Dirs(fs) \subseteq Ino
      BY <2>0 DEF PathDirs, Dirs, Live, FileSystem
    <3>3. CASE NameRequest(d, n, bad)
      BY <2>0, <3>2, <3>3, NameRequestPacked
    <3>4. ASSUME NEW td \in PathDirs(fs), NEW tn \in Name, TwoNameRequest(d, n, td, tn, bad)
          PROVE  Packed(fs')
      BY <2>0, <3>2, <3>4, PackedOpLink, PackedRename DEF TwoNameRequest, Link, Rename, Done
    <3> QED
      BY <3>1, <3>3, <3>4
  <2> QED
    BY <2>1, <2>2
<1> QED
  BY <1>1, <1>2, Typing, PTL DEF Spec
=============================================================================
