------------------------- MODULE Ext2HandlerProofs -------------------------
(***************************************************************************)
(* Every handler leads from a sound file system to one that is sound but   *)
(* for the inode of the request, whichever calls fail in it; and to a      *)
(* sound one when only safe call sites fail.  So the damage of a failing   *)
(* call is confined and reported, and without unsafe ones Sound is an      *)
(* invariant of the daemon.                                                *)
(***************************************************************************)
EXTENDS Ext2SoundProofs

-----------------------------------------------------------------------------
(* The shared parts of the handlers *)

LEMMA CapNat ==
    ASSUME NEW f \in FileSystem, NEW i \in Ino
    PROVE  Cap(f, i) \in Nat
  BY WidthAssumption DEF Cap, IsDir, FileSystem, Inode

LEMMA NoExcess ==
    ASSUME NEW f, Good(f, NoIno), NEW i \in Ino
    PROVE  Cardinality(Refs(f, i)) <= Cap(f, i)
<1>1. i # NoIno
  BY RootAssumption
<1>2. Cap(f, i) \in Nat
  BY CapNat DEF Good
<1>3. Cardinality(Refs(f, i)) <= Cap(f, i) + (IF i = NoIno THEN 1 ELSE 0)
  BY DEF Good
<1> QED
  BY <1>1, <1>2, <1>3

\* An inode with another link count is the same otherwise.
LEMMA Relinked ==
    ASSUME NEW r \in Inode, NEW k
    PROVE  /\ [r EXCEPT !.links = k].kind = r.kind
           /\ [r EXCEPT !.links = k].blk = r.blk
           /\ [r EXCEPT !.links = k].links = k
  BY DEF Inode

\* What a handler asked about inode i may return: a sound file system, or, when
\* one of the calls after ext2fs_link fails, with the error one that is sound
\* but for i.
Leaves(r, i, bad) ==
    \/ Good(r.fs, NoIno)
    \/ Good(r.fs, i) /\ r.rc \in Error /\ bad \cap UnsafeSites # {}

\* g has all the files of f but those of T, with their blocks and their names.
Spares(f, g, T) ==
    /\ Live(f) \ T \subseteq Live(g)
    /\ \A j \in Live(f) \ T : /\ g.inode[j].kind = f.inode[j].kind
                             /\ f.inode[j].blk \subseteq g.inode[j].blk
    /\ \A c \in Dirs(f), m \in Name, j \in Ino \ T :
        Holds(f, c, m, j) => Holds(g, c, m, j)

LEMMA SparesSame ==
    ASSUME NEW f, NEW T
    PROVE  Spares(f, f, T)
  BY DEF Spares

\* One step after another.
LEMMA SparesThen ==
    ASSUME NEW f, NEW g, NEW h, NEW T, Spares(f, g, T), Spares(g, h, T)
    PROVE  Spares(f, h, T)
<1>1. ASSUME NEW c \in Dirs(f), NEW m \in Name, NEW j \in Ino \ T, Holds(f, c, m, j)
      PROVE  Holds(h, c, m, j)
  <2>1. Holds(g, c, m, j)
    BY <1>1 DEF Spares
  <2>2. c \in Dirs(g)
    BY <2>1 DEF Holds
  <2> QED
    BY <2>1, <2>2 DEF Spares
<1>2. \A j \in Live(f) \ T : j \in Live(g) \ T /\ j \in Live(h)
  BY DEF Spares
<1>3. ASSUME NEW j \in Live(f) \ T
      PROVE  h.inode[j].kind = f.inode[j].kind /\ f.inode[j].blk \subseteq h.inode[j].blk
  <2>1. g.inode[j].kind = f.inode[j].kind /\ f.inode[j].blk \subseteq g.inode[j].blk
    BY DEF Spares
  <2>2. h.inode[j].kind = g.inode[j].kind /\ g.inode[j].blk \subseteq h.inode[j].blk
    BY <1>2 DEF Spares
  <2> QED
    BY <2>1, <2>2
<1> QED
  BY <1>1, <1>2, <1>3 DEF Spares

\* An entry that stays where it is, in a directory that keeps its blocks.
LEMMA DataSpares ==
    ASSUME NEW f, NEW g, NEW T, T \cap Dirs(f) = {},
           Live(f) \ T \subseteq Live(g), Dirs(f) \subseteq Dirs(g),
           \A j \in Live(f) \ T : /\ g.inode[j].kind = f.inode[j].kind
                                /\ f.inode[j].blk \subseteq g.inode[j].blk,
           \A b \in DirBlocks(f), m \in Name :
               f.data[b][m] # NoIno => g.data[b][m] = f.data[b][m]
    PROVE  Spares(f, g, T)
<1>1. ASSUME NEW c \in Dirs(f), NEW m \in Name, NEW j \in Ino \ T, Holds(f, c, m, j)
      PROVE  Holds(g, c, m, j)
  <2>1. PICK b \in f.inode[c].blk : f.data[b][m] = j
    BY <1>1 DEF Holds
  <2>2. b \in DirBlocks(f) /\ c \in Live(f) \ T
    BY DEF DirBlocks, Dirs
  <2>3. b \in g.inode[c].blk /\ g.data[b][m] = j
    BY <2>1, <2>2, RootAssumption
  <2> QED
    BY <2>3 DEF Holds
<1> QED
  BY <1>1 DEF Spares

\* A step that changes no kind, no blocks and no names.
LEMMA SameSpares ==
    ASSUME NEW f \in FileSystem, NEW g, Live(g) = Live(f),
           \A j \in Ino : /\ g.inode[j].kind = f.inode[j].kind
                         /\ g.inode[j].blk = f.inode[j].blk,
           \A c \in Dirs(f), m \in Name, j \in Ino :
               Holds(f, c, m, j) => Holds(g, c, m, j),
           NEW T
    PROVE  Spares(f, g, T)
  BY BlocksTyped DEF Spares

\* The loop of ext2fs_link and ext2fs_expand_dir: the name, and at most one
\* block more for the directory.
LEMMA AddEntryGood ==
    ASSUME FiniteNames, NEW f, Good(f, NoIno), NEW d \in Dirs(f), NEW n \in Name,
           NEW i \in Ino, NEW bad, Holding(f, d, n) = {}
    PROVE  LET lk == AddEntry(f, d, n, i, bad) IN
           /\ lk.rc # "ok" => Good(lk.fs, NoIno)
           /\ lk.rc = "ok" =>
                /\ Good(lk.fs, i)
                /\ Cardinality(Refs(lk.fs, i)) <= Cardinality(Refs(f, i)) + 1
                /\ Holds(lk.fs, d, n, i)
           /\ lk.fs.imap = f.imap
           /\ Live(lk.fs) = Live(f) /\ Dirs(lk.fs) = Dirs(f)
           /\ \A j \in Ino : /\ lk.fs.inode[j].kind = f.inode[j].kind
                             /\ lk.fs.inode[j].links = f.inode[j].links
                             /\ f.inode[j].blk \subseteq lk.fs.inode[j].blk
                             /\ j # d => lk.fs.inode[j] = f.inode[j]
           /\ \A c \in Dirs(f), m \in Name, j \in Ino :
                Holds(f, c, m, j) => Holds(lk.fs, c, m, j)
           /\ lk.rc # "ok" => Holding(lk.fs, d, n) = {}
<1> DEFINE lk   == AddEntry(f, d, n, i, bad)
           full == Room(f, d, n) = {}
           g    == IF full THEN ext2fs_expand_dir(f, d) ELSE f
           l    == ext2fs_link(g, d, n, i)
<1>0. f \in FileSystem /\ d \in Live(f)
  BY BlocksTyped DEF Good
<1>1. CASE full /\ (FreeBlocks(f) = {} \/ "dir.expand" \in bad)
  <2>1. lk = Ret(f, "ENOSPC")
    BY <1>1 DEF AddEntry
  <2> HIDE DEF lk
  <2>2. lk.fs = f /\ lk.rc # "ok"
    BY <2>1 DEF Ret
  <2> QED
    BY <2>2 DEF lk
<1>2. CASE ~ (full /\ (FreeBlocks(f) = {} \/ "dir.expand" \in bad))
  <2>1. /\ Good(g, NoIno)
        /\ g.imap = f.imap
        /\ Live(g) = Live(f) /\ Dirs(g) = Dirs(f)
        /\ \A j \in Ino : /\ g.inode[j].kind = f.inode[j].kind
                          /\ g.inode[j].links = f.inode[j].links
                          /\ f.inode[j].blk \subseteq g.inode[j].blk
                          /\ j # d => g.inode[j] = f.inode[j]
                          /\ Refs(g, j) \subseteq Refs(f, j)
        /\ \A c \in Dirs(f), m \in Name, j \in Ino :
             Holds(f, c, m, j) => Holds(g, c, m, j)
        /\ Room(g, d, n) # {} /\ Holding(g, d, n) = {}
    <3>1. CASE full
      <4>1. FreeBlocks(f) # {}
        BY <1>2, <3>1
      <4>2. g = ext2fs_expand_dir(f, d)
        BY <3>1
      <4> HIDE DEF g
      <4>3. FewerEntries(f, g) /\ Dirs(g) = Dirs(f)
        BY <1>0, <4>1, <4>2, ExpandGood
      <4>4. Holding(g, d, n) = {}
        BY <4>3 DEF FewerEntries
      <4> QED
        BY <1>0, <4>1, <4>2, <4>4, ExpandGood
    <3>2. CASE ~ full
      <4>1. g = f
        BY <3>2
      <4> HIDE DEF g
      <4> QED
        BY <3>2, <4>1
    <3> QED
      BY <3>1, <3>2
  <2>2. lk = IF "dir.link" \in bad THEN Ret(g, "EIO") ELSE Ret(l, "ok")
    BY <1>2 DEF AddEntry
  <2> HIDE DEF g
  <2>3. /\ Good(l, i)
        /\ l.inode = g.inode /\ l.imap = g.imap
        /\ Live(l) = Live(g) /\ Dirs(l) = Dirs(g)
        /\ Cardinality(Refs(l, i)) = Cardinality(Refs(g, i)) + 1
        /\ \A c \in Dirs(g), m \in Name, j \in Ino :
             Holds(g, c, m, j) => Holds(l, c, m, j)
        /\ Holds(l, d, n, i)
    BY <2>1, LinkGood
  <2>4. Cardinality(Refs(l, i)) <= Cardinality(Refs(f, i)) + 1
    <3>1. g \in FileSystem
      BY <2>1, GoodTyped
    <3>2. Cardinality(Refs(g, i)) <= Cardinality(Refs(f, i))
      BY <1>0, <2>1, <3>1, FewerRefs
    <3>3. Cardinality(Refs(g, i)) \in Nat /\ Cardinality(Refs(f, i)) \in Nat
      BY <1>0, <3>1, RefsFinite
    <3> QED
      BY <2>3, <3>2, <3>3
  <2> HIDE DEF l, lk
  <2>5. CASE "dir.link" \in bad
    <3>1. lk.fs = g /\ lk.rc # "ok"
      BY <2>2, <2>5 DEF Ret
    <3> QED
      BY <2>1, <3>1 DEF lk
  <2>6. CASE "dir.link" \notin bad
    <3>1. lk.fs = l /\ lk.rc = "ok"
      BY <2>2, <2>6 DEF Ret
    <3> QED
      BY <2>1, <2>3, <2>4, <3>1 DEF lk
  <2> QED
    BY <2>5, <2>6
<1> QED
  BY <1>1, <1>2

LEMMA AddEntrySpares ==
    ASSUME FiniteNames, NEW f, Good(f, NoIno), NEW d \in Dirs(f), NEW n \in Name,
           NEW i \in Ino, NEW bad, Holding(f, d, n) = {}, NEW T
    PROVE  Spares(f, AddEntry(f, d, n, i, bad).fs, T)
<1> DEFINE g == AddEntry(f, d, n, i, bad).fs
<1>1. /\ Live(g) = Live(f)
      /\ \A j \in Ino : /\ g.inode[j].kind = f.inode[j].kind
                        /\ f.inode[j].blk \subseteq g.inode[j].blk
      /\ \A c \in Dirs(f), m \in Name, j \in Ino :
           Holds(f, c, m, j) => Holds(g, c, m, j)
  BY AddEntryGood
<1>2. Live(f) \subseteq Ino
  BY BlocksTyped DEF Good
<1> HIDE DEF g
<1> QED
  BY <1>1, <1>2 DEF g, Spares

\* A block more for a directory or a file.
LEMMA ExpandSpares ==
    ASSUME FiniteNames, NEW f, NEW e, Good(f, e), NEW d \in Live(f),
           FreeBlocks(f) # {}, NEW T
    PROVE  Spares(f, ext2fs_expand_dir(f, d), T)
<1> DEFINE g == ext2fs_expand_dir(f, d)
<1>1. /\ Live(g) = Live(f)
      /\ \A j \in Ino : /\ g.inode[j].kind = f.inode[j].kind
                        /\ f.inode[j].blk \subseteq g.inode[j].blk
      /\ \A c \in Dirs(f), m \in Name, j \in Ino :
           Holds(f, c, m, j) => Holds(g, c, m, j)
  BY ExpandGood
<1>2. Live(f) \subseteq Ino
  BY BlocksTyped DEF Good
<1> HIDE DEF g
<1> QED
  BY <1>1, <1>2 DEF g, Spares

\* An inode of T written anew, where it is no directory, and maybe allocated.
LEMMA BirthSpares ==
    ASSUME NEW f \in FileSystem, NEW i \in Ino \ f.imap, NEW r
    PROVE  /\ Spares(f, ext2fs_inode_alloc(f, i), {i})
           /\ Spares(f, ext2fs_write_inode(ext2fs_inode_alloc(f, i), i, r), {i})
<1> DEFINE g == ext2fs_inode_alloc(f, i)
           h == ext2fs_write_inode(g, i, r)
<1>1. g.inode = f.inode /\ g.data = f.data /\ f.imap \subseteq g.imap
  BY DEF ext2fs_inode_alloc, FileSystem
<1>2. /\ h.data = f.data /\ f.imap \subseteq h.imap
      /\ \A j \in Ino : j # i => h.inode[j] = f.inode[j]
  BY DEF ext2fs_write_inode, ext2fs_inode_alloc, FileSystem
<1>3. f.imap \subseteq Ino
  BY DEF FileSystem
<1> HIDE DEF g, h
<1>4. \A x \in {g, h} : Spares(f, x, {i})
  <2> SUFFICES ASSUME NEW x \in {g, h} PROVE Spares(f, x, {i})
    OBVIOUS
  <2>1. /\ x.data = f.data /\ f.imap \subseteq x.imap
        /\ \A j \in f.imap : x.inode[j] = f.inode[j]
    BY <1>1, <1>2, <1>3
  <2>2. Live(f) \subseteq Live(x) /\ Dirs(f) \subseteq Dirs(x)
    BY <2>1 DEF Live, Dirs
  <2>3. \A c \in Dirs(f) : x.inode[c] = f.inode[c]
    BY <2>1 DEF Live, Dirs
  <2>4. \A j \in Live(f) : x.inode[j] = f.inode[j]
    BY <2>1 DEF Live
  <2>5. \A c \in Dirs(f), m \in Name, j \in Ino : Holds(f, c, m, j) => Holds(x, c, m, j)
    BY <2>1, <2>2, <2>3 DEF Holds
  <2> QED
    BY <2>2, <2>4, <2>5 DEF Spares
<1> QED
  BY <1>4 DEF g, h

\* Opening a file writes its inode back as it was.
LEMMA OpenSame ==
    ASSUME FiniteNames, NEW f, Good(f, NoIno), NEW d \in Dirs(f), NEW n \in Name,
           NEW bad
    PROVE  do_open(f, d, n, bad).fs = f /\ op_open(f, d, n, bad).fs = f
<1> DEFINE i == ext2fs_namei(f, d, n)
           w == do_writeinode(f, i, f.inode[i], "open.atime", bad)
<1>1. CASE i = NoIno \/ "readinode" \in bad
  BY <1>1 DEF do_open, op_open, Ret
<1>2. CASE ~ (i = NoIno \/ "readinode" \in bad)
  <2>1. f \in FileSystem /\ i \in Live(f)
    BY <1>2, LookupHolds DEF Good
  <2>2. i \in Ino /\ f.inode[i].links >= 1
    BY <2>1, LiveLinks
  <2>3. w.fs = f
    BY <2>1, <2>2, WriteSame
  <2>4. do_open(f, d, n, bad) = Ret(w.fs, IF w.rc = "ok" THEN "ok" ELSE "ENOENT")
    BY <1>2 DEF do_open
  <2> HIDE DEF w
  <2> QED
    BY <2>3, <2>4 DEF op_open, Ret
<1> QED
  BY <1>1, <1>2

-----------------------------------------------------------------------------
(* Handlers that create *)

\* An inode number taken, for an inode that is not written: it was free, and
\* stays without links.
LEMMA AllocGood ==
    ASSUME NEW f, NEW e, Good(f, e), NEW i \in Ino \ f.imap
    PROVE  LET g == ext2fs_inode_alloc(f, i) IN
           Good(g, e) /\ Dirs(g) = Dirs(f)
<1> DEFINE g == ext2fs_inode_alloc(f, i)
<1>0. f \in FileSystem
  BY DEF Good
<1>1. g \in FileSystem
  BY <1>0, AllocTyped
<1>2. /\ g.inode = f.inode /\ g.imap = f.imap \cup {i} /\ g.data = f.data
      /\ g.bmap = f.bmap
  BY <1>0 DEF ext2fs_inode_alloc, FileSystem
<1> HIDE DEF g
<1>3. Live(g) = Live(f)
  <2>1. ~ (f.inode[i].links > 0)
    BY DEF Good, FreeUnlinked
  <2> QED
    BY <1>2, <2>1 DEF Live
<1>4. Dirs(g) = Dirs(f)
  BY <1>2, <1>3 DEF Dirs
<1>5. DirBlocks(g) = DirBlocks(f)
  BY <1>2, <1>4 DEF DirBlocks
<1>6. \A j \in Ino : Refs(g, j) = Refs(f, j)
  BY <1>2, <1>5 DEF Refs
<1>7. \A j \in Ino : Cap(g, j) = Cap(f, j)
  BY <1>2, <1>3 DEF Cap, IsDir
<1>8. Disjoint(g)
  BY <1>2, <1>3 DEF Disjoint, Good
<1>9. Once(g)
  BY <1>2, <1>4 DEF Good, Once, Holding
<1>10. FreeUnlinked(g)
  BY <1>2 DEF Good, FreeUnlinked
<1>11. Good(g, e)
  BY <1>1, <1>2, <1>3, <1>4, <1>5, <1>6, <1>7, <1>8, <1>9, <1>10 DEF Good
<1> QED
  BY <1>4, <1>11 DEF g

LEMMA DoCreateGood ==
    ASSUME FiniteNames, NEW f, Good(f, NoIno), NEW d \in Dirs(f), NEW n \in Name,
           NEW kind \in Kind \ {"dir"}, NEW ni \in ext2fs_new_inode(f),
           NEW bad,
           Holding(f, d, n) = {}
    PROVE  LET made == do_create(f, d, n, kind, ni, bad) IN
           /\ Leaves(made, ni, bad)
           /\ made.rc = "ok" => Good(made.fs, NoIno)
           /\ Dirs(f) \subseteq Dirs(made.fs)
           /\ made.rc = "ok" => ni \in Live(made.fs)
           /\ Spares(f, made.fs, {ni})
<1> DEFINE made == do_create(f, d, n, kind, ni, bad)
           lk == AddEntry(f, d, n, ni, bad)
           g  == ext2fs_inode_alloc(lk.fs, ni)
           h  == ext2fs_write_inode(g, ni, [kind |-> kind, links |-> 1, blk |-> {}])
           w  == do_writeinode(h, d, h.inode[d], "create.parent", bad)
<1>0. f \in FileSystem
  BY DEF Good
<1>1. CASE "readinode" \in bad \/ ni = NoIno
  <2>1. made.fs = f /\ made.rc # "ok"
    BY <1>1 DEF do_create, Ret
  <2> HIDE DEF made
  <2> QED
    BY <2>1, SparesSame DEF made, Leaves
<1>2. CASE ~ ("readinode" \in bad \/ ni = NoIno)
  <2>1. ni \in Ino /\ ni \notin f.imap
    BY <1>2 DEF ext2fs_new_inode, FreeInodes
  <2>2. made = IF lk.rc # "ok" THEN lk
               ELSE IF "create.write_new_inode" \in bad THEN Ret(g, "EIO")
               ELSE w
    BY <1>2 DEF do_create
  <2>3. /\ lk.rc # "ok" => Good(lk.fs, NoIno)
        /\ lk.rc = "ok" =>
             /\ Good(lk.fs, ni)
             /\ Cardinality(Refs(lk.fs, ni)) <= Cardinality(Refs(f, ni)) + 1
        /\ lk.fs.imap = f.imap
        /\ Dirs(lk.fs) = Dirs(f)
    BY <2>1, AddEntryGood
  <2>7. Spares(f, lk.fs, {ni})
    BY <2>1, AddEntrySpares
  <2> HIDE DEF lk, made
  <2>4. CASE lk.rc # "ok"
    BY <2>2, <2>3, <2>4, <2>7 DEF made, Leaves
  <2>8. lk.rc = "ok" => Spares(f, g, {ni}) /\ Spares(f, h, {ni})
    <3> SUFFICES ASSUME lk.rc = "ok" PROVE Spares(f, g, {ni}) /\ Spares(f, h, {ni})
      OBVIOUS
    <3>1. lk.fs \in FileSystem /\ ni \in Ino \ lk.fs.imap
      BY <2>1, <2>3, GoodTyped
    <3>2. Spares(lk.fs, g, {ni}) /\ Spares(lk.fs, h, {ni})
      BY <3>1, BirthSpares
    <3> HIDE DEF g, h
    <3> QED
      BY <2>7, <3>2, SparesThen
  <2>6. CASE lk.rc = "ok" /\ "create.write_new_inode" \in bad
    <3>1. Good(g, ni) /\ Dirs(g) = Dirs(f)
      BY <2>1, <2>3, <2>6, AllocGood
    <3> HIDE DEF g
    <3>2. made.fs = g /\ made.rc = "EIO"
      BY <2>2, <2>6 DEF Ret
    <3>3. bad \cap UnsafeSites # {}
      BY <2>6 DEF UnsafeSites
    <3>4. Spares(f, g, {ni})
      BY <2>6, <2>8 DEF g
    <3> QED
      BY <3>1, <3>2, <3>3, <3>4 DEF made, Leaves, Error
  <2>5. CASE lk.rc = "ok" /\ "create.write_new_inode" \notin bad
    <3>1. Cardinality(Refs(f, ni)) = 0
      <4>1. Cap(f, ni) = 0
        BY <2>1 DEF Cap, Live
      <4> QED
        BY <1>0, <2>1, <4>1, NoExcess, RefsFinite
    <3>2. Cardinality(Refs(lk.fs, ni)) <= 1
      BY <2>3, <2>5, <3>1
    <3>3. Good(h, NoIno) /\ Live(h) = Live(lk.fs) \cup {ni} /\ Dirs(h) = Dirs(f)
      BY <2>1, <2>3, <2>5, <3>2, BirthGood
    <3> HIDE DEF h
    <3>4. h \in FileSystem /\ d \in Live(h)
      BY <3>3, BlocksTyped, GoodTyped
    <3>5. d \in Ino /\ h.inode[d].links >= 1
      BY <3>4, LiveLinks
    <3>6. w.fs = h
      BY <3>4, <3>5, WriteSame
    <3> HIDE DEF w
    <3>7. Spares(f, h, {ni})
      BY <2>5, <2>8 DEF h
    <3> QED
      BY <2>2, <2>5, <3>3, <3>6, <3>7 DEF made, Leaves
  <2> QED
    BY <2>4, <2>5, <2>6
<1> QED
  BY <1>1, <1>2

LEMMA OpCreateGood ==
    ASSUME FiniteNames, NEW f, Good(f, NoIno), NEW d \in Dirs(f), NEW n \in Name,
           NEW ni \in ext2fs_new_inode(f), NEW bad,
           Holding(f, d, n) = {}
    PROVE  LET op == op_create(f, d, n, ni, bad) IN
           Leaves(op, ni, bad) /\ Spares(f, op.fs, {ni})
<1> DEFINE first == op_open(f, d, n, bad)
           made  == do_create(first.fs, d, n, "reg", ni, bad)
           again == op_open(made.fs, d, n, bad)
<1>1. first.fs = f
  BY OpenSame
<1>2. "reg" \in Kind \ {"dir"}
  BY DEF Kind
<1>3. /\ Leaves(made, ni, bad)
      /\ made.rc = "ok" => Good(made.fs, NoIno)
      /\ d \in Dirs(made.fs)
      /\ Spares(f, made.fs, {ni})
  BY <1>1, <1>2, DoCreateGood
<1>4. op_create(f, d, n, ni, bad) =
        IF first.rc = "ok" THEN first
        ELSE IF made.rc # "ok" THEN made
        ELSE Ret(again.fs, IF again.rc = "ok" THEN "ok" ELSE "EIO")
  BY DEF op_create
<1> HIDE DEF made
<1>5. made.rc = "ok" => again.fs = made.fs
  BY <1>3, OpenSame
<1> HIDE DEF first, again
<1>6. CASE first.rc # "ok" /\ made.rc # "ok"
  BY <1>3, <1>4, <1>6
<1>7. CASE first.rc = "ok" \/ made.rc = "ok"
  <2>1. op_create(f, d, n, ni, bad).fs \in {f, made.fs}
    BY <1>1, <1>3, <1>4, <1>5, <1>7 DEF Ret
  <2>2. Good(op_create(f, d, n, ni, bad).fs, NoIno)
    BY <1>1, <1>3, <1>4, <1>5, <1>7 DEF Ret
  <2> QED
    BY <1>3, <2>1, <2>2, SparesSame DEF Leaves
<1> QED
  BY <1>6, <1>7

LEMMA OpSymlinkGood ==
    ASSUME FiniteNames, NEW f, Good(f, NoIno), NEW d \in Dirs(f), NEW n \in Name,
           NEW long, NEW ni \in ext2fs_new_inode(f), NEW bad,
           Holding(f, d, n) = {}
    PROVE  LET op == op_symlink(f, d, n, long, ni, bad) IN
           Leaves(op, ni, bad) /\ Spares(f, op.fs, {ni})
<1> DEFINE made   == do_create(f, d, n, "lnk", ni, bad)
           opened == do_open(made.fs, d, n, bad)
           grown  == ext2fs_file_grow(opened.fs, ni)
<1>1. "lnk" \in Kind \ {"dir"}
  BY DEF Kind
<1>2. /\ Leaves(made, ni, bad)
      /\ made.rc = "ok" => Good(made.fs, NoIno) /\ ni \in Live(made.fs)
      /\ d \in Dirs(made.fs)
      /\ Spares(f, made.fs, {ni})
  BY <1>1, DoCreateGood
<1>3. op_symlink(f, d, n, long, ni, bad) =
        IF made.rc # "ok" \/ ~ long THEN made
        ELSE IF opened.rc # "ok" THEN Ret(opened.fs, "EIO")
        ELSE IF FreeBlocks(opened.fs) = {} \/ "write.data" \in bad
             THEN Ret(opened.fs, "EIO")
        ELSE Ret(grown, IF "symlink.release" \in bad THEN "EIO" ELSE "ok")
  BY DEF op_symlink
<1> HIDE DEF made
<1>4. made.rc = "ok" => opened.fs = made.fs
  BY <1>2, OpenSame
<1> HIDE DEF opened
<1>5. made.rc = "ok" /\ FreeBlocks(opened.fs) # {} =>
        Good(grown, NoIno) /\ Spares(f, grown, {ni})
  <2> SUFFICES ASSUME made.rc = "ok", FreeBlocks(opened.fs) # {}
               PROVE  Good(grown, NoIno) /\ Spares(f, grown, {ni})
    OBVIOUS
  <2>1. grown = ext2fs_expand_dir(made.fs, ni)
    BY <1>4 DEF ext2fs_file_grow, ext2fs_expand_dir
  <2>2. Good(grown, NoIno) /\ Spares(made.fs, grown, {ni})
    BY <1>2, <1>4, <2>1, ExpandGood, ExpandSpares
  <2> HIDE DEF grown
  <2> QED
    BY <1>2, <2>2, SparesThen
<1> HIDE DEF grown
<1>6. CASE made.rc # "ok" \/ ~ long
  BY <1>2, <1>3, <1>6
<1>7. CASE made.rc = "ok" /\ long
  <2> DEFINE op == op_symlink(f, d, n, long, ni, bad)
  <2>1. op.fs = made.fs \/ (FreeBlocks(opened.fs) # {} /\ op.fs = grown)
    BY <1>3, <1>4, <1>7 DEF Ret
  <2> HIDE DEF op
  <2>2. Good(op.fs, NoIno) /\ Spares(f, op.fs, {ni})
    BY <1>2, <1>5, <1>7, <2>1
  <2> QED
    BY <2>2 DEF Leaves, op
<1> QED
  BY <1>6, <1>7

LEMMA NewDirSpares ==
    ASSUME FiniteNames, NEW f, Good(f, NoIno), NEW i \in Ino, i \notin f.imap,
           NEW d \in Dirs(f), NEW b \in Block, b \notin f.bmap
    PROVE  Spares(f, NewDir(f, d, i, b), {i})
<1> DEFINE g == NewDir(f, d, i, b)
<1>1. /\ Live(g) = Live(f) \cup {i} /\ Dirs(g) = Dirs(f) \cup {i}
      /\ \A j \in Ino : j # i => g.inode[j] = f.inode[j]
  BY NewDirGood
<1>2. f \in FileSystem /\ Live(f) \subseteq Ino /\ Dirs(f) \subseteq Live(f)
  BY BlocksTyped DEF Good
<1>3. \A c \in Block : c # b => g.data[c] = f.data[c]
  BY <1>2 DEF NewDir, FileSystem
<1> HIDE DEF g
<1>4. i \notin Live(f)
  BY DEF Live
<1>5. \A c \in Dirs(f) : f.inode[c].blk \subseteq Block /\ b \notin f.inode[c].blk
  BY <1>2, BlocksTyped DEF Good, Disjoint
<1>6. \A c \in Dirs(f) : g.inode[c] = f.inode[c] /\ c \in Dirs(g)
  BY <1>1, <1>2, <1>4
<1>7. \A c \in Dirs(f), m \in Name, j \in Ino : Holds(f, c, m, j) => Holds(g, c, m, j)
  BY <1>3, <1>5, <1>6 DEF Holds
<1>8. \A j \in Live(f) : g.inode[j] = f.inode[j]
  BY <1>1, <1>2, <1>4
<1> QED
  BY <1>1, <1>7, <1>8 DEF Spares, g

\* The whole of ext2fs_mkdir, when there is room for the entry and a block.
LEMMA MkdirGood ==
    ASSUME FiniteNames, NEW f, Good(f, NoIno), NEW d \in Dirs(f), NEW n \in Name,
           NEW i \in Ino, i \notin f.imap, FreeBlocks(f) # {}, Room(f, d, n) # {},
           f.inode[d].links + 1 < LinkMod, Holding(f, d, n) = {}
    PROVE  LET h == ext2fs_mkdir(f, d, n, i) IN
           Good(h, NoIno) /\ Dirs(h) = Dirs(f) \cup {i} /\ Spares(f, h, {i})
<1> DEFINE b == ext2fs_new_block(f)
           g == NewDir(f, d, i, b)
           l == ext2fs_link(g, d, n, i)
           r == [l.inode[d] EXCEPT !.links = (@ + 1) % LinkMod]
           h == ext2fs_mkdir(f, d, n, i)
<1>0. f \in FileSystem /\ d \in Live(f)
  BY BlocksTyped DEF Good
<1>1. b \in Block /\ b \notin f.bmap
  BY <1>0, NewBlockTyped
<1>2. h = [l EXCEPT !.inode[d].links = (@ + 1) % LinkMod]
  BY DEF ext2fs_mkdir, NewDir
<1> HIDE DEF b
<1>3. /\ Good(g, NoIno)
      /\ Live(g) = Live(f) \cup {i} /\ Dirs(g) = Dirs(f) \cup {i}
      /\ \A j \in Ino : j # i => g.inode[j] = f.inode[j]
      /\ g.inode[i].kind = "dir"
      /\ Refs(g, i) = {}
      /\ Room(g, d, n) = Room(f, d, n)
      /\ FewerEntries(f, g)
  BY <1>1, NewDirGood
<1>15. Spares(f, g, {i})
  BY <1>1, NewDirSpares
<1> HIDE DEF g, h
<1>4. /\ Good(g, NoIno) /\ d \in Dirs(g)
       /\ Holding(g, d, n) = {} /\ Room(g, d, n) # {}
  BY <1>3 DEF FewerEntries
<1>5. /\ Good(l, i)
      /\ l.inode = g.inode
      /\ Live(l) = Live(g) /\ Dirs(l) = Dirs(g)
      /\ Cardinality(Refs(l, i)) = Cardinality(Refs(g, i)) + 1
      /\ \A c \in Dirs(g), m \in Name, j \in Ino : Holds(g, c, m, j) => Holds(l, c, m, j)
  BY <1>4, LinkGood
<1> HIDE DEF l
<1>16. Spares(g, l, {i})
  BY <1>5 DEF Spares
<1>6. i # Root /\ i # d
  BY <1>0 DEF Good, Dirs, Live
<1>7. Good(l, NoIno)
  <2>1. Cardinality(Refs(l, i)) = 1
    BY <1>3, <1>5, FS_EmptySet
  <2>2. Cap(l, i) = 1 /\ i \in Live(l)
    BY <1>3, <1>5, <1>6 DEF Cap, IsDir
  <2> QED
    BY <1>5, <2>1, <2>2, Settle
<1>8. l \in FileSystem /\ d \in Ino /\ d \in Live(l) /\ l.inode[d] = f.inode[d]
  BY <1>0, <1>3, <1>5, <1>6, <1>7, BlocksTyped, GoodTyped
<1>9. l.inode[d] \in Inode /\ l.inode[d].links \in Nat /\ l.inode[d].kind = "dir"
  BY <1>8, LiveLinks DEF Dirs
<1>10. /\ r \in Inode /\ r.kind = l.inode[d].kind /\ r.blk = l.inode[d].blk
      /\ r.links = (l.inode[d].links + 1) % LinkMod
  BY <1>9, LinksTyped DEF Inode
<1>11. r.links >= 1
  <2>1. l.inode[d].links + 1 \in 0 .. LinkMod - 1
    BY <1>8, <1>9, WidthAssumption
  <2>2. (l.inode[d].links + 1) % LinkMod = l.inode[d].links + 1
    BY <2>1, WidthAssumption
  <2> QED
    BY <1>9, <1>10, <2>2
<1>12. h = ext2fs_write_inode(l, d, r)
  BY <1>2, <1>8 DEF ext2fs_write_inode, FileSystem
<1> HIDE DEF r
<1>13. IsDir(l, d)
  BY <1>9 DEF IsDir
<1>14. /\ Good(h, NoIno) /\ Dirs(h) = Dirs(l) /\ Live(h) = Live(l)
       /\ h.inode[d] = r
       /\ \A j \in Ino : j # d => h.inode[j] = l.inode[j]
       /\ \A c \in Dirs(l), m \in Name, j \in Ino : Holds(l, c, m, j) => Holds(h, c, m, j)
  BY <1>7, <1>8, <1>10, <1>11, <1>12, <1>13, WriteGood
<1>17. Spares(l, h, {i})
  <2>1. Live(l) \subseteq Ino
    BY <1>8, BlocksTyped
  <2>2. \A j \in Live(l) : h.inode[j].kind = l.inode[j].kind /\ h.inode[j].blk = l.inode[j].blk
    BY <1>10, <1>14, <2>1
  <2> QED
    BY <1>14, <2>2 DEF Spares
<1>18. Spares(f, h, {i})
  BY <1>15, <1>16, <1>17, SparesThen
<1> QED
  BY <1>3, <1>5, <1>14, <1>18 DEF h

LEMMA OpMkdirGood ==
    ASSUME FiniteNames, NEW f, Good(f, NoIno), NEW d \in Dirs(f), NEW n \in Name,
           NEW ni \in ext2fs_new_inode(f), NEW bad,
           LinkRoom(f, d), Holding(f, d, n) = {}
    PROVE  LET op == op_mkdir(f, d, n, ni, bad) IN
           Good(op.fs, NoIno) /\ Spares(f, op.fs, {ni})
<1> DEFINE full == Room(f, d, n) = {}
           g    == IF full THEN ext2fs_expand_dir(f, d) ELSE f
           h    == ext2fs_mkdir(g, d, n, ni)
           w1   == do_writeinode(h, ni, h.inode[ni], "mkdir.attributes", bad)
           w2   == do_writeinode(w1.fs, d, w1.fs.inode[d], "mkdir.attributes", bad)
           op   == op_mkdir(f, d, n, ni, bad)
<1>0. f \in FileSystem /\ d \in Live(f) /\ d \in Ino
  BY BlocksTyped DEF Good
<1>1. CASE "readinode" \in bad \/ ni = NoIno \/ FreeBlocks(f) = {}
           \/ "mkdir.mkdir" \in bad \/ (full /\ "dir.expand" \in bad)
  <2>1. op.fs = f
    BY <1>1 DEF op_mkdir, Ret
  <2> HIDE DEF op
  <2> QED
    BY <2>1, SparesSame DEF op
<1>2. CASE ~ ("readinode" \in bad \/ ni = NoIno \/ FreeBlocks(f) = {}
              \/ "mkdir.mkdir" \in bad \/ (full /\ "dir.expand" \in bad))
  <2>1. ni \in Ino /\ ni \notin f.imap
    BY <1>2 DEF ext2fs_new_inode, FreeInodes
  <2>2. /\ Good(g, NoIno) /\ g.imap = f.imap /\ Dirs(g) = Dirs(f)
        /\ g.inode[d].links = f.inode[d].links
        /\ Room(g, d, n) # {} /\ Holding(g, d, n) = {}
        /\ Spares(f, g, {ni})
    <3>1. CASE full
      <4>1. g = ext2fs_expand_dir(f, d)
        BY <3>1
      <4>2. FreeBlocks(f) # {}
        BY <1>2
      <4> HIDE DEF g
      <4>5. Spares(f, g, {ni})
        BY <1>0, <4>1, <4>2, ExpandSpares
      <4>3. FewerEntries(f, g) /\ Dirs(g) = Dirs(f)
        BY <1>0, <4>1, <4>2, ExpandGood
      <4>4. Holding(g, d, n) = {}
        BY <4>3 DEF FewerEntries
      <4> QED
        BY <1>0, <4>1, <4>2, <4>4, <4>5, ExpandGood
    <3>2. CASE ~ full
      <4>1. g = f
        BY <3>2
      <4> HIDE DEF g
      <4> QED
        BY <3>2, <4>1, SparesSame
    <3> QED
      BY <3>1, <3>2
  <2>3. op = IF FreeBlocks(g) = {} THEN Ret(g, "EIO")
             ELSE IF w1.rc # "ok" THEN w1 ELSE w2
    BY <1>2 DEF op_mkdir
  <2> HIDE DEF g, op
  <2>4. CASE FreeBlocks(g) = {}
    <3>1. op.fs = g
      BY <2>3, <2>4 DEF Ret
    <3> QED
      BY <2>2, <3>1 DEF op
  <2>5. CASE FreeBlocks(g) # {}
    <3>1. Good(h, NoIno) /\ Dirs(h) = Dirs(g) \cup {ni} /\ Spares(g, h, {ni})
      BY <2>1, <2>2, <2>5, MkdirGood DEF LinkRoom
    <3> HIDE DEF h
    <3>6. Spares(f, h, {ni})
      BY <2>2, <3>1, SparesThen
    <3>2. h \in FileSystem /\ d \in Live(h) /\ ni \in Live(h)
      BY <2>2, <3>1, BlocksTyped, GoodTyped
    <3>3. h.inode[d].links >= 1 /\ h.inode[ni].links >= 1
      BY <3>2, LiveLinks
    <3>4. w1.fs = h
      BY <2>1, <3>2, <3>3, WriteSame
    <3> HIDE DEF w1
    <3>5. w2.fs = h
      BY <1>0, <3>2, <3>3, <3>4, WriteSame
    <3> HIDE DEF w2
    <3> QED
      BY <2>3, <2>5, <3>1, <3>4, <3>5, <3>6 DEF op
  <2> QED
    BY <2>4, <2>5
<1> QED
  BY <1>1, <1>2

\* The entries there were before the loop are where they were.
LEMMA AddEntryData ==
    ASSUME NEW f, Good(f, NoIno), NEW d \in Dirs(f), NEW n \in Name,
           NEW i \in Ino, NEW bad
    PROVE  LET lk == AddEntry(f, d, n, i, bad) IN
           \A b \in DirBlocks(f), m \in Name :
               f.data[b][m] # NoIno => lk.fs.data[b][m] = f.data[b][m]
<1> DEFINE full == Room(f, d, n) = {}
           g    == IF full THEN ext2fs_expand_dir(f, d) ELSE f
           r    == CHOOSE b \in Room(g, d, n) : TRUE
           l    == ext2fs_link(g, d, n, i)
           lk   == AddEntry(f, d, n, i, bad)
<1>0. f \in FileSystem /\ d \in Live(f) /\ d \in Ino
  BY BlocksTyped DEF Good
<1>1. CASE full /\ (FreeBlocks(f) = {} \/ "dir.expand" \in bad)
  <2>1. lk.fs = f
    BY <1>1 DEF AddEntry, Ret
  <2> HIDE DEF lk
  <2> QED
    BY <2>1 DEF lk
<1>2. CASE ~ (full /\ (FreeBlocks(f) = {} \/ "dir.expand" \in bad))
  <2>1. /\ g \in FileSystem /\ Room(g, d, n) # {}
        /\ \A b \in DirBlocks(f) : g.data[b] = f.data[b]
    <3>1. CASE full
      <4> DEFINE x == ext2fs_expand_dir(f, d)
                 new == ext2fs_new_block(f)
      <4>1. FreeBlocks(f) # {} /\ g = x
        BY <1>2, <3>1
      <4>2. new \in Block /\ new \notin f.bmap
        BY <1>0, <4>1, NewBlockTyped
      <4>3. x \in FileSystem
        BY <1>0, <4>1, ExpandTyped
      <4>4. /\ x.inode[d].blk = f.inode[d].blk \cup {new}
            /\ \A m \in Name : x.data[new][m] = NoIno
            /\ \A c \in Block : c # new => x.data[c] = f.data[c]
        BY <1>0, <4>1, ExpandFields
      <4> HIDE DEF g, x, new
      <4>5. new \in Room(x, d, n)
        <5>1. Entries(x, new) = {}
          BY <4>4 DEF Entries
        <5>2. Cardinality(Entries(x, new)) < SlotsPerBlock
          BY <5>1, FS_EmptySet, WidthAssumption, SlotsAssumption
        <5> QED
          BY <4>4, <5>2 DEF Room
      <4>6. \A b \in DirBlocks(f) : b \in Block /\ b # new
        BY <1>0, <4>2, BlocksTyped DEF Good, Disjoint, DirBlocks
      <4> QED
        BY <4>1, <4>3, <4>4, <4>5, <4>6
    <3>2. CASE ~ full
      BY <1>0, <3>2
    <3> QED
      BY <3>1, <3>2
  <2>2. lk.fs \in {g, l}
    BY <1>2 DEF AddEntry, Ret
  <2> HIDE DEF g, lk
  <2>3. r \in Room(g, d, n)
    BY <2>1
  <2>4. r \in Block /\ g.data[r][n] = NoIno
    BY <1>0, <2>1, <2>3, BlocksTyped DEF Room
  <2>5. l = SetEntry(g, r, n, i)
    BY DEF ext2fs_link
  <2> HIDE DEF r, l
  <2>6. \A b \in Block, m \in Name : <<b, m>> # <<r, n>> => l.data[b][m] = g.data[b][m]
    BY <2>1, <2>4, <2>5, SetEntryFields
  <2>7. \A b \in DirBlocks(f) : b \in Block
    BY <1>0, BlocksTyped
  <2>8. \A b \in DirBlocks(f), m \in Name :
          f.data[b][m] # NoIno => l.data[b][m] = f.data[b][m]
    BY <2>1, <2>4, <2>6, <2>7
  <2> QED
    BY <2>1, <2>2, <2>8 DEF lk
<1> QED
  BY <1>1, <1>2

LEMMA OpLinkGood ==
    ASSUME FiniteNames, NEW f, Good(f, NoIno), NEW sd \in Dirs(f), NEW sn \in Name,
           NEW d \in Dirs(f), NEW n \in Name, NEW bad,
           ext2fs_namei(f, sd, sn) # NoIno,
           ~ IsDir(f, ext2fs_namei(f, sd, sn)),
           LinkRoom(f, ext2fs_namei(f, sd, sn)), Holding(f, d, n) = {}
    PROVE  LET op == op_link(f, sd, sn, d, n, bad)
               i  == ext2fs_namei(f, sd, sn)
           IN  Leaves(op, i, bad) /\ Spares(f, op.fs, {i})
<1> DEFINE s   == ext2fs_namei(f, sd, sn)
           lk  == AddEntry(f, d, n, s, bad)
           src == [f.inode[s] EXCEPT !.links = (@ + 1) % LinkMod]
           w1  == do_writeinode(lk.fs, s, src, "link.source_inode", bad)
           w2  == do_writeinode(w1.fs, d, f.inode[d], "link.dest_inode", bad)
           op  == op_link(f, sd, sn, d, n, bad)
           h   == ext2fs_write_inode(lk.fs, s, src)
<1>0. /\ f \in FileSystem /\ s \in Live(f) /\ s \in Ino /\ s # Root
      /\ d \in Live(f) /\ d \in Ino
  BY LookupHolds, BlocksTyped DEF Good
<1>1. s # d /\ ~ IsDir(f, s) /\ LinkRoom(f, s)
  BY DEF Dirs, IsDir
<1>2. /\ f.inode[s] \in Inode /\ f.inode[s].links \in Nat /\ f.inode[s].links >= 1
      /\ f.inode[d] \in Inode /\ f.inode[d].links \in Nat /\ f.inode[d].links >= 1
  BY <1>0, LiveLinks
<1>3. op = IF "readinode" \in bad THEN Ret(f, "EIO")
           ELSE IF lk.rc # "ok" THEN lk
           ELSE IF w1.rc # "ok" THEN Ret(w1.fs, "EIO")
           ELSE Ret(w2.fs, IF w2.rc = "ok" THEN "ok" ELSE "EIO")
  BY DEF op_link
<1> HIDE DEF s, op
<1>4. /\ src \in Inode /\ src.kind = f.inode[s].kind /\ src.blk = f.inode[s].blk
      /\ src.links = (f.inode[s].links + 1) % LinkMod
  BY <1>2, LinksTyped DEF Inode
<1>5. src.links = f.inode[s].links + 1
  <2>1. f.inode[s].links + 1 \in 0 .. LinkMod - 1
    BY <1>1, <1>2, WidthAssumption DEF LinkRoom
  <2>2. (f.inode[s].links + 1) % LinkMod = f.inode[s].links + 1
    BY <2>1, WidthAssumption
  <2> QED
    BY <1>4, <2>2
<1> HIDE DEF src
<1>6. /\ lk.rc # "ok" => Good(lk.fs, NoIno)
      /\ lk.rc = "ok" =>
           /\ Good(lk.fs, s)
           /\ Cardinality(Refs(lk.fs, s)) <= Cardinality(Refs(f, s)) + 1
      /\ Live(lk.fs) = Live(f) /\ Dirs(lk.fs) = Dirs(f)
      /\ \A j \in Ino : /\ lk.fs.inode[j].kind = f.inode[j].kind
                        /\ lk.fs.inode[j].links = f.inode[j].links
                        /\ f.inode[j].blk \subseteq lk.fs.inode[j].blk
                        /\ j # d => lk.fs.inode[j] = f.inode[j]
  BY <1>0, AddEntryGood
<1>11. /\ Spares(f, lk.fs, {s})
       /\ \A b \in DirBlocks(f), m \in Name :
            f.data[b][m] # NoIno => lk.fs.data[b][m] = f.data[b][m]
  BY <1>0, AddEntrySpares, AddEntryData
<1> HIDE DEF lk
<1>7. CASE "readinode" \in bad
  <2>1. op.fs = f
    BY <1>3, <1>7 DEF Ret
  <2>2. Spares(f, f, {s})
    BY SparesSame
  <2> QED
    BY <2>1, <2>2 DEF op, s, Leaves
<1>8. CASE "readinode" \notin bad /\ lk.rc # "ok"
  <2>1. op = lk
    BY <1>3, <1>8
  <2> QED
    BY <1>6, <1>8, <1>11, <2>1 DEF op, s, Leaves
<1>10. CASE "readinode" \notin bad /\ lk.rc = "ok" /\ "link.source_inode" \in bad
  <2>1. w1 = Ret(lk.fs, "EIO")
    <3>1. src.links >= 1
      BY <1>2, <1>5
    <3>2. ~ (src.links < 1)
      BY <1>4, <3>1 DEF Inode
    <3> QED
      BY <1>10, <3>2 DEF do_writeinode
  <2>2. op.fs = lk.fs /\ op.rc = "EIO"
    BY <1>3, <1>10, <2>1 DEF Ret
  <2>3. bad \cap UnsafeSites # {}
    BY <1>10 DEF UnsafeSites
  <2> QED
    BY <1>6, <1>10, <1>11, <2>2, <2>3 DEF op, s, Leaves, Error
<1>9. CASE "readinode" \notin bad /\ lk.rc = "ok" /\ "link.source_inode" \notin bad
  <2>1. w1 = Ret(h, "ok")
    BY <1>2, <1>4, <1>5, <1>9, DoWrite
  <2>2. w1.fs = h /\ w1.rc = "ok"
    BY <2>1 DEF Ret
  <2>3. Cardinality(Refs(lk.fs, s)) <= src.links
    <3>1. Cardinality(Refs(f, s)) <= f.inode[s].links
      BY <1>0, <1>1, NoExcess DEF Cap
    <3>2. lk.fs \in FileSystem
      BY <1>6, <1>9, GoodTyped
    <3>3. Cardinality(Refs(f, s)) \in Nat /\ Cardinality(Refs(lk.fs, s)) \in Nat
      BY <1>0, <3>2, RefsFinite
    <3> QED
      BY <1>2, <1>5, <1>6, <1>9, <3>1, <3>3
  <2>4. /\ Good(h, s)
        /\ Live(h) = Live(f) /\ Dirs(h) = Dirs(f)
        /\ h.inode[s] = src /\ h.data = lk.fs.data
        /\ \A j \in Ino : /\ j # s => h.inode[j] = lk.fs.inode[j]
                          /\ Refs(h, j) \subseteq Refs(lk.fs, j)
    <3>1. lk.fs \in FileSystem
      BY <1>6, <1>9, GoodTyped
    <3>2. Cardinality(Refs(lk.fs, s)) \in Nat /\ src.links \in Nat
      BY <1>2, <1>5, <3>1, RefsFinite
    <3>3. Cardinality(Refs(lk.fs, s)) <= src.links + (IF s = s THEN 1 ELSE 0)
      BY <2>3, <3>2
    <3>4. /\ src.kind = lk.fs.inode[s].kind /\ src.links >= 1
          /\ src.blk \subseteq lk.fs.inode[s].blk
      BY <1>0, <1>2, <1>4, <1>5, <1>6
    <3> QED
      BY <1>0, <1>4, <1>6, <1>9, <3>3, <3>4, WriteGood
  <2> HIDE DEF h, w1
  <2>5. h \in FileSystem /\ lk.fs \in FileSystem
    BY <1>6, <1>9, <2>4, GoodTyped
  <2>6. Good(h, NoIno)
    <3>1. Cardinality(Refs(h, s)) <= Cardinality(Refs(lk.fs, s))
      BY <1>0, <2>4, <2>5, FewerRefs
    <3>2. Cardinality(Refs(h, s)) \in Nat /\ Cardinality(Refs(lk.fs, s)) \in Nat
      BY <2>5, RefsFinite
    <3>3. src.links \in Nat
      BY <1>2, <1>5
    <3>4. Cap(h, s) = src.links
      BY <1>0, <1>1, <1>4, <2>4 DEF Cap, IsDir
    <3>5. Cardinality(Refs(h, s)) <= Cap(h, s)
      BY <2>3, <3>1, <3>2, <3>3, <3>4
    <3> QED
      BY <1>0, <2>4, <3>5, Settle
  <2>7. /\ Good(w2.fs, NoIno)
        /\ Live(w2.fs) = Live(f) /\ Dirs(w2.fs) = Dirs(f)
        /\ w2.fs.data = lk.fs.data
        /\ \A j \in Ino \ {s} : /\ w2.fs.inode[j].kind = f.inode[j].kind
                               /\ f.inode[j].blk \subseteq w2.fs.inode[j].blk
    <3> DEFINE d2 == f.inode[d]
    <3>1. d2 \in Inode /\ d2.links >= 1
      BY <1>2
    <3> DEFINE k == ext2fs_write_inode(h, d, d2)
    <3>w. w2 = do_writeinode(h, d, d2, "link.dest_inode", bad)
      BY <2>2
    <3> HIDE DEF d2
    <3> HIDE DEF w2
    <3>2. w2 = IF "link.dest_inode" \in bad THEN Ret(h, "EIO") ELSE Ret(k, "ok")
      <4>1. do_writeinode(h, d, d2, "link.dest_inode", bad) =
              IF "link.dest_inode" \in bad THEN Ret(h, "EIO") ELSE Ret(k, "ok")
        BY <3>1, DoWrite
      <4> QED
        BY <3>w, <4>1
    <3>3. h.inode[d] = lk.fs.inode[d]
      BY <1>0, <1>1, <2>4
    <3>4. /\ d2.kind = h.inode[d].kind /\ d2.blk \subseteq h.inode[d].blk
          /\ IsDir(h, d)
      BY <1>0, <1>6, <3>3 DEF Dirs, IsDir, d2
    <3>5. d \in Live(h)
      BY <1>0, <2>4
    <3>6. /\ Good(k, NoIno)
          /\ k.data = h.data /\ Live(k) = Live(h) /\ Dirs(k) = Dirs(h)
          /\ k.inode[d] = f.inode[d]
          /\ \A j \in Ino : j # d => k.inode[j] = h.inode[j]
      BY <2>6, <3>1, <3>4, <3>5, WriteGood DEF d2
    <3> HIDE DEF k, w2
    <3>7. \A j \in Ino \ {s} : /\ h.inode[j].kind = f.inode[j].kind
                             /\ f.inode[j].blk \subseteq h.inode[j].blk
      BY <1>6, <2>4
    <3>8. w2.fs \in {h, k}
      BY <3>2 DEF Ret
    <3> QED
      BY <2>4, <2>6, <3>6, <3>7, <3>8
  <2> HIDE DEF w2
  <2>8. op.fs = w2.fs
    BY <1>3, <1>9, <2>2 DEF Ret
  <2>9. Spares(f, w2.fs, {s})
    <3> DEFINE T == {s}
    <3>1. T \cap Dirs(f) = {} /\ Live(f) \subseteq Ino
      BY <1>0, <1>1, BlocksTyped DEF Dirs, IsDir
    <3>2. Live(f) \ T \subseteq Live(w2.fs) /\ Dirs(f) \subseteq Dirs(w2.fs)
      BY <2>7
    <3>3. \A j \in Live(f) \ T : /\ w2.fs.inode[j].kind = f.inode[j].kind
                                /\ f.inode[j].blk \subseteq w2.fs.inode[j].blk
      BY <2>7, <3>1
    <3>4. \A b \in DirBlocks(f), m \in Name :
             f.data[b][m] # NoIno => w2.fs.data[b][m] = f.data[b][m]
      BY <1>11, <2>7
    <3> HIDE DEF T
    <3>5. Spares(f, w2.fs, T)
      BY <3>1, <3>2, <3>3, <3>4, DataSpares
    <3> QED
      BY <3>5 DEF T
  <2> QED
    BY <2>7, <2>8, <2>9 DEF op, s, Leaves
<1> QED
  BY <1>7, <1>8, <1>9, <1>10

-----------------------------------------------------------------------------
(* Handlers that delete *)

\* An inode written with another link count that still covers its names.
LEMMA WriteKeeps ==
    ASSUME FiniteNames, NEW f, NEW e, Good(f, e), NEW i \in Live(f), NEW r \in Inode,
           r.kind = f.inode[i].kind, r.links >= 1, r.blk = f.inode[i].blk,
           IsDir(f, i) \/ Cardinality(Refs(f, i)) <= r.links + (IF i = e THEN 1 ELSE 0),
           NEW site, NEW bad
    PROVE  LET w == do_writeinode(f, i, r, site, bad) IN
           /\ Good(w.fs, e)
           /\ Live(w.fs) = Live(f) /\ Dirs(w.fs) = Dirs(f)
           /\ \A j \in Ino : /\ w.fs.inode[j].kind = f.inode[j].kind
                             /\ w.fs.inode[j].blk = f.inode[j].blk
                             /\ j # i => w.fs.inode[j] = f.inode[j]
           /\ \A c \in Dirs(f), m \in Name, j \in Ino :
                Holds(f, c, m, j) => Holds(w.fs, c, m, j)
           /\ w.fs.inode[i] \in {r, f.inode[i]}
           /\ site \notin bad => w.rc = "ok"
           /\ w.rc \in {"ok", "EIO"}
           /\ FewerEntries(f, w.fs)
<1> DEFINE w == do_writeinode(f, i, r, site, bad)
           g == ext2fs_write_inode(f, i, r)
<1>1. w = IF site \in bad THEN Ret(f, "EIO") ELSE Ret(g, "ok")
  BY DoWrite
<1>2. /\ Good(g, e)
      /\ Live(g) = Live(f) /\ Dirs(g) = Dirs(f)
      /\ g.inode[i] = r
      /\ \A j \in Ino : j # i => g.inode[j] = f.inode[j]
      /\ \A c \in Dirs(f), m \in Name, j \in Ino :
           Holds(f, c, m, j) => Holds(g, c, m, j)
      /\ FewerEntries(f, g)
  BY WriteGood
<1> HIDE DEF w, g
<1>3. CASE site \in bad
  <2>1. w.fs = f /\ w.rc = "EIO"
    BY <1>1, <1>3 DEF Ret
  <2>2. FewerEntries(f, f)
    BY DEF FewerEntries
  <2> QED
    BY <1>3, <2>1, <2>2 DEF w
<1>4. CASE site \notin bad
  <2>1. w.fs = g /\ w.rc = "ok"
    BY <1>1, <1>4 DEF Ret
  <2> QED
    BY <1>2, <2>1 DEF w
<1> QED
  BY <1>3, <1>4

\* Other files than t have in g the names they have in f.
Keeps(f, g, t) ==
    \A c \in Dirs(f) \ {t}, m \in Name, j \in Ino \ {t} :
        Holds(f, c, m, j) => Holds(g, c, m, j)

\* g is f without the file t, or with one name of t less; the count of
\* directory d, where the name was, may be lower.
Removed(f, g, d, t) ==
    /\ Live(f) \ {t} \subseteq Live(g)
    /\ Dirs(f) \ {t} \subseteq Dirs(g)
    /\ \A j \in Ino \ {t} :
        /\ g.inode[j].kind = f.inode[j].kind
        /\ g.inode[j].blk = f.inode[j].blk
        /\ g.inode[j].links <= f.inode[j].links
        /\ j # d => g.inode[j] = f.inode[j]
    /\ Keeps(f, g, t)

\* g has file i of f, with its blocks.
Survives(f, g, i) ==
    /\ i \in Live(g)
    /\ g.inode[i].kind = f.inode[i].kind
    /\ f.inode[i].blk \subseteq g.inode[i].blk

\* What g has left of file i of f, when the names in S go: the others, and the
\* file, unless no other is left.  (Spared, told by the entries.)
Lasts(f, g, i, S) ==
    /\ \A c \in Dirs(f), m \in Name :
        Holds(f, c, m, i) /\ <<c, m>> \notin S => Holds(g, c, m, i)
    /\ \/ /\ \E c \in Dirs(f), m \in Name : Holds(f, c, m, i)
          /\ \A c \in Dirs(f), m \in Name : Holds(f, c, m, i) => <<c, m>> \in S
       \/ Survives(f, g, i)

\* g is f, or f without the entry n of directory d.
Cuts(f, g, d, n) ==
    \/ g = f
    \/ /\ Holding(g, d, n) = {}
       /\ \A i \in Live(f) : Lasts(f, g, i, {<<d, n>>})

\* What g has left of the files of f other than i, when the names in S go.
OthersLast(f, g, i, S) == \A j \in Live(f) \ {i} : Lasts(f, g, j, S)

LEMMA SparesOthers ==
    ASSUME NEW f \in FileSystem, NEW g, NEW i, Spares(f, g, {i})
    PROVE  OthersLast(f, g, i, {})
<1>1. SUFFICES ASSUME NEW j \in Live(f) \ {i} PROVE Lasts(f, g, j, {})
  BY DEF OthersLast
<1>2. j \in Ino \ {i}
  BY BlocksTyped
<1>3. Survives(f, g, j)
  BY DEF Spares, Survives
<1>4. \A c \in Dirs(f), m \in Name : Holds(f, c, m, j) => Holds(g, c, m, j)
  BY <1>2 DEF Spares
<1> QED
  BY <1>3, <1>4 DEF Lasts

LEMMA OthersThen ==
    ASSUME NEW f \in FileSystem, NEW g, NEW h, NEW i, NEW S,
           OthersLast(f, g, i, S), Spares(g, h, {i})
    PROVE  OthersLast(f, h, i, S)
<1>1. SUFFICES ASSUME NEW j \in Live(f) \ {i} PROVE Lasts(f, h, j, S)
  BY DEF OthersLast
<1>2. j \in Ino \ {i} /\ Lasts(f, g, j, S)
  BY BlocksTyped DEF OthersLast
<1>3. \A c \in Dirs(f), m \in Name :
        Holds(f, c, m, j) /\ <<c, m>> \notin S => Holds(h, c, m, j)
  <2> SUFFICES ASSUME NEW c \in Dirs(f), NEW m \in Name,
                      Holds(f, c, m, j), <<c, m>> \notin S
               PROVE  Holds(h, c, m, j)
    OBVIOUS
  <2>1. Holds(g, c, m, j) /\ c \in Dirs(g)
    BY <1>2 DEF Lasts, Holds
  <2> QED
    BY <1>2, <2>1 DEF Spares
<1>4. Survives(f, g, j) => Survives(f, h, j)
  BY <1>2 DEF Spares, Survives
<1> QED
  BY <1>2, <1>3, <1>4 DEF Lasts

\* A name leads to the inode its entry holds.
LEMMA HoldsLookup ==
    ASSUME NEW f, Once(f), NEW d \in Dirs(f), NEW n \in Name,
           NEW i \in Ino, Holds(f, d, n, i)
    PROVE  ext2fs_namei(f, d, n) = i
<1> DEFINE b == CHOOSE c \in Holding(f, d, n) : TRUE
<1>1. PICK c \in f.inode[d].blk : f.data[c][n] = i
  BY DEF Holds
<1>2. c \in Holding(f, d, n)
  BY <1>1, RootAssumption DEF Holding
<1>3. b \in Holding(f, d, n) /\ ext2fs_namei(f, d, n) = f.data[b][n]
  BY <1>2 DEF ext2fs_namei
<1> HIDE DEF b
<1> QED
  BY <1>1, <1>2, <1>3 DEF Once

\* Where entry n of directory d is cut, it is the name of one file only.
LEMMA CutsOthers ==
    ASSUME FiniteNames, NEW f, Good(f, NoIno), NEW g, NEW d \in Dirs(f),
           NEW n \in Name, Cuts(f, g, d, n)
    PROVE  Spares(f, g, {ext2fs_namei(f, d, n)})
<1> DEFINE t == ext2fs_namei(f, d, n)
<1>0. f \in FileSystem /\ Once(f) /\ Live(f) \subseteq Ino
  BY BlocksTyped DEF Good
<1>1. CASE g = f
  BY <1>1, SparesSame
<1>2. CASE g # f
  <2>1. \A i \in Live(f) : Lasts(f, g, i, {<<d, n>>})
    BY <1>2 DEF Cuts
  <2>2. \A j \in Ino : Holds(f, d, n, j) => j = t
    BY <1>0, HoldsLookup
  <2> HIDE DEF t
  <2>3. \A c \in Dirs(f), m \in Name, j \in Ino \ {t} : Holds(f, c, m, j) => Holds(g, c, m, j)
    <3> SUFFICES ASSUME NEW c \in Dirs(f), NEW m \in Name, NEW j \in Ino \ {t},
                        Holds(f, c, m, j)
                 PROVE  Holds(g, c, m, j)
      OBVIOUS
    <3>1. <<c, m>> # <<d, n>>
      BY <2>2
    <3>2. j \in Live(f)
      <4>1. PICK b \in f.inode[c].blk : f.data[b][m] = j
        BY DEF Holds
      <4>2. b \in DirBlocks(f)
        BY DEF DirBlocks
      <4> QED
        BY <4>1, <4>2, RootAssumption DEF Good
    <3> QED
      BY <2>1, <3>1, <3>2 DEF Lasts
  <2>4. ASSUME NEW j \in Live(f) \ {t} PROVE Survives(f, g, j)
    <3>1. Lasts(f, g, j, {<<d, n>>})
      BY <2>1
    <3>2. ASSUME NEW c \in Dirs(f), NEW m \in Name, Holds(f, c, m, j)
          PROVE  <<c, m>> \notin {<<d, n>>}
      BY <1>0, <2>2, <3>2
    <3> QED
      BY <3>1, <3>2 DEF Lasts
  <2>5. Spares(f, g, {t})
    BY <2>3, <2>4 DEF Spares, Survives
  <2> QED
    BY <2>5 DEF t
<1> QED
  BY <1>1, <1>2

\* The entry goes first, then the file t it led to, or one of its links.
LEMMA CutThen ==
    ASSUME NEW f \in FileSystem, NEW cut, NEW g, NEW d \in Dirs(f), NEW n \in Name,
           NEW t \in Ino, Holds(f, d, n, t),
           cut.inode = f.inode, Dirs(cut) = Dirs(f), Holding(cut, d, n) = {},
           \A c \in Dirs(f), m \in Name, j \in Ino :
               (c # d \/ m # n) /\ Holds(f, c, m, j) => Holds(cut, c, m, j),
           \A j \in Live(f) \ {t} : Survives(f, g, j),
           \A c \in Dirs(f), m \in Name, j \in Ino :
               c # t /\ Holds(cut, c, m, j) => Holds(g, c, m, j),
           \A m \in Name, j \in Ino : ~ Holds(f, t, m, j),
           Refs(cut, t) = {} \/ Survives(f, g, t),
           d \in Dirs(g), FewerEntries(cut, g)
    PROVE  Cuts(f, g, d, n)
<1>1. Live(f) \subseteq Ino
  BY BlocksTyped
<1>2. Holding(g, d, n) = {}
  BY DEF FewerEntries
<1>3. ASSUME NEW c \in Dirs(f), NEW m \in Name, NEW j \in Ino,
             Holds(f, c, m, j), <<c, m>> # <<d, n>>
      PROVE  Holds(cut, c, m, j) /\ Holds(g, c, m, j)
  <2>1. c # d \/ m # n
    BY <1>3
  <2>2. c # t
    BY <1>3
  <2> QED
    BY <1>3, <2>1, <2>2
<1>4. ASSUME NEW j \in Live(f) PROVE Lasts(f, g, j, {<<d, n>>})
  <2>1. j \in Ino
    BY <1>1
  <2>2. \A c \in Dirs(f), m \in Name :
          Holds(f, c, m, j) /\ <<c, m>> \notin {<<d, n>>} => Holds(g, c, m, j)
    BY <1>3, <2>1
  <2>3. CASE j # t
    BY <2>2, <2>3 DEF Lasts
  <2>4. CASE j = t /\ Refs(cut, t) = {}
    <3>1. \A c \in Dirs(f), m \in Name : Holds(f, c, m, j) => <<c, m>> \in {<<d, n>>}
      <4> SUFFICES ASSUME NEW c \in Dirs(f), NEW m \in Name, Holds(f, c, m, j),
                          <<c, m>> # <<d, n>>
                   PROVE  FALSE
        OBVIOUS
      <4>1. Holds(cut, c, m, t)
        BY <1>3, <2>1, <2>4
      <4> QED
        BY <2>4, <4>1, HoldsRef
    <3> QED
      BY <2>2, <2>4, <3>1 DEF Lasts
  <2>5. CASE j = t /\ Refs(cut, t) # {}
    BY <2>2, <2>5 DEF Lasts
  <2> QED
    BY <2>3, <2>4, <2>5
<1> QED
  BY <1>2, <1>4 DEF Cuts

LEMMA OpUnlinkGood ==
    ASSUME FiniteNames, NEW f, Good(f, NoIno), NEW d \in Dirs(f), NEW n \in Name,
           NEW bad
    PROVE  LET u == op_unlink(f, d, n, bad) IN
           /\ Good(u.fs, NoIno)
           /\ Keeps(f, u.fs, ext2fs_namei(f, d, n))
           /\ Cuts(f, u.fs, d, n)
           /\ u.rc = "ok" =>
                /\ Removed(f, u.fs, d, ext2fs_namei(f, d, n))
                /\ d \in Dirs(u.fs) => Holding(u.fs, d, n) = {}
<1> DEFINE t    == ext2fs_namei(f, d, n)
           cut  == ext2fs_unlink(f, d, n, t)
           w1   == do_writeinode(cut, d, f.inode[d], "unlink.parent", bad)
           less == [f.inode[t] EXCEPT !.links = IF @ > 0 THEN @ - 1 ELSE 0]
           w2   == do_writeinode(w1.fs, t, less, "unlink.inode", bad)
           u    == op_unlink(f, d, n, bad)
<1>0. f \in FileSystem /\ d \in Live(f) /\ d \in Ino
  BY BlocksTyped DEF Good
<1>1. CASE "readinode" \in bad \/ t = NoIno \/ IsDir(f, t) \/ "unlink.dirent" \in bad
  <2>0. Keeps(f, f, t) /\ Cuts(f, f, d, n)
    BY DEF Keeps, Cuts
  <2>1. u.fs = f /\ u.rc # "ok"
    BY <1>1 DEF op_unlink, Ret
  <2> HIDE DEF u
  <2> QED
    BY <2>0, <2>1 DEF u
<1>2. CASE ~ ("readinode" \in bad \/ t = NoIno \/ IsDir(f, t) \/ "unlink.dirent" \in bad)
  <2>1. u = IF w1.rc # "ok" THEN w1 ELSE w2
    BY <1>2 DEF op_unlink
  <2>2. Holds(f, d, n, t) /\ t \in Live(f) /\ t \in Ino /\ t # Root /\ ~ IsDir(f, t)
    BY <1>2, LookupHolds
  <2>3. /\ f.inode[t] \in Inode /\ f.inode[t].links \in Nat /\ f.inode[t].links >= 1
        /\ f.inode[d].links >= 1
    BY <1>0, <2>2, LiveLinks
  <2> HIDE DEF t, u
  <2>4. /\ less \in Inode /\ less.kind = f.inode[t].kind /\ less.blk = f.inode[t].blk
        /\ less.links = f.inode[t].links - 1
    <3> DEFINE r == f.inode[t]
               k == IF r.links > 0 THEN r.links - 1 ELSE 0
    <3>1. less = [r EXCEPT !.links = k]
      OBVIOUS
    <3>2. k = r.links - 1
      BY <2>3
    <3>3. less \in Inode
      BY <2>3, LinksTyped
    <3> HIDE DEF less, k
    <3>4. less.kind = r.kind /\ less.blk = r.blk /\ less.links = k
      BY <2>3, <3>1, Relinked
    <3> QED
      BY <3>2, <3>3, <3>4
  <2> HIDE DEF less
  <2>5. NoIno \in {t, NoIno}
    OBVIOUS
  <2>6. /\ Good(cut, NoIno)
        /\ cut.inode = f.inode
        /\ Live(cut) = Live(f) /\ Dirs(cut) = Dirs(f)
        /\ Cardinality(Refs(cut, t)) = Cardinality(Refs(f, t)) - 1
        /\ \A c \in Dirs(f), m \in Name, j \in Ino :
             j # t /\ Holds(f, c, m, j) => Holds(cut, c, m, j)
        /\ \A c \in Dirs(f), m \in Name, j \in Ino :
             (c # d \/ m # n) /\ Holds(f, c, m, j) => Holds(cut, c, m, j)
        /\ Holding(cut, d, n) = {}
    BY <2>2, <2>5, UnlinkGood
  <2> HIDE DEF cut
  <2>7. cut \in FileSystem
    BY <2>6, GoodTyped
  <2>8. w1.fs = cut
    <3>1. do_writeinode(cut, d, cut.inode[d], "unlink.parent", bad).fs = cut
      BY <1>0, <2>3, <2>6, <2>7, WriteSame
    <3> QED
      BY <2>6, <3>1
  <2> HIDE DEF w1
  <2>9. Cardinality(Refs(cut, t)) <= less.links
    <3>1. Cardinality(Refs(f, t)) <= f.inode[t].links
      BY <2>2, NoExcess DEF Cap
    <3>2. Cardinality(Refs(f, t)) \in Nat
      BY <1>0, RefsFinite
    <3> QED
      BY <2>3, <2>4, <2>6, <3>1, <3>2
  <2>13. \A m \in Name, j \in Ino : ~ Holds(f, t, m, j)
    BY <2>2 DEF Holds, Dirs, IsDir
  <2>14. FewerEntries(cut, cut)
    BY DEF FewerEntries
  <2>15. Cuts(f, cut, d, n)
    <3>1. \A j \in Live(f) : Survives(f, cut, j)
      BY <2>6 DEF Survives
    <3> QED
      BY <1>0, <2>2, <2>6, <2>13, <2>14, <3>1, CutThen
  <2>10. /\ Good(w2.fs, NoIno)
         /\ Cuts(f, w2.fs, d, n)
         /\ w2.rc = "ok" => Removed(f, w2.fs, d, t)
         /\ w2.rc = "ok" => FewerEntries(cut, w2.fs)
         /\ Keeps(f, w2.fs, t)
    <3>1. CASE less.links < 1
      <4> DEFINE k == do_killfilebyinode(cut, t, less, bad)
      <4>1. w2 = k
        BY <2>8, <3>1 DEF do_writeinode
      <4>2. Refs(cut, t) = {}
        <5>1. Cardinality(Refs(cut, t)) = 0
          BY <2>3, <2>4, <2>7, <2>9, <3>1, RefsFinite
        <5> QED
          BY <2>7, <5>1, NoRefs
      <4>3. /\ Good(k.fs, NoIno)
            /\ k.rc # "ok" => k.fs = cut
            /\ k.rc = "ok" =>
                 /\ Live(k.fs) = Live(cut) \ {t} /\ Dirs(k.fs) = Dirs(cut) \ {t}
                 /\ \A j \in Ino : j # t => k.fs.inode[j] = cut.inode[j]
                 /\ \A c \in Dirs(cut), m \in Name, j \in Ino :
                      c # t /\ Holds(cut, c, m, j) => Holds(k.fs, c, m, j)
                 /\ FewerEntries(cut, k.fs)
        BY <2>2, <2>4, <2>6, <4>2, KillGood
      <4> HIDE DEF k, w2
      <4>4. k.rc = "ok" => Removed(f, k.fs, d, t)
        <5> SUFFICES ASSUME k.rc = "ok" PROVE Removed(f, k.fs, d, t)
          OBVIOUS
        <5>1. \A j \in Ino : f.inode[j].links <= f.inode[j].links
          BY <1>0, WidthAssumption DEF FileSystem, Inode
        <5> QED
          BY <2>6, <4>3, <5>1 DEF Removed, Keeps
      <4>5. k.rc # "ok" => Keeps(f, k.fs, t)
        BY <2>6, <4>3 DEF Keeps
      <4>6. Cuts(f, k.fs, d, n)
        <5>1. CASE k.rc # "ok"
          BY <2>15, <4>3, <5>1
        <5>2. CASE k.rc = "ok"
          <6>1. d \in Dirs(k.fs) /\ FewerEntries(cut, k.fs)
            BY <2>2, <2>6, <4>3, <5>2 DEF Dirs, IsDir
          <6>2. \A j \in Live(f) \ {t} : Survives(f, k.fs, j)
            BY <1>0, <2>6, <4>3, <5>2, BlocksTyped DEF Survives
          <6>3. \A c \in Dirs(f), m \in Name, j \in Ino :
                  c # t /\ Holds(cut, c, m, j) => Holds(k.fs, c, m, j)
            BY <2>6, <4>3, <5>2
          <6>4. Refs(cut, t) = {} \/ Survives(f, k.fs, t)
            BY <4>2
          <6> QED
            BY <1>0, <2>2, <2>6, <2>13, <6>1, <6>2, <6>3, <6>4, CutThen
        <5> QED
          BY <5>1, <5>2
      <4> QED
        BY <4>1, <4>3, <4>4, <4>5, <4>6 DEF Removed
    <3>2. CASE ~ (less.links < 1)
      <4>1. less.links >= 1
        BY <2>3, <2>4, <3>2
      <4>2. /\ less.kind = cut.inode[t].kind /\ less.blk = cut.inode[t].blk
            /\ t \in Live(cut)
            /\ Cardinality(Refs(cut, t)) <= less.links + (IF t = NoIno THEN 1 ELSE 0)
        <5>1. t # NoIno
          BY <2>2, RootAssumption
        <5>2. less.links \in Nat /\ Cardinality(Refs(cut, t)) \in Nat
          BY <2>3, <2>4, <2>7, <4>1, RefsFinite
        <5> QED
          BY <2>2, <2>4, <2>6, <2>9, <5>1, <5>2
      <4>3. w2 = do_writeinode(cut, t, less, "unlink.inode", bad)
        BY <2>8
      <4> HIDE DEF w2
      <4> DEFINE v == do_writeinode(cut, t, less, "unlink.inode", bad)
      <4>4. /\ Good(v.fs, NoIno)
            /\ Live(v.fs) = Live(cut) /\ Dirs(v.fs) = Dirs(cut)
            /\ \A j \in Ino : /\ v.fs.inode[j].kind = cut.inode[j].kind
                              /\ v.fs.inode[j].blk = cut.inode[j].blk
                              /\ j # t => v.fs.inode[j] = cut.inode[j]
            /\ \A c \in Dirs(cut), m \in Name, j \in Ino :
                 Holds(cut, c, m, j) => Holds(v.fs, c, m, j)
            /\ FewerEntries(cut, v.fs)
        BY <2>4, <2>6, <4>1, <4>2, WriteKeeps
      <4> HIDE DEF v
      <4>5. Removed(f, v.fs, d, t)
        <5>1. \A j \in Ino : f.inode[j].links <= f.inode[j].links
          BY <1>0, WidthAssumption DEF FileSystem, Inode
        <5> QED
          BY <2>6, <4>4, <5>1 DEF Removed, Keeps
      <4>6. Cuts(f, v.fs, d, n)
        <5>1. d \in Dirs(v.fs)
          BY <2>6, <4>4
        <5>2. \A j \in Live(f) : Survives(f, v.fs, j)
          BY <1>0, <2>6, <4>4, BlocksTyped DEF Survives
        <5>3. \A c \in Dirs(f), m \in Name, j \in Ino :
                c # t /\ Holds(cut, c, m, j) => Holds(v.fs, c, m, j)
          BY <2>6, <4>4
        <5> QED
          BY <1>0, <2>2, <2>6, <2>13, <4>4, <5>1, <5>2, <5>3, CutThen
      <4> QED
        BY <4>3, <4>4, <4>5, <4>6 DEF v, Removed
    <3> QED
      BY <3>1, <3>2
  <2> HIDE DEF w2
  <2>11. w2.rc = "ok" /\ d \in Dirs(w2.fs) => Holding(w2.fs, d, n) = {}
    BY <2>6, <2>10 DEF FewerEntries
  <2>12. Keeps(f, cut, t)
    BY <2>6 DEF Keeps
  <2> QED
    BY <2>1, <2>6, <2>8, <2>10, <2>11, <2>12, <2>15 DEF u, t
<1> QED
  BY <1>1, <1>2

LEMMA OpRmdirGood ==
    ASSUME FiniteNames, NEW f, Good(f, NoIno), NEW d \in Dirs(f), NEW n \in Name,
           NEW bad
    PROVE  LET u == op_rmdir(f, d, n, bad) IN
           /\ Good(u.fs, NoIno)
           /\ Keeps(f, u.fs, ext2fs_namei(f, d, n))
           /\ Cuts(f, u.fs, d, n)
           /\ u.rc = "ok" =>
                /\ Removed(f, u.fs, d, ext2fs_namei(f, d, n))
                /\ d \in Dirs(u.fs) => Holding(u.fs, d, n) = {}
<1> DEFINE t    == ext2fs_namei(f, d, n)
           cut  == ext2fs_unlink(f, d, n, t)
           k    == do_killfilebyinode(cut, t, f.inode[t], bad)
           less == [k.fs.inode[d] EXCEPT !.links = IF @ > 1 THEN @ - 1 ELSE @]
           w    == do_writeinode(k.fs, d, less, "rmdir.parent", bad)
           u    == op_rmdir(f, d, n, bad)
<1>0. f \in FileSystem /\ d \in Live(f) /\ d \in Ino /\ IsDir(f, d)
  BY BlocksTyped DEF Good, Dirs, IsDir
<1>1. CASE "readinode" \in bad \/ t = NoIno \/ ~ IsDir(f, t) \/ t = Root
           \/ ~ EmptyDir(f, t) \/ "rmdir.dirent" \in bad
  <2>0. Keeps(f, f, t) /\ Cuts(f, f, d, n)
    BY DEF Keeps, Cuts
  <2>1. u.fs = f /\ u.rc # "ok"
    BY <1>1 DEF op_rmdir, do_check_empty_dir, Ret
  <2> HIDE DEF u
  <2> QED
    BY <2>0, <2>1 DEF u
<1>2. CASE ~ ("readinode" \in bad \/ t = NoIno \/ ~ IsDir(f, t) \/ t = Root
              \/ ~ EmptyDir(f, t) \/ "rmdir.dirent" \in bad)
  <2>1. u = IF k.rc # "ok" THEN k ELSE w
    BY <1>2 DEF op_rmdir, do_check_empty_dir
  <2>2. Holds(f, d, n, t) /\ t \in Live(f) /\ t \in Ino /\ t # Root /\ IsDir(f, t)
    BY <1>2, LookupHolds
  <2>3. EmptyDir(f, t) /\ t # NoIno
    BY <1>2
  <2> HIDE DEF t, u
  <2>4. t # d
    BY <2>2, <2>3 DEF Holds, EmptyDir, Entries
  <2>5. /\ f.inode[t] \in Inode /\ f.inode[d].links \in Nat /\ f.inode[d].links >= 1
        /\ f.inode[d] \in Inode
    BY <1>0, <2>2, LiveLinks
  <2>6. NoIno \in {t, NoIno}
    OBVIOUS
  <2>7. /\ Good(cut, NoIno)
        /\ cut.inode = f.inode
        /\ Live(cut) = Live(f) /\ Dirs(cut) = Dirs(f)
        /\ Cardinality(Refs(cut, t)) = Cardinality(Refs(f, t)) - 1
        /\ \A c \in Dirs(f), m \in Name, j \in Ino :
             j # t /\ Holds(f, c, m, j) => Holds(cut, c, m, j)
        /\ \A c \in Dirs(f), m \in Name, j \in Ino :
             (c # d \/ m # n) /\ Holds(f, c, m, j) => Holds(cut, c, m, j)
        /\ Holding(cut, d, n) = {}
    BY <2>2, <2>6, UnlinkGood
  <2> HIDE DEF cut
  <2>8. Refs(cut, t) = {}
    <3>1. Cardinality(Refs(f, t)) <= 1
      BY <2>2, NoExcess DEF Cap
    <3>2. cut \in FileSystem
      BY <2>7, GoodTyped
    <3>3. Cardinality(Refs(f, t)) \in Nat /\ Cardinality(Refs(cut, t)) \in Nat
      BY <1>0, <3>2, RefsFinite
    <3>4. Cardinality(Refs(cut, t)) = 0
      BY <2>7, <3>1, <3>3
    <3> QED
      BY <3>2, <3>4, NoRefs
  <2>9. /\ Good(k.fs, NoIno)
        /\ k.rc # "ok" => k.fs = cut
        /\ k.rc = "ok" =>
             /\ Live(k.fs) = Live(cut) \ {t} /\ Dirs(k.fs) = Dirs(cut) \ {t}
             /\ \A j \in Ino : j # t => k.fs.inode[j] = cut.inode[j]
             /\ \A c \in Dirs(cut), m \in Name, j \in Ino :
                  c # t /\ Holds(cut, c, m, j) => Holds(k.fs, c, m, j)
             /\ FewerEntries(cut, k.fs)
    BY <2>2, <2>5, <2>7, <2>8, KillGood
  <2> HIDE DEF k
  <2>12. \A m \in Name, j \in Ino : ~ Holds(f, t, m, j)
    BY <2>3, RootAssumption DEF Holds, EmptyDir, Entries
  <2>10. CASE k.rc # "ok"
    <3>1. Keeps(f, k.fs, t)
      BY <2>7, <2>9, <2>10 DEF Keeps
    <3>2. FewerEntries(cut, cut)
      BY DEF FewerEntries
    <3>3. \A j \in Live(f) : Survives(f, cut, j)
      BY <2>7 DEF Survives
    <3>4. Cuts(f, cut, d, n)
      BY <1>0, <2>2, <2>7, <2>12, <3>2, <3>3, CutThen
    <3> QED
      BY <2>1, <2>9, <2>10, <3>1, <3>4 DEF u, t
  <2>11. CASE k.rc = "ok"
    <3>1. k.fs.inode[d] = f.inode[d] /\ d \in Live(k.fs) /\ IsDir(k.fs, d)
      BY <1>0, <2>4, <2>7, <2>9, <2>11 DEF IsDir
    <3>2. /\ less \in Inode /\ less.kind = f.inode[d].kind /\ less.blk = f.inode[d].blk
          /\ less.links = IF f.inode[d].links > 1 THEN f.inode[d].links - 1
                          ELSE f.inode[d].links
      BY <2>5, <3>1, LinksTyped DEF Inode
    <3>3. less.links >= 1 /\ less.links <= f.inode[d].links
      BY <2>5, <3>2
    <3>4. less.kind = k.fs.inode[d].kind /\ less.blk = k.fs.inode[d].blk
      BY <3>1, <3>2
    <3> HIDE DEF less
    <3>5. /\ Good(w.fs, NoIno)
          /\ Live(w.fs) = Live(k.fs) /\ Dirs(w.fs) = Dirs(k.fs)
          /\ \A j \in Ino : /\ w.fs.inode[j].kind = k.fs.inode[j].kind
                            /\ w.fs.inode[j].blk = k.fs.inode[j].blk
                            /\ j # d => w.fs.inode[j] = k.fs.inode[j]
          /\ \A c \in Dirs(k.fs), m \in Name, j \in Ino :
               Holds(k.fs, c, m, j) => Holds(w.fs, c, m, j)
          /\ w.fs.inode[d] \in {less, k.fs.inode[d]}
          /\ FewerEntries(k.fs, w.fs)
      BY <2>9, <3>1, <3>2, <3>3, <3>4, WriteKeeps
    <3> HIDE DEF w
    <3>6. Removed(f, w.fs, d, t)
      <4>1. \A j \in Ino : f.inode[j].links <= f.inode[j].links
        BY <1>0, WidthAssumption DEF FileSystem, Inode
      <4>2. w.fs.inode[d].links <= f.inode[d].links
        BY <1>0, <3>1, <3>3, <3>5, <4>1
      <4>3. \A j \in Ino \ {t} :
              /\ w.fs.inode[j].kind = f.inode[j].kind
              /\ w.fs.inode[j].blk = f.inode[j].blk
              /\ j # d => w.fs.inode[j] = f.inode[j]
        BY <2>7, <2>9, <2>11, <3>5
      <4>4. \A j \in Ino \ {t} : w.fs.inode[j].links <= f.inode[j].links
        BY <4>1, <4>2, <4>3
      <4>5. /\ Live(f) \ {t} \subseteq Live(w.fs)
            /\ Dirs(f) \ {t} \subseteq Dirs(w.fs)
        BY <2>7, <2>9, <2>11, <3>5
      <4>6. Keeps(f, w.fs, t)
        BY <2>7, <2>9, <2>11, <3>5 DEF Keeps
      <4> QED
        BY <4>3, <4>4, <4>5, <4>6 DEF Removed
    <3>7. d \in Dirs(w.fs) => Holding(w.fs, d, n) = {}
      BY <2>7, <2>9, <2>11, <3>5 DEF FewerEntries
    <3>8. Cuts(f, w.fs, d, n)
      <4>1. d \in Dirs(w.fs) /\ \A j \in Live(f) \ {t} : Survives(f, w.fs, j)
        BY <1>0, <2>4, <3>6, BlocksTyped DEF Removed, Survives
      <4>2. \A c \in Dirs(f), m \in Name, j \in Ino :
              c # t /\ Holds(cut, c, m, j) => Holds(w.fs, c, m, j)
        BY <2>7, <2>9, <2>11, <3>5
      <4>3. FewerEntries(cut, w.fs)
        BY <2>9, <2>11, <3>5 DEF FewerEntries
      <4>4. Refs(cut, t) = {} \/ Survives(f, w.fs, t)
        BY <2>8
      <4> QED
        BY <1>0, <2>2, <2>7, <2>12, <4>1, <4>2, <4>3, <4>4, CutThen
    <3> QED
      BY <2>1, <2>11, <3>5, <3>6, <3>7, <3>8 DEF u, t, Removed
  <2> QED
    BY <2>10, <2>11
<1> QED
  BY <1>1, <1>2

-----------------------------------------------------------------------------
(* Rename *)

LEMMA DotdotGood ==
    ASSUME NEW f, NEW e, Good(f, e), NEW i \in Ino, NEW d \in Ino
    PROVE  LET g == do_fix_dotdot(f, i, d) IN
           /\ Good(g, e)
           /\ g.inode = f.inode /\ Live(g) = Live(f) /\ Dirs(g) = Dirs(f)
           /\ \A c \in Dirs(f), m \in Name, j \in Ino :
                Holds(f, c, m, j) => Holds(g, c, m, j)
<1> DEFINE g == do_fix_dotdot(f, i, d)
<1>0. f \in FileSystem
  BY DEF Good
<1>1. g \in FileSystem
  BY <1>0 DEF do_fix_dotdot, FileSystem
<1>2. g.inode = f.inode /\ g.imap = f.imap /\ g.bmap = f.bmap /\ g.data = f.data
  BY <1>0 DEF do_fix_dotdot, FileSystem
<1> HIDE DEF g
<1>3. Live(g) = Live(f)
  BY <1>2 DEF Live
<1>4. Dirs(g) = Dirs(f)
  BY <1>2, <1>3 DEF Dirs
<1>5. DirBlocks(g) = DirBlocks(f)
  BY <1>2, <1>4 DEF DirBlocks
<1>6. \A j \in Ino : Refs(g, j) = Refs(f, j)
  BY <1>2, <1>5 DEF Refs
<1>7. \A j \in Ino : Cap(g, j) = Cap(f, j)
  BY <1>2, <1>3 DEF Cap, IsDir
<1>8. Disjoint(g)
  BY <1>2, <1>3 DEF Disjoint, Good
<1>9. Once(g)
  BY <1>2, <1>4 DEF Good, Once, Holding
<1>11. FreeUnlinked(g)
  BY <1>2 DEF Good, FreeUnlinked
<1>10. Good(g, e)
  BY <1>1, <1>2, <1>3, <1>4, <1>5, <1>6, <1>7, <1>8, <1>9, <1>11 DEF Good
<1> QED
  BY <1>2, <1>3, <1>4, <1>10 DEF Holds, g

\* A file keeps its name in the old place until the new one, and the counts
\* that go with it, are written.
LEMMA MoveEntryGood ==
    ASSUME FiniteNames, NEW f, Good(f, NoIno), NEW sd \in Dirs(f), NEW sn \in Name,
           NEW td \in Dirs(f), NEW tn \in Name, NEW si \in Live(f), si # Root, si # td,
           Holds(f, sd, sn, si), IsDir(f, si) => LinkRoom(f, td),
           NEW d_src \in Inode, d_src.kind = f.inode[sd].kind, d_src.links >= 1,
           d_src.blk = f.inode[sd].blk,
           NEW bad, Holding(f, td, tn) = {},
           sd # td \/ sn # tn
    PROVE  LET mv == MoveEntry(f, sd, sn, d_src, si, f.inode[si], td, tn, bad) IN
           /\ Leaves(mv, si, bad) /\ Refs(mv.fs, si) # {}
           /\ Spares(f, mv.fs, {si})
           /\ Holding(mv.fs, td, tn) = {} \/ Holds(mv.fs, td, tn, si)
<1> DEFINE src    == f.inode[si]
           lk     == AddEntry(f, td, tn, si, bad)
           across == src.kind = "dir" /\ sd # td
           d_dest == [lk.fs.inode[td] EXCEPT
                        !.links = IF across THEN (@ + 1) % LinkMod ELSE @]
           less   == [d_src EXCEPT !.links = IF @ > 1 THEN @ - 1 ELSE @]
           w1     == IF across
                     THEN do_writeinode(lk.fs, sd, less, "rename.src_parent", bad)
                     ELSE lk
           h      == IF across THEN do_fix_dotdot(w1.fs, si, td) ELSE w1.fs
           w2     == do_writeinode(h, td, d_dest, "rename.dest_parent", bad)
           w3     == do_writeinode(w2.fs, si, src, "rename.source", bad)
           last   == ext2fs_unlink(w3.fs, sd, sn, si)
           mv     == MoveEntry(f, sd, sn, d_src, si, f.inode[si], td, tn, bad)
<1>0. /\ f \in FileSystem /\ sd \in Live(f) /\ sd \in Ino /\ td \in Live(f) /\ td \in Ino
      /\ si \in Ino /\ IsDir(f, sd) /\ IsDir(f, td)
  BY BlocksTyped DEF Good, Dirs, IsDir
<1>1. /\ src \in Inode /\ src.links \in Nat /\ src.links >= 1
      /\ f.inode[td].links \in Nat /\ f.inode[td].links >= 1
  BY <1>0, LiveLinks
<1>2. mv = IF lk.rc # "ok" THEN lk
           ELSE IF w1.rc # "ok" THEN Ret(w1.fs, "EIO")
           ELSE IF across /\ "rename.dotdot" \in bad THEN Ret(w1.fs, "EIO")
           ELSE IF w2.rc # "ok" THEN w2
           ELSE IF w3.rc # "ok" THEN w3
           ELSE IF "rename.dirent" \in bad THEN Ret(w3.fs, "EIO")
           ELSE Ret(last, "ok")
  BY DEF MoveEntry
<1>3. /\ lk.rc # "ok" => Good(lk.fs, NoIno)
      /\ lk.rc = "ok" => Good(lk.fs, si) /\ Holds(lk.fs, td, tn, si)
      /\ Live(lk.fs) = Live(f) /\ Dirs(lk.fs) = Dirs(f)
      /\ \A j \in Ino : /\ lk.fs.inode[j].kind = f.inode[j].kind
                        /\ lk.fs.inode[j].links = f.inode[j].links
                        /\ j # td => lk.fs.inode[j] = f.inode[j]
      /\ Holds(lk.fs, sd, sn, si)
  BY <1>0, AddEntryGood
<1>7. lk.rc # "ok" => Holding(lk.fs, td, tn) = {}
  BY <1>0, AddEntryGood
<1>6. Spares(f, lk.fs, {si})
  BY <1>0, AddEntrySpares
<1> HIDE DEF mv, lk
<1>4. CASE lk.rc # "ok"
  <2>1. mv = lk
    BY <1>2, <1>4
  <2> QED
    BY <1>3, <1>4, <1>6, <1>7, <2>1, HoldsRef DEF mv, Leaves
<1>5. CASE lk.rc = "ok"
  <2>1. lk.fs \in FileSystem
    BY <1>3, <1>5, GoodTyped
  <2>2. /\ lk.fs.inode[td] \in Inode /\ lk.fs.inode[td].kind = "dir"
        /\ lk.fs.inode[td].links = f.inode[td].links
    BY <1>0, <1>3, <2>1, LiveLinks DEF IsDir
  <2>3. /\ less \in Inode /\ less.kind = d_src.kind /\ less.blk = d_src.blk
        /\ less.links >= 1
    <3> DEFINE k == IF d_src.links > 1 THEN d_src.links - 1 ELSE d_src.links
    <3>1. less = [d_src EXCEPT !.links = k]
      OBVIOUS
    <3>2. d_src.links \in Nat
      BY WidthAssumption DEF Inode
    <3>3. k >= 1
      BY <3>2
    <3>4. less \in Inode
      BY LinksTyped
    <3> HIDE DEF less, k
    <3>5. less.kind = d_src.kind /\ less.blk = d_src.blk /\ less.links = k
      BY <3>1, Relinked
    <3> QED
      BY <3>3, <3>4, <3>5
  <2>4. /\ d_dest \in Inode /\ d_dest.kind = "dir" /\ d_dest.blk = lk.fs.inode[td].blk
        /\ d_dest.links >= 1
    <3>1. across => f.inode[td].links + 1 \in 0 .. LinkMod - 1
      BY <1>1, WidthAssumption DEF LinkRoom, IsDir
    <3>2. across => (f.inode[td].links + 1) % LinkMod = f.inode[td].links + 1
      BY <3>1, WidthAssumption
    <3> DEFINE s == IF across THEN (lk.fs.inode[td].links + 1) % LinkMod
                              ELSE lk.fs.inode[td].links
    <3>3. d_dest = [lk.fs.inode[td] EXCEPT !.links = s]
      OBVIOUS
    <3>4. /\ s = IF across THEN f.inode[td].links + 1 ELSE f.inode[td].links
          /\ s \in 0 .. LinkMod - 1 /\ s >= 1
      <4>1. f.inode[td].links \in 0 .. LinkMod - 1
        BY <2>2 DEF Inode
      <4>2. s = IF across THEN f.inode[td].links + 1 ELSE f.inode[td].links
        BY <2>2, <3>2
      <4> HIDE DEF s
      <4> QED
        BY <1>1, <3>1, <4>1, <4>2
    <3> HIDE DEF s, d_dest
    <3>5. d_dest \in Inode
      BY <2>2, <3>3, <3>4 DEF Inode
    <3>6. d_dest.kind = "dir" /\ d_dest.blk = lk.fs.inode[td].blk /\ d_dest.links = s
      BY <2>2, <3>3, Relinked
    <3> QED
      BY <3>4, <3>5, <3>6
  <2> HIDE DEF less, d_dest
  <2>5. /\ Good(w1.fs, si) /\ Holds(w1.fs, sd, sn, si)
        /\ w1.rc # "ok" => w1.rc = "EIO" /\ "rename.src_parent" \in bad
        /\ Good(h, si)
        /\ Live(h) = Live(f) /\ Dirs(h) = Dirs(f)
        /\ \A j \in Ino : /\ h.inode[j].kind = f.inode[j].kind
                          /\ h.inode[j].blk = lk.fs.inode[j].blk
                          /\ j # sd => h.inode[j] = lk.fs.inode[j]
        /\ h.inode[td] = lk.fs.inode[td]
        /\ Holds(h, sd, sn, si) /\ Holds(h, td, tn, si)
        /\ Holds(w1.fs, td, tn, si)
        /\ Spares(f, w1.fs, {si}) /\ Spares(f, h, {si})
    <3>1. CASE across
      <4>1. /\ lk.fs.inode[sd] = f.inode[sd] /\ IsDir(lk.fs, sd)
        BY <1>0, <1>3, <3>1 DEF IsDir
      <4> DEFINE v == do_writeinode(lk.fs, sd, less, "rename.src_parent", bad)
      <4>2. /\ less.kind = lk.fs.inode[sd].kind /\ less.blk = lk.fs.inode[sd].blk
            /\ sd \in Live(lk.fs)
        BY <1>0, <1>3, <2>3, <4>1
      <4>3. /\ Good(v.fs, si)
            /\ v.rc # "ok" => v.rc = "EIO" /\ "rename.src_parent" \in bad
            /\ Live(v.fs) = Live(lk.fs) /\ Dirs(v.fs) = Dirs(lk.fs)
            /\ \A j \in Ino : /\ v.fs.inode[j].kind = lk.fs.inode[j].kind
                              /\ v.fs.inode[j].blk = lk.fs.inode[j].blk
                              /\ j # sd => v.fs.inode[j] = lk.fs.inode[j]
            /\ \A c \in Dirs(lk.fs), m \in Name, j \in Ino :
                 Holds(lk.fs, c, m, j) => Holds(v.fs, c, m, j)
        BY <1>3, <1>5, <2>3, <4>1, <4>2, WriteKeeps
      <4> DEFINE x == do_fix_dotdot(v.fs, si, td)
      <4>4. w1 = v /\ h = x
        BY <3>1
      <4> HIDE DEF v, w1, h
      <4>5. /\ Good(x, si) /\ x.inode = v.fs.inode
            /\ Live(x) = Live(v.fs) /\ Dirs(x) = Dirs(v.fs)
            /\ \A c \in Dirs(v.fs), m \in Name, j \in Ino :
                 Holds(v.fs, c, m, j) => Holds(x, c, m, j)
        <5>1. Good(v.fs, si) /\ si \in Ino /\ td \in Ino
          BY <1>0, <4>3
        <5> QED
          BY <5>1, DotdotGood
      <4> HIDE DEF x
      <4>6. /\ Holds(v.fs, sd, sn, si) /\ Holds(v.fs, td, tn, si)
            /\ Holds(x, sd, sn, si) /\ Holds(x, td, tn, si)
        BY <1>0, <1>3, <1>5, <4>3, <4>5
      <4>7. Spares(lk.fs, v.fs, {si})
        BY <2>1, <4>3, SameSpares
      <4>8. v.fs \in FileSystem
        BY <4>3, GoodTyped
      <4>9. Spares(v.fs, x, {si})
        BY <4>5, <4>8, SameSpares
      <4>10. Spares(f, v.fs, {si}) /\ Spares(f, x, {si})
        BY <1>6, <4>7, <4>9, SparesThen
      <4> QED
        BY <1>0, <1>3, <3>1, <4>3, <4>4, <4>5, <4>6, <4>10
    <3>2. CASE ~ across
      <4>1. w1 = lk /\ h = lk.fs
        BY <3>2
      <4> HIDE DEF w1, h
      <4> QED
        BY <1>0, <1>3, <1>5, <1>6, <4>1
    <3> QED
      BY <3>1, <3>2
  <2> HIDE DEF w1, h
  <2>6. /\ Good(w2.fs, si)
        /\ w2.rc # "ok" => w2.rc = "EIO" /\ "rename.dest_parent" \in bad
        /\ Live(w2.fs) = Live(h) /\ Dirs(w2.fs) = Dirs(h)
        /\ \A j \in Ino : /\ w2.fs.inode[j].kind = h.inode[j].kind
                          /\ w2.fs.inode[j].blk = h.inode[j].blk
                          /\ j # td => w2.fs.inode[j] = h.inode[j]
        /\ \A c \in Dirs(h), m \in Name, j \in Ino :
             Holds(h, c, m, j) => Holds(w2.fs, c, m, j)
    <3>1. /\ d_dest.kind = h.inode[td].kind /\ d_dest.blk = h.inode[td].blk
          /\ td \in Live(h) /\ IsDir(h, td)
      BY <1>0, <2>2, <2>4, <2>5 DEF IsDir
    <3> QED
      BY <2>4, <2>5, <3>1, WriteKeeps
  <2> HIDE DEF w2
  <2>11. h \in FileSystem /\ w2.fs \in FileSystem
    BY <2>5, <2>6, GoodTyped
  <2>12. Spares(h, w2.fs, {si})
    BY <2>6, <2>11, SameSpares
  <2>13. Spares(f, w2.fs, {si})
    BY <2>5, <2>12, SparesThen
  <2>7. /\ Good(w3.fs, si)
        /\ w3.rc # "ok" => w3.rc = "EIO" /\ "rename.source" \in bad
        /\ Live(w3.fs) = Live(f) /\ Dirs(w3.fs) = Dirs(f)
        /\ Holds(w3.fs, sd, sn, si) /\ Holds(w3.fs, td, tn, si)
        /\ Spares(w2.fs, w3.fs, {si})
    <3>1. /\ src.kind = w2.fs.inode[si].kind /\ src.blk = w2.fs.inode[si].blk
          /\ si \in Live(w2.fs)
      BY <1>0, <1>3, <2>5, <2>6
    <3>2. IsDir(w2.fs, si)
            \/ Cardinality(Refs(w2.fs, si)) <= src.links + (IF si = si THEN 1 ELSE 0)
      <4> SUFFICES ASSUME ~ IsDir(w2.fs, si)
                   PROVE  Cardinality(Refs(w2.fs, si)) <= src.links + 1
        OBVIOUS
      <4>1. si # sd
        BY <1>0, <3>1 DEF IsDir
      <4>2. w2.fs.inode[si] = src
        BY <1>0, <1>3, <2>5, <2>6, <4>1
      <4>3. Cap(w2.fs, si) = src.links
        BY <3>1, <4>2 DEF Cap
      <4>4. Cardinality(Refs(w2.fs, si)) <= Cap(w2.fs, si) + (IF si = si THEN 1 ELSE 0)
        BY <1>0, <2>6 DEF Good
      <4> QED
        BY <4>3, <4>4
    <3> HIDE DEF src
    <3>3. /\ Good(w3.fs, si)
          /\ w3.rc # "ok" => w3.rc = "EIO" /\ "rename.source" \in bad
          /\ Live(w3.fs) = Live(w2.fs) /\ Dirs(w3.fs) = Dirs(w2.fs)
          /\ \A j \in Ino : /\ w3.fs.inode[j].kind = w2.fs.inode[j].kind
                            /\ w3.fs.inode[j].blk = w2.fs.inode[j].blk
          /\ \A c \in Dirs(w2.fs), m \in Name, j \in Ino :
               Holds(w2.fs, c, m, j) => Holds(w3.fs, c, m, j)
      BY <1>1, <2>6, <3>1, <3>2, WriteKeeps
    <3> HIDE DEF w3
    <3>4. Spares(w2.fs, w3.fs, {si})
      BY <2>11, <3>3, SameSpares
    <3> QED
      BY <1>0, <2>5, <2>6, <3>3, <3>4
  <2> HIDE DEF w3
  <2>14. Spares(f, w3.fs, {si})
    BY <2>7, <2>13, SparesThen
  <2>8. /\ Good(last, NoIno) /\ Refs(last, si) # {}
        /\ Spares(f, last, {si}) /\ Holds(last, td, tn, si)
    <3>1. si \in {si, NoIno} /\ si \in Live(w3.fs)
      BY <2>7
    <3>2. /\ Good(last, NoIno) /\ Holds(last, td, tn, si)
          /\ last.inode = w3.fs.inode /\ Live(last) = Live(w3.fs)
          /\ \A c \in Dirs(w3.fs), m \in Name, j \in Ino :
               j # si /\ Holds(w3.fs, c, m, j) => Holds(last, c, m, j)
      BY <1>0, <2>7, <3>1, UnlinkGood
    <3>3. Spares(w3.fs, last, {si})
      BY <3>2 DEF Spares
    <3> QED
      BY <2>14, <3>2, <3>3, HoldsRef, SparesThen
  <2> HIDE DEF last
  <2>9. CASE mv.fs = last
    BY <2>8, <2>9 DEF mv, Leaves
  <2>10. CASE mv.fs # last
    <3>1. /\ mv.fs \in {w1.fs, w2.fs, w3.fs} /\ mv.rc = "EIO"
          /\ \E site \in {"rename.src_parent", "rename.dotdot",
                          "rename.dest_parent", "rename.source",
                          "rename.dirent"} : site \in bad
      BY <1>2, <1>5, <2>5, <2>6, <2>7, <2>10 DEF Ret
    <3>2. bad \cap UnsafeSites # {}
      BY <3>1 DEF UnsafeSites
    <3>3. Holds(w2.fs, sd, sn, si) /\ Holds(w2.fs, td, tn, si)
      BY <1>0, <2>5, <2>6
    <3>4. /\ Good(mv.fs, si) /\ Holds(mv.fs, sd, sn, si)
          /\ Holds(mv.fs, td, tn, si) /\ Spares(f, mv.fs, {si})
      BY <2>5, <2>6, <2>7, <2>13, <2>14, <3>1, <3>3
    <3> QED
      BY <3>1, <3>2, <3>4, HoldsRef DEF mv, Leaves, Error
  <2> QED
    BY <2>9, <2>10
<1> QED
  BY <1>4, <1>5

\* g has the files of f but i, or all of them but for the name <<d, n>>, which is
\* free in g or that of i.
Displaces(f, g, i, d, n) ==
    \/ OthersLast(f, g, i, {})
    \/ OthersLast(f, g, i, {<<d, n>>}) /\ ext2fs_namei(g, d, n) \in {NoIno, i}

LEMMA OpRenameGood ==
    ASSUME FiniteNames, NEW f, Good(f, NoIno), NEW sd \in Dirs(f), NEW sn \in Name,
           NEW td \in Dirs(f), NEW tn \in Name, NEW bad,
           <<sd, sn>> # <<td, tn>>,
           ext2fs_namei(f, sd, sn) # NoIno,
           IsDir(f, ext2fs_namei(f, sd, sn)) =>
               td # ext2fs_namei(f, sd, sn) /\ LinkRoom(f, td)
    PROVE  LET op == op_rename(f, sd, sn, td, tn, bad) IN
           /\ Leaves(op, ext2fs_namei(f, sd, sn), bad)
           /\ Refs(op.fs, ext2fs_namei(f, sd, sn)) # {}
           /\ Displaces(f, op.fs, ext2fs_namei(f, sd, sn), td, tn)
<1> DEFINE si == ext2fs_namei(f, sd, sn)
           ti == ext2fs_namei(f, td, tn)
           rm == RemoveDest(f, td, tn, bad)
           Move(g) == MoveEntry(g, sd, sn, f.inode[sd], si, f.inode[si], td, tn, bad)
           op == op_rename(f, sd, sn, td, tn, bad)
<1>0. /\ f \in FileSystem /\ sd \in Live(f) /\ sd \in Ino /\ td \in Live(f) /\ td \in Ino
      /\ IsDir(f, sd) /\ IsDir(f, td)
  BY BlocksTyped DEF Good, Dirs, IsDir
<1>1. Holds(f, sd, sn, si) /\ si \in Live(f) /\ si \in Ino /\ si # Root
  BY LookupHolds
<1>2. /\ si # td /\ (IsDir(f, si) => LinkRoom(f, td))
      /\ sd # td \/ sn # tn
  BY <1>0
<1>3. /\ f.inode[sd] \in Inode /\ f.inode[sd].links >= 1
      /\ \A j \in Ino : f.inode[j].links \in Nat
  BY <1>0, LiveLinks DEF FileSystem, Inode
<1>4. op = IF "readinode" \in bad THEN Ret(f, "EIO")
           ELSE IF ti = NoIno THEN Move(f)
           ELSE IF si = ti THEN Ret(f, "ok")
           ELSE IF RenameRefusal(f, si, ti) # "ok" THEN Ret(f, RenameRefusal(f, si, ti))
           ELSE IF rm.rc # "ok" THEN Ret(rm.fs, "ok")
           ELSE IF "rename.reread" \in bad THEN Ret(rm.fs, "EIO")
           ELSE Move(rm.fs)
  BY DEF op_rename
<1> HIDE DEF si, ti, op
<1>8. Displaces(f, f, si, td, tn)
  BY <1>0, SparesSame, SparesOthers DEF Displaces
<1>5. ti = NoIno => /\ Leaves(Move(f), si, bad) /\ Refs(Move(f).fs, si) # {}
                    /\ Displaces(f, Move(f).fs, si, td, tn)
  <2> SUFFICES ASSUME ti = NoIno
               PROVE  /\ Leaves(Move(f), si, bad) /\ Refs(Move(f).fs, si) # {}
                      /\ Displaces(f, Move(f).fs, si, td, tn)
    OBVIOUS
  <2>1. Holding(f, td, tn) = {}
    BY Absent DEF ti
  <2>2. /\ Leaves(Move(f), si, bad) /\ Refs(Move(f).fs, si) # {}
        /\ Spares(f, Move(f).fs, {si})
    BY <1>0, <1>1, <1>2, <1>3, <2>1, MoveEntryGood
  <2> HIDE DEF Move
  <2>3. OthersLast(f, Move(f).fs, si, {})
    BY <1>0, <2>2, SparesOthers
  <2> QED
    BY <2>2, <2>3 DEF Displaces
<1>6. CASE "readinode" \in bad \/ ti = NoIno \/ si = ti \/ RenameRefusal(f, si, ti) # "ok"
  <2> HIDE DEF Move
  <2>1. op.fs = f \/ (ti = NoIno /\ op = Move(f))
    BY <1>4, <1>6 DEF Ret
  <2> QED
    BY <1>1, <1>5, <1>8, <2>1, HoldsRef DEF op, si, Leaves
<1>7. CASE ~ ("readinode" \in bad \/ ti = NoIno \/ si = ti
              \/ RenameRefusal(f, si, ti) # "ok")
  <2>1. Holds(f, td, tn, ti) /\ ti \in Live(f) /\ ti \in Ino /\ ti # Root
    BY <1>7, LookupHolds DEF ti
  <2>2. IsDir(f, ti) => EmptyDir(f, ti)
    BY <1>7 DEF RenameRefusal, do_check_empty_dir
  <2>3. ti # sd /\ ti # td
    <3>1. ti # NoIno /\ si # NoIno
      BY <1>1, <2>1, RootAssumption
    <3>2. ~ EmptyDir(f, sd) /\ ~ EmptyDir(f, td)
      BY <1>1, <2>1, <3>1 DEF Holds, EmptyDir, Entries
    <3> QED
      BY <1>0, <2>2, <3>2
  <2>4. /\ Good(rm.fs, NoIno) /\ Keeps(f, rm.fs, ti) /\ Cuts(f, rm.fs, td, tn)
        /\ rm.rc = "ok" => /\ Removed(f, rm.fs, td, ti)
                           /\ td \in Dirs(rm.fs) => Holding(rm.fs, td, tn) = {}
    BY OpUnlinkGood, OpRmdirGood DEF RemoveDest, ti
  <2> HIDE DEF rm
  <2>7. Holds(rm.fs, sd, sn, si)
    BY <1>1, <1>7, <2>3, <2>4 DEF Keeps
  <2>8. \/ rm.fs = f
        \/ Holding(rm.fs, td, tn) = {} /\ OthersLast(f, rm.fs, si, {<<td, tn>>})
    BY <2>4 DEF Cuts, OthersLast
  <2>9. Displaces(f, rm.fs, si, td, tn)
    BY <1>8, <2>8 DEF Displaces, ext2fs_namei
  <2>5. rm.rc = "ok" => /\ Leaves(Move(rm.fs), si, bad) /\ Refs(Move(rm.fs).fs, si) # {}
                        /\ Displaces(f, Move(rm.fs).fs, si, td, tn)
    <3> SUFFICES ASSUME rm.rc = "ok"
                 PROVE  /\ Leaves(Move(rm.fs), si, bad) /\ Refs(Move(rm.fs).fs, si) # {}
                        /\ Displaces(f, Move(rm.fs).fs, si, td, tn)
      OBVIOUS
    <3> DEFINE g == rm.fs
    <3>1. /\ Good(g, NoIno) /\ Removed(f, g, td, ti)
          /\ td \in Dirs(g) => Holding(g, td, tn) = {}
          /\ g = f \/ OthersLast(f, g, si, {<<td, tn>>})
      BY <2>4, <2>8
    <3> HIDE DEF g
    <3>2. si \in Ino \ {ti} /\ sd \in Dirs(f) \ {ti} /\ td \in Dirs(f) \ {ti}
      BY <1>1, <1>7, <2>3
    <3>3. sd \in Dirs(g) /\ td \in Dirs(g) /\ si \in Live(g) /\ Holds(g, sd, sn, si)
      BY <1>1, <3>1, <3>2 DEF Removed, Keeps
    <3>4. /\ f.inode[sd].kind = g.inode[sd].kind /\ f.inode[sd].blk = g.inode[sd].blk
          /\ f.inode[si] = g.inode[si]
          /\ g.inode[td].links <= f.inode[td].links
      BY <1>0, <1>2, <3>1, <3>2 DEF Removed
    <3>5. IsDir(g, si) => LinkRoom(g, td)
      <4>1. g.inode[td].links \in Nat
        <5>1. g \in FileSystem
          BY <3>1, GoodTyped
        <5> QED
          BY <1>0, <5>1 DEF FileSystem, Inode
      <4>2. IsDir(g, si) => f.inode[td].links + 1 < LinkMod
        BY <1>2, <3>4 DEF IsDir, LinkRoom
      <4> QED
        BY <1>0, <1>3, <3>4, <4>1, <4>2, WidthAssumption DEF LinkRoom
    <3> DEFINE mv == MoveEntry(g, sd, sn, f.inode[sd], si, g.inode[si], td, tn, bad)
    <3>6. /\ Leaves(mv, si, bad) /\ Refs(mv.fs, si) # {}
          /\ Spares(g, mv.fs, {si})
          /\ Holding(mv.fs, td, tn) = {} \/ Holds(mv.fs, td, tn, si)
      BY <1>1, <1>2, <1>3, <3>1, <3>3, <3>4, <3>5, MoveEntryGood
    <3>10. mv = Move(g)
      BY <3>4
    <3> HIDE DEF mv, Move
    <3>7. ext2fs_namei(mv.fs, td, tn) \in {NoIno, si}
      <4>1. CASE Holding(mv.fs, td, tn) = {}
        BY <4>1 DEF ext2fs_namei
      <4>2. CASE Holds(mv.fs, td, tn, si)
        <5>1. Once(mv.fs)
          BY <3>6 DEF Leaves, Good
        <5>2. td \in Dirs(mv.fs)
          BY <4>2 DEF Holds
        <5> QED
          BY <1>1, <4>2, <5>1, <5>2, HoldsLookup
      <4> QED
        BY <3>6, <4>1, <4>2
    <3>8. CASE g = f
      <4>1. OthersLast(f, mv.fs, si, {})
        BY <1>0, <3>6, <3>8, SparesOthers
      <4> QED
        BY <3>6, <3>10, <4>1 DEF g, Displaces
    <3>9. CASE OthersLast(f, g, si, {<<td, tn>>})
      <4>1. OthersLast(f, mv.fs, si, {<<td, tn>>})
        BY <1>0, <3>6, <3>9, OthersThen
      <4> QED
        BY <3>6, <3>7, <3>10, <4>1 DEF g, Displaces
    <3> QED
      BY <3>1, <3>8, <3>9
  <2> HIDE DEF Move
  <2>6. op.fs = rm.fs \/ (rm.rc = "ok" /\ op = Move(rm.fs))
    BY <1>4, <1>7 DEF Ret
  <2> QED
    BY <2>4, <2>5, <2>6, <2>7, <2>9, HoldsRef DEF op, si, Leaves
<1> QED
  BY <1>6, <1>7

-----------------------------------------------------------------------------
(* Contents *)

\* Blocks nobody lists may be marked free.
LEMMA ReleaseGood ==
    ASSUME NEW f, NEW e, Good(f, e), NEW S,
           \A j \in Live(f) : f.inode[j].blk \cap S = {}
    PROVE  LET g == [f EXCEPT !.bmap = @ \ S] IN
           /\ Good(g, e) /\ g.inode = f.inode /\ g.data = f.data
           /\ Live(g) = Live(f) /\ Dirs(g) = Dirs(f)
<1> DEFINE g == [f EXCEPT !.bmap = @ \ S]
<1>0. f \in FileSystem
  BY DEF Good
<1>1. g \in FileSystem
  BY <1>0 DEF FileSystem
<1>2. /\ g.inode = f.inode /\ g.imap = f.imap /\ g.data = f.data
      /\ g.bmap = f.bmap \ S
  BY <1>0 DEF FileSystem
<1> HIDE DEF g
<1>3. Live(g) = Live(f)
  BY <1>2 DEF Live
<1>4. Dirs(g) = Dirs(f)
  BY <1>2, <1>3 DEF Dirs
<1>5. DirBlocks(g) = DirBlocks(f)
  BY <1>2, <1>4 DEF DirBlocks
<1>6. \A j \in Ino : Refs(g, j) = Refs(f, j)
  BY <1>2, <1>5 DEF Refs
<1>7. \A j \in Ino : Cap(g, j) = Cap(f, j)
  BY <1>2, <1>3 DEF Cap, IsDir
<1>8. Disjoint(g)
  BY <1>2, <1>3 DEF Disjoint, Good
<1>9. Once(g)
  BY <1>2, <1>4 DEF Good, Once, Holding
<1>11. FreeUnlinked(g)
  BY <1>2 DEF Good, FreeUnlinked
<1>10. Good(g, e)
  BY <1>1, <1>2, <1>3, <1>4, <1>5, <1>6, <1>7, <1>8, <1>9, <1>11 DEF Good
<1> QED
  BY <1>2, <1>3, <1>4, <1>10 DEF g

LEMMA ClearGood ==
    ASSUME FiniteNames, NEW f, Good(f, NoIno), NEW i \in Live(f), ~ IsDir(f, i)
    PROVE  LET g == ext2fs_file_clear(f, i) IN
           Good(g, NoIno) /\ i \in Live(g) /\ Spares(f, g, {i})
<1> DEFINE r == [f.inode[i] EXCEPT !.blk = {}]
           h == ext2fs_write_inode(f, i, r)
           S == f.inode[i].blk
           g == ext2fs_file_clear(f, i)
<1>0. /\ f \in FileSystem /\ i \in Ino /\ f.inode[i] \in Inode
      /\ f.inode[i].links \in Nat /\ f.inode[i].links >= 1
      /\ i # Root /\ i # NoIno
  BY LiveLinks, RootAssumption DEF Good, Dirs, IsDir
<1>1. /\ r \in Inode /\ r.kind = f.inode[i].kind /\ r.links = f.inode[i].links
      /\ r.blk = {}
  BY <1>0 DEF Inode
<1>2. Cardinality(Refs(f, i)) <= r.links
  BY <1>0, <1>1, NoExcess DEF Cap
<1>3. Cardinality(Refs(f, i)) <= r.links + (IF i = NoIno THEN 1 ELSE 0)
  BY <1>0, <1>1, <1>2, RefsFinite
<1> HIDE DEF r
<1>4. /\ Good(h, NoIno) /\ Live(h) = Live(f) /\ Dirs(h) = Dirs(f)
      /\ h.bmap = f.bmap /\ h.data = f.data
      /\ h.inode[i] = r
      /\ \A j \in Ino : j # i => h.inode[j] = f.inode[j]
  BY <1>0, <1>1, <1>3, WriteGood
<1>5. g = [h EXCEPT !.bmap = @ \ S]
  BY <1>0 DEF ext2fs_file_clear, ext2fs_write_inode, FileSystem, r
<1> HIDE DEF h, g
<1>6. \A j \in Live(h) : h.inode[j].blk \cap S = {}
  <2> SUFFICES ASSUME NEW j \in Live(h) PROVE h.inode[j].blk \cap S = {}
    OBVIOUS
  <2>1. CASE j = i
    BY <1>1, <1>4, <2>1
  <2>2. CASE j # i
    <3>1. j \in Ino /\ j \in Live(f) /\ h.inode[j].blk = f.inode[j].blk
      BY <1>0, <1>4, <2>2, BlocksTyped
    <3> QED
      BY <2>2, <3>1 DEF Good, Disjoint
  <2> QED
    BY <2>1, <2>2
<1> HIDE DEF S
<1> DEFINE x == [h EXCEPT !.bmap = @ \ S]
<1>7. /\ Good(x, NoIno) /\ Live(x) = Live(h) /\ Dirs(x) = Dirs(h)
      /\ x.inode = h.inode /\ x.data = h.data
  BY <1>4, <1>6, ReleaseGood
<1> HIDE DEF x
<1>8. Spares(f, x, {i})
  <2>1. i \notin Dirs(f) /\ Live(f) \subseteq Ino /\ Dirs(f) \subseteq Ino
    BY <1>0, BlocksTyped DEF Dirs, IsDir
  <2>2. \A j \in Live(f) \ {i} : x.inode[j] = f.inode[j]
    BY <1>4, <1>7, <2>1
  <2>3. \A c \in Dirs(f) : x.inode[c] = f.inode[c]
    BY <1>4, <1>7, <2>1
  <2> QED
    BY <1>4, <1>7, <2>2, <2>3 DEF Spares, Holds
<1> QED
  BY <1>4, <1>5, <1>7, <1>8 DEF g, x

LEMMA OpWriteGood ==
    ASSUME FiniteNames, NEW f, Good(f, NoIno), NEW d \in Dirs(f), NEW n \in Name,
           NEW bad, ext2fs_namei(f, d, n) # NoIno
    PROVE  LET op == op_write(f, d, n, bad) IN
           Good(op.fs, NoIno) /\ Spares(f, op.fs, {ext2fs_namei(f, d, n)})
<1> DEFINE i == ext2fs_namei(f, d, n)
           o == do_open(f, d, n, bad \ {"open.atime", "readinode"})
           g == ext2fs_expand_dir(f, i)
           op == op_write(f, d, n, bad)
<1>1. i \in Live(f)
  BY LookupHolds
<1>2. o.fs = f
  BY OpenSame
<1>3. ext2fs_file_grow(f, i) = g
  BY DEF ext2fs_file_grow, ext2fs_expand_dir
<1>4. op = IF "write.data" \in bad THEN Ret(f, "EIO")
           ELSE IF FreeBlocks(f) = {} THEN Ret(f, "short")
           ELSE Ret(g, "ok")
  BY <1>2, <1>3 DEF op_write
<1> HIDE DEF i, op
<1>5. FreeBlocks(f) # {} => Good(g, NoIno) /\ Spares(f, g, {i})
  BY <1>1, ExpandGood, ExpandSpares
<1>7. Spares(f, f, {i})
  BY SparesSame
<1> HIDE DEF g
<1>6. op.fs = f \/ (FreeBlocks(f) # {} /\ op.fs = g)
  BY <1>4 DEF Ret
<1> QED
  BY <1>5, <1>6, <1>7 DEF op, i

LEMMA OpTruncateGood ==
    ASSUME FiniteNames, NEW f, Good(f, NoIno), NEW d \in Dirs(f), NEW n \in Name,
           NEW bad, ext2fs_namei(f, d, n) # NoIno,
           ~ IsDir(f, ext2fs_namei(f, d, n))
    PROVE  LET op == op_truncate(f, d, n, bad) IN
           Good(op.fs, NoIno) /\ Spares(f, op.fs, {ext2fs_namei(f, d, n)})
<1> DEFINE i  == ext2fs_namei(f, d, n)
           o  == do_open(f, d, n, bad)
           g  == ext2fs_file_clear(f, i)
           w  == do_writeinode(g, i, g.inode[i], "truncate.inode", bad)
           op == op_truncate(f, d, n, bad)
<1>1. i \in Live(f) /\ ~ IsDir(f, i)
  BY LookupHolds
<1>2. o.fs = f
  BY OpenSame
<1>3. op = IF o.rc # "ok" THEN Ret(f, "ENOENT")
           ELSE IF "truncate.size" \in bad THEN Ret(f, "EIO")
           ELSE Ret(w.fs, IF w.rc = "ok" THEN "ok" ELSE "EIO")
  BY <1>2 DEF op_truncate
<1> HIDE DEF i, o, op
<1>8. Spares(f, f, {i})
  BY SparesSame
<1>4. Good(g, NoIno) /\ i \in Live(g) /\ Spares(f, g, {i})
  BY <1>1, ClearGood
<1> HIDE DEF g
<1>5. g \in FileSystem /\ i \in Ino /\ g.inode[i].links >= 1
  BY <1>4, LiveLinks, GoodTyped
<1>6. w.fs = g
  BY <1>5, WriteSame
<1> HIDE DEF w
<1>7. op.fs \in {f, g}
  BY <1>3, <1>6 DEF Ret
<1> QED
  BY <1>4, <1>7, <1>8 DEF op, i

-----------------------------------------------------------------------------
(* The theorems *)

LEMMA InitGood ==
    ASSUME FiniteNames, Init
    PROVE  Good(fs, NoIno)
<1>1. fs \in FileSystem
  BY InitTyped DEF TypeOK
<1>2. /\ \A i \in Ino : fs.inode[i] =
           IF i = Root THEN [kind |-> "dir", links |-> 2, blk |-> {FirstBlock}]
                       ELSE [kind |-> "reg", links |-> 0, blk |-> {}]
      /\ \A b \in Block, n \in Name : fs.data[b][n] = NoIno
      /\ fs.imap = {Root} /\ fs.bmap = {FirstBlock}
  BY DEF Init, Mkfs
<1>3. Live(fs) = {Root} /\ Dirs(fs) = {Root}
  BY <1>2, RootAssumption DEF Live, Dirs
<1>4. DirBlocks(fs) \subseteq Block
  BY <1>1, BlocksTyped
<1>5. Disjoint(fs)
  BY <1>2, <1>3, RootAssumption DEF Disjoint
<1>6. Once(fs)
  <2> SUFFICES ASSUME NEW d \in Dirs(fs), NEW n \in Name PROVE Holding(fs, d, n) = {}
    BY DEF Once
  <2>1. fs.inode[d].blk \subseteq Block
    BY <1>1, <1>3, BlocksTyped
  <2> QED
    BY <1>2, <2>1 DEF Holding
<1>7. \A i \in Ino : Cardinality(Refs(fs, i)) = 0
  <2> SUFFICES ASSUME NEW i \in Ino PROVE Cardinality(Refs(fs, i)) = 0
    OBVIOUS
  <2>1. Refs(fs, i) = {}
    BY <1>2, <1>4, RootAssumption DEF Refs
  <2> QED
    BY <2>1, FS_EmptySet
<1>8. \A i \in Ino :
        Cardinality(Refs(fs, i)) <= Cap(fs, i) + (IF i = NoIno THEN 1 ELSE 0)
  BY <1>1, <1>7, CapNat
<1>9. FreeUnlinked(fs)
  BY <1>2 DEF FreeUnlinked
<1> QED
  BY <1>1, <1>2, <1>3, <1>4, <1>5, <1>8, <1>6, <1>9 DEF Good

\* The reply, and the file system behind it.
Reported == Ret(fs, ret.rc)

LEMMA DoneLeaves ==
    ASSUME NEW op, NEW i, NEW r, NEW bad, Done(op, i, r), Leaves(r, i, bad)
    PROVE  Leaves(Reported', ret'.ino, bad)
<1>1. fs' = r.fs /\ ret'.rc = r.rc /\ ret'.ino = i
  BY DEF Done
<1>2. Reported'.fs = r.fs /\ Reported'.rc = r.rc
  BY <1>1 DEF Reported, Ret
<1> QED
  BY <1>1, <1>2 DEF Leaves

\* What became of the files that a request is not about.
OthersSpared ==
    \E S \in {{}} \cup {{p} : p \in Overwritten} : OthersLast(fs, fs', ret'.ino, S)

\* Every request, with the calls in bad failing.
Answered(bad) == Leaves(Reported', ret'.ino, bad) /\ OthersSpared

LEMMA DoneAnswered ==
    ASSUME fs \in FileSystem, NEW op, NEW i, NEW r, NEW bad, Done(op, i, r),
           Leaves(r, i, bad), Spares(fs, r.fs, {i})
    PROVE  Answered(bad)
<1>1. fs' = r.fs /\ ret'.ino = i
  BY DEF Done
<1>2. OthersLast(fs, fs', ret'.ino, {})
  BY <1>1, SparesOthers
<1> QED
  BY <1>2, DoneLeaves DEF Answered, OthersSpared

LEMMA DoneGood ==
    ASSUME fs \in FileSystem, NEW op, NEW i, NEW r, NEW bad, Done(op, i, r),
           Good(r.fs, NoIno), Spares(fs, r.fs, {i})
    PROVE  Answered(bad)
<1>1. Leaves(r, i, bad)
  BY DEF Leaves
<1> QED
  BY <1>1, DoneAnswered

LEMMA NameRequestLeaves ==
    ASSUME FiniteNames, Good(fs, NoIno), NEW bad,
           NEW d \in Dirs(fs), NEW n \in Name, NameRequest(d, n, bad)
    PROVE  Answered(bad)
<1> DEFINE t == ext2fs_namei(fs, d, n)
<1>10. fs \in FileSystem
  BY DEF Good
<1>0. CASE Open(d, n, bad)
  <2>1. op_open(fs, d, n, bad).fs = fs
    BY OpenSame
  <2>2. Good(op_open(fs, d, n, bad).fs, NoIno) /\ Spares(fs, op_open(fs, d, n, bad).fs, {t})
    BY <2>1, SparesSame
  <2> QED
    BY <1>0, <1>10, <2>2, DoneGood DEF Open
<1>1. ~ Present(fs, d, n) => Holding(fs, d, n) = {}
  BY Absent DEF Present
<1>2. ASSUME NEW ni \in ext2fs_new_inode(fs), Create(d, n, ni, bad)
      PROVE  Answered(bad)
  <2>1. /\ Leaves(op_create(fs, d, n, ni, bad), ni, bad)
        /\ Spares(fs, op_create(fs, d, n, ni, bad).fs, {ni})
    BY <1>1, <1>2, OpCreateGood DEF Create
  <2> QED
    BY <1>2, <1>10, <2>1, DoneAnswered DEF Create
<1>3. ASSUME NEW ni \in ext2fs_new_inode(fs), NEW kind \in MknodKinds,
             Mknod(d, n, kind, ni, bad)
      PROVE  Answered(bad)
  <2>1. kind \in Kind \ {"dir"}
    BY KindsAssumption DEF Kind
  <2>2. /\ Leaves(op_mknod(fs, d, n, kind, ni, bad), ni, bad)
        /\ Spares(fs, op_mknod(fs, d, n, kind, ni, bad).fs, {ni})
    BY <1>1, <1>3, <2>1, DoCreateGood DEF Mknod, op_mknod
  <2> QED
    BY <1>3, <1>10, <2>2, DoneAnswered DEF Mknod
<1>4. ASSUME NEW ni \in ext2fs_new_inode(fs), Mkdir(d, n, ni, bad)
      PROVE  Answered(bad)
  <2>1. /\ Good(op_mkdir(fs, d, n, ni, bad).fs, NoIno)
        /\ Spares(fs, op_mkdir(fs, d, n, ni, bad).fs, {ni})
    BY <1>1, <1>4, OpMkdirGood DEF Mkdir
  <2> QED
    BY <1>4, <1>10, <2>1, DoneGood DEF Mkdir
<1>5. ASSUME NEW ni \in ext2fs_new_inode(fs), NEW long \in BOOLEAN,
             Symlink(d, n, long, ni, bad)
      PROVE  Answered(bad)
  <2>1. /\ Leaves(op_symlink(fs, d, n, long, ni, bad), ni, bad)
        /\ Spares(fs, op_symlink(fs, d, n, long, ni, bad).fs, {ni})
    BY <1>1, <1>5, OpSymlinkGood DEF Symlink
  <2> QED
    BY <1>5, <1>10, <2>1, DoneAnswered DEF Symlink
<1>6. CASE Unlink(d, n, bad)
  <2>1. Good(op_unlink(fs, d, n, bad).fs, NoIno) /\ Cuts(fs, op_unlink(fs, d, n, bad).fs, d, n)
    BY OpUnlinkGood
  <2>2. Spares(fs, op_unlink(fs, d, n, bad).fs, {t})
    BY <2>1, CutsOthers
  <2> QED
    BY <1>6, <1>10, <2>1, <2>2, DoneGood DEF Unlink
<1>7. CASE Rmdir(d, n, bad)
  <2>1. Good(op_rmdir(fs, d, n, bad).fs, NoIno) /\ Cuts(fs, op_rmdir(fs, d, n, bad).fs, d, n)
    BY OpRmdirGood
  <2>2. Spares(fs, op_rmdir(fs, d, n, bad).fs, {t})
    BY <2>1, CutsOthers
  <2> QED
    BY <1>7, <1>10, <2>1, <2>2, DoneGood DEF Rmdir
<1>8. CASE Write(d, n, bad)
  <2>1. /\ Good(op_write(fs, d, n, bad).fs, NoIno)
        /\ Spares(fs, op_write(fs, d, n, bad).fs, {t})
    BY <1>8, OpWriteGood DEF Write
  <2> QED
    BY <1>8, <1>10, <2>1, DoneGood DEF Write
<1>9. CASE Truncate(d, n, bad)
  <2>1. ext2fs_namei(fs, d, n) # NoIno /\ ~ IsDir(fs, ext2fs_namei(fs, d, n))
    BY <1>9 DEF Truncate, IsDir
  <2>2. /\ Good(op_truncate(fs, d, n, bad).fs, NoIno)
        /\ Spares(fs, op_truncate(fs, d, n, bad).fs, {t})
    BY <2>1, OpTruncateGood
  <2> QED
    BY <1>9, <1>10, <2>2, DoneGood DEF Truncate
<1> QED
  BY <1>0, <1>2, <1>3, <1>4, <1>5, <1>6, <1>7, <1>8, <1>9 DEF NameRequest

LEMMA TwoNameRequestLeaves ==
    ASSUME FiniteNames, Good(fs, NoIno), NEW bad,
           NEW sd \in Dirs(fs), NEW sn \in Name, NEW td \in Dirs(fs),
           NEW tn \in Name, TwoNameRequest(sd, sn, td, tn, bad)
    PROVE  /\ Answered(bad)
           /\ ret'.op = "rename" => Refs(fs', ret'.ino) # {}
<1> DEFINE i == ext2fs_namei(fs, sd, sn)
<1>0. fs \in FileSystem
  BY DEF Good
<1>1. CASE Link(sd, sn, td, tn, bad)
  <2>1. /\ i # NoIno /\ ~ IsDir(fs, i) /\ LinkRoom(fs, i)
        /\ ext2fs_namei(fs, td, tn) = NoIno
        /\ Done("link", i, op_link(fs, sd, sn, td, tn, bad))
        /\ ret'.op = "link"
    BY <1>1 DEF Link, Done, Present
  <2>2. /\ Leaves(op_link(fs, sd, sn, td, tn, bad), i, bad)
        /\ Spares(fs, op_link(fs, sd, sn, td, tn, bad).fs, {i})
    BY <2>1, Absent, OpLinkGood
  <2> QED
    BY <1>0, <2>1, <2>2, DoneAnswered
<1>2. CASE Rename(sd, sn, td, tn, bad)
  <2>1. /\ i # NoIno
        /\ IsDir(fs, i) => td \notin Subtree(fs, i) /\ LinkRoom(fs, td)
        /\ Done("rename", i, op_rename(fs, sd, sn, td, tn, bad))
        /\ fs' = op_rename(fs, sd, sn, td, tn, bad).fs
        /\ ret'.ino = i /\ ret'.op = "rename"
        /\ <<sd, sn>> # <<td, tn>>
    BY <1>2 DEF Rename, Done
  <2>2. i \in Subtree(fs, i)
    BY DEF Subtree
  <2>3. /\ Leaves(op_rename(fs, sd, sn, td, tn, bad), i, bad)
        /\ Refs(op_rename(fs, sd, sn, td, tn, bad).fs, i) # {}
        /\ Displaces(fs, op_rename(fs, sd, sn, td, tn, bad).fs, i, td, tn)
    BY <2>1, <2>2, OpRenameGood
  <2>4. Displaces(fs, fs', ret'.ino, td, tn)
    BY <2>1, <2>3
  <2>5. OthersSpared
    <3>1. CASE OthersLast(fs, fs', ret'.ino, {})
      BY <3>1 DEF OthersSpared
    <3>2. CASE /\ OthersLast(fs, fs', ret'.ino, {<<td, tn>>})
               /\ ext2fs_namei(fs', td, tn) \in {NoIno, ret'.ino}
      <4>1. <<td, tn>> \in Overwritten
        BY <2>1, <3>2 DEF Overwritten
      <4>2. {<<td, tn>>} \in {{p} : p \in Overwritten}
        BY <4>1
      <4> QED
        BY <3>2, <4>2 DEF OthersSpared
    <3> QED
      BY <2>4, <3>1, <3>2 DEF Displaces
  <2> QED
    BY <2>1, <2>3, <2>5, DoneLeaves DEF Answered
<1> QED
  BY <1>1, <1>2 DEF TwoNameRequest

\* Every step, from a sound file system, whatever fails.
LEMMA NextLeaves ==
    ASSUME FiniteNames, Good(fs, NoIno), Next
    PROVE  /\ \E bad \in Faults : Leaves(Reported', ret'.ino, bad)
           /\ OthersSpared
           /\ ret'.op = "rename" => Refs(fs', ret'.ino) # {}
<1>1. PICK bad \in Faults, d \in PathDirs(fs), n \in Name :
        \/ NameRequest(d, n, bad)
        \/ \E td \in PathDirs(fs), tn \in Name : TwoNameRequest(d, n, td, tn, bad)
  BY DEF Next
<1>2. PathDirs(fs) \subseteq Dirs(fs)
  BY DEF PathDirs
<1>3. CASE NameRequest(d, n, bad)
  <2>1. ret'.op # "rename"
    BY <1>3 DEF NameRequest, Open, Create, Mknod, Mkdir, Symlink, Unlink, Rmdir,
                Write, Truncate, Done
  <2> QED
    BY <1>2, <1>3, <2>1, NameRequestLeaves DEF Answered
<1>4. ASSUME NEW td \in PathDirs(fs), NEW tn \in Name,
             TwoNameRequest(d, n, td, tn, bad)
      PROVE  /\ Answered(bad)
             /\ ret'.op = "rename" => Refs(fs', ret'.ino) # {}
  BY <1>2, <1>4, TwoNameRequestLeaves
<1> QED
  BY <1>1, <1>3, <1>4 DEF Answered

\* A name leads to an inode exactly when an entry holds it.
LEMMA PlacesHold ==
    ASSUME NEW f, NEW e, Good(f, e), NEW i \in Ino
    PROVE  Places(f, i) = {p \in Dirs(f) \X Name : Holds(f, p[1], p[2], i)}
<1>1. ASSUME NEW c \in Dirs(f), NEW m \in Name
      PROVE  ext2fs_namei(f, c, m) = i <=> Holds(f, c, m, i)
  <2>1. Holds(f, c, m, i) => ext2fs_namei(f, c, m) = i
    BY HoldsLookup DEF Good
  <2>2. ASSUME ext2fs_namei(f, c, m) = i PROVE Holds(f, c, m, i)
    <3> DEFINE b == CHOOSE x \in Holding(f, c, m) : TRUE
    <3>1. Holding(f, c, m) # {}
      BY <2>2, RootAssumption DEF ext2fs_namei
    <3>2. b \in Holding(f, c, m) /\ f.data[b][m] = i
      BY <2>2, <3>1 DEF ext2fs_namei
    <3> HIDE DEF b
    <3> QED
      BY <3>2 DEF Holds, Holding
  <2> QED
    BY <2>1, <2>2
<1>2. ASSUME NEW p \in Dirs(f) \X Name
      PROVE  ext2fs_namei(f, p[1], p[2]) = i <=> Holds(f, p[1], p[2], i)
  BY <1>1
<1> QED
  BY <1>2 DEF Places

\* Lasts, told by the lookups of the two file systems.
LEMMA LastsSpared ==
    ASSUME NEW f, Good(f, NoIno), NEW g, NEW e, Good(g, e), NEW i \in Live(f),
           NEW S, Lasts(f, g, i, S)
    PROVE  Spared(f, g, i, S)
<1>0. i \in Ino
  BY BlocksTyped DEF Good
<1>1. /\ Places(f, i) = {p \in Dirs(f) \X Name : Holds(f, p[1], p[2], i)}
      /\ Places(g, i) = {p \in Dirs(g) \X Name : Holds(g, p[1], p[2], i)}
  BY <1>0, PlacesHold
<1>2. ASSUME NEW p \in Places(f, i) \ S PROVE p \in Places(g, i)
  <2>1. PICK c \in Dirs(f), m \in Name : p = <<c, m>> /\ Holds(f, c, m, i)
    BY <1>1
  <2>2. Holds(g, c, m, i) /\ c \in Dirs(g)
    BY <2>1 DEF Lasts, Holds
  <2> QED
    BY <1>1, <2>1, <2>2
<1>3. ASSUME NEW c \in Dirs(f), NEW m \in Name, Holds(f, c, m, i)
      PROVE  <<c, m>> \in Places(f, i)
  BY <1>1, <1>3
<1>4. CASE Survives(f, g, i)
  BY <1>2, <1>4 DEF Spared, Survives
<1>5. CASE ~ Survives(f, g, i)
  <2>1. Places(f, i) # {}
    BY <1>3, <1>5 DEF Lasts
  <2>2. ASSUME NEW p \in Places(f, i) PROVE p \in S
    <3>1. PICK c \in Dirs(f), m \in Name : p = <<c, m>> /\ Holds(f, c, m, i)
      BY <1>1
    <3> QED
      BY <1>5, <3>1 DEF Lasts
  <2> QED
    BY <1>2, <2>1, <2>2 DEF Spared
<1> QED
  BY <1>4, <1>5

\* What Good says, in the terms of the properties.
LEMMA GoodParts ==
    ASSUME FiniteNames, NEW f, NEW e, Good(f, e)
    PROVE  /\ \A i \in Live(f) :
                /\ f.inode[i].blk \subseteq f.bmap
                /\ \A j \in Live(f) \ {i} : f.inode[i].blk \cap f.inode[j].blk = {}
           /\ \A b \in DirBlocks(f) : \A n \in Entries(f, b) :
                f.data[b][n] \in Live(f) \cup {e}
           /\ \A i \in Live(f) \ {e} : CountCovers(f, i)
           /\ \A d \in Dirs(f), n \in Name : Cardinality(Holding(f, d, n)) <= 1
<1>0. f \in FileSystem
  BY DEF Good
<1>1. \A i \in Live(f) :
        /\ f.inode[i].blk \subseteq f.bmap
        /\ \A j \in Live(f) \ {i} : f.inode[i].blk \cap f.inode[j].blk = {}
  BY DEF Good, Disjoint
<1>2. \A b \in DirBlocks(f) : \A n \in Entries(f, b) : f.data[b][n] \in Live(f) \cup {e}
  BY DEF Good, Entries
<1>3. ASSUME NEW i \in Live(f) \ {e} PROVE CountCovers(f, i)
  <2>1. i \in Ino
    BY <1>0, BlocksTyped
  <2>2. Cardinality(Refs(f, i)) <= Cap(f, i)
    <3>1. Cap(f, i) \in Nat
      BY <1>0, <2>1, CapNat
    <3>2. Cardinality(Refs(f, i)) <= Cap(f, i) + (IF i = e THEN 1 ELSE 0)
      BY <2>1 DEF Good
    <3> QED
      BY <3>1, <3>2
  <2>3. CASE i = Root
    <3>1. Cardinality(Refs(f, i)) <= 0
      BY <2>2, <2>3 DEF Cap
    <3>2. Cardinality(Refs(f, i)) = 0
      BY <1>0, <3>1, RefsFinite
    <3>3. Refs(f, i) = {}
      BY <1>0, <3>2, NoRefs
    <3> QED
      BY <2>3, <3>3 DEF CountCovers
  <2>4. CASE i # Root
    BY <2>2, <2>4 DEF Cap, CountCovers
  <2> QED
    BY <2>3, <2>4
<1>4. ASSUME NEW d \in Dirs(f), NEW n \in Name
      PROVE  Cardinality(Holding(f, d, n)) <= 1
  <2>1. \A b, c \in Holding(f, d, n) : b = c
    BY DEF Good, Once
  <2>2. CASE Holding(f, d, n) = {}
    BY <2>2, FS_EmptySet
  <2>3. CASE Holding(f, d, n) # {}
    <3>1. PICK b : Holding(f, d, n) = {b}
      BY <2>1, <2>3
    <3>2. Cardinality({b}) = 1
      BY FS_Singleton
    <3> QED
      BY <3>1, <3>2
  <2> QED
    BY <2>2, <2>3
<1> QED
  BY <1>1, <1>2, <1>3, <1>4

\* Sound is what Good says when no inode is excepted ...
LEMMA GoodSound ==
    ASSUME FiniteNames, Good(fs, NoIno)
    PROVE  Sound
<1>1. NoIno \notin Live(fs)
  BY BlocksTyped, RootAssumption DEF Good
<1>2. NamesResolve
  <2>1. \A b \in DirBlocks(fs) : \A n \in Entries(fs, b) : fs.data[b][n] # NoIno
    BY DEF Entries
  <2> QED
    BY <2>1, GoodParts DEF NamesResolve
<1>3. NoUndercount
  BY <1>1, GoodParts DEF NoUndercount
<1>4. NoSharedBlocks /\ UniqueNames
  BY GoodParts DEF NoSharedBlocks, UniqueNames
<1> QED
  BY <1>2, <1>3, <1>4 DEF Sound, Good

\* ... and nothing less.
LEMMA SoundGood ==
    ASSUME FiniteNames, TypeOK, Sound
    PROVE  Good(fs, NoIno)
<1>0. fs \in FileSystem
  BY DEF TypeOK
<1>1. Disjoint(fs)
  BY DEF Sound, NoSharedBlocks, Disjoint
<1>2. Once(fs)
  <2> SUFFICES ASSUME NEW d \in Dirs(fs), NEW n \in Name,
                      NEW b \in Holding(fs, d, n), NEW c \in Holding(fs, d, n), b # c
               PROVE  FALSE
    BY DEF Once
  <2>1. Holding(fs, d, n) \subseteq Block
    BY <1>0, BlocksTyped DEF Holding, Dirs
  <2>2. IsFiniteSet(Holding(fs, d, n)) /\ Cardinality(Holding(fs, d, n)) \in Nat
    BY <2>1, FS_Subset, FS_CardinalityType DEF FiniteNames
  <2>3. IsFiniteSet({b, c}) /\ Cardinality({b, c}) = 2
    <3>1. IsFiniteSet({b}) /\ Cardinality({b}) = 1
      BY FS_Singleton
    <3>2. IsFiniteSet({b} \cup {c}) /\ Cardinality({b} \cup {c}) = 1 + 1
      BY <3>1, FS_AddElement
    <3>3. {b} \cup {c} = {b, c}
      OBVIOUS
    <3> QED
      BY <3>2, <3>3
  <2>4. Cardinality({b, c}) <= Cardinality(Holding(fs, d, n))
    <3>1. {b, c} \subseteq Holding(fs, d, n)
      OBVIOUS
    <3> QED
      BY <2>2, <3>1, FS_Subset
  <2>5. Cardinality(Holding(fs, d, n)) <= 1
    BY DEF Sound, UniqueNames
  <2> QED
    BY <2>2, <2>3, <2>4, <2>5
<1>3. \A b \in DirBlocks(fs), n \in Name : fs.data[b][n] \in Live(fs) \cup {NoIno}
  BY DEF Sound, NamesResolve, Entries
<1>4. ASSUME NEW i \in Ino PROVE Cardinality(Refs(fs, i)) <= Cap(fs, i)
  <2>1. CASE i \in Live(fs) /\ i # Root
    BY <2>1 DEF Sound, NoUndercount, CountCovers, Cap
  <2>2. CASE i \notin Live(fs) \/ i = Root
    <3>1. Refs(fs, i) = {}
      <4>1. CASE i = Root
        BY <4>1 DEF Sound, Dirs, NoUndercount, CountCovers
      <4>2. CASE i \notin Live(fs)
        BY <1>3, <4>2, RootAssumption DEF Refs
      <4> QED
        BY <2>2, <4>1, <4>2
    <3>2. Cap(fs, i) = 0
      BY <2>2 DEF Cap
    <3> QED
      BY <3>1, <3>2, FS_EmptySet
  <2> QED
    BY <2>1, <2>2
<1>5. \A i \in Ino :
        Cardinality(Refs(fs, i)) <= Cap(fs, i) + (IF i = NoIno THEN 1 ELSE 0)
  BY <1>0, <1>4, CapNat, RootAssumption
<1> QED
  BY <1>0, <1>1, <1>2, <1>3, <1>5 DEF Good, Sound

GoodFS == Good(fs, NoIno)

LEMMA SafeLeaves ==
    ASSUME NEW bad \in SUBSET SafeSites, NEW r, NEW i, Leaves(r, i, bad)
    PROVE  Good(r.fs, NoIno)
<1>1. SafeSites \cap UnsafeSites = {}
  BY DEF SafeSites, UnsafeSites
<1> QED
  BY <1>1 DEF Leaves

LEMMA ReportedFS == Reported'.fs = fs' /\ Reported'.rc = ret'.rc
  BY DEF Reported, Ret

LEMMA GoodAlways ==
    ASSUME FiniteNames, Faults \subseteq SUBSET SafeSites
    PROVE  Spec => []GoodFS
<1>1. Init => GoodFS
  BY InitGood DEF GoodFS
<1>2. GoodFS /\ [Next]_vars => GoodFS'
  <2> SUFFICES ASSUME Good(fs, NoIno), [Next]_vars PROVE Good(fs', NoIno)
    BY DEF GoodFS
  <2>1. CASE UNCHANGED vars
    <3>1. fs' = fs
      BY <2>1 DEF vars
    <3> QED
      BY <3>1
  <2>2. CASE Next
    <3>1. PICK bad \in Faults : Leaves(Reported', ret'.ino, bad)
      BY <2>2, NextLeaves
    <3>2. Good(Reported'.fs, NoIno)
      BY <3>1, SafeLeaves
    <3> QED
      BY <3>2, ReportedFS
  <2> QED
    BY <2>1, <2>2
<1> QED
  BY <1>1, <1>2, PTL DEF Spec

\* The parts of Sound, on a disk of any size, with directories of any
\* size, for any requests, whichever and however many of the safe call sites
\* fail in each of them.

\* The stale inode copies op_link, op_unlink and op_rename write back, and the
\* blocks do_killfilebyinode releases, never make two files share a block or
\* leave a block in use marked free.
THEOREM BlocksNeverShared ==
    ASSUME FiniteNames, Faults \subseteq SUBSET SafeSites
    PROVE  Spec => []NoSharedBlocks
<1>1. GoodFS => NoSharedBlocks
  BY GoodSound DEF GoodFS, Sound
<1> QED
  BY <1>1, GoodAlways, PTL

\* Wherever a handler stops, every name in a directory leads to an inode in
\* use: do_create, op_mkdir and op_rename leave no entry without its inode,
\* and op_unlink and op_rmdir free no inode that still has a name.
THEOREM NamesAlwaysResolve ==
    ASSUME FiniteNames, Faults \subseteq SUBSET SafeSites
    PROVE  Spec => []NamesResolve
<1>1. GoodFS => NamesResolve
  BY GoodSound DEF GoodFS, Sound
<1> QED
  BY <1>1, GoodAlways, PTL

\* A file never has more names than its i_links_count says, so op_unlink frees
\* it with its last name and not before; a directory never has two names.
THEOREM CountsCoverNames ==
    ASSUME FiniteNames, Faults \subseteq SUBSET SafeSites
    PROVE  Spec => []NoUndercount
<1>1. GoodFS => NoUndercount
  BY GoodSound DEF GoodFS, Sound
<1> QED
  BY <1>1, GoodAlways, PTL

\* No directory ever holds a name twice, although ext2fs_link never looks: the
\* handlers that create only run for a name that is absent, and op_rename has
\* deleted the destination when it adds the entry again.
THEOREM NamesOnce ==
    ASSUME FiniteNames, Faults \subseteq SUBSET SafeSites
    PROVE  Spec => []UniqueNames
<1>1. GoodFS => UniqueNames
  BY GoodSound DEF GoodFS, Sound
<1> QED
  BY <1>1, GoodAlways, PTL

-----------------------------------------------------------------------------
(* Whichever call sites fail, the unsafe ones too *)

\* The file a rename is about has a name when the handler returns, wherever a
\* failing call stopped it: op_rename deletes the destination first, but the
\* entry in the old place goes last.
THEOREM RenameKeepsFile ==
    ASSUME FiniteNames
    PROVE  Spec => RenameNeverLoses
<1> DEFINE Kept == Sound /\ ret'.op = "rename" => Refs(fs', ret'.ino) # {}
<1>1. TypeOK /\ [Next]_vars => [Kept]_vars
  <2> SUFFICES ASSUME TypeOK, Sound, Next, ret'.op = "rename"
               PROVE  Refs(fs', ret'.ino) # {}
    OBVIOUS
  <2> QED
    BY SoundGood, NextLeaves
<1> QED
  BY <1>1, Typing, PTL DEF Spec, RenameNeverLoses

\* Where only safe call sites fail every file system is sound, so no rename
\* ever leaves its file without a name.
THEOREM RenameAlwaysKeepsFile ==
    ASSUME FiniteNames, Faults \subseteq SUBSET SafeSites
    PROVE  Spec => [][ret'.op = "rename" => Refs(fs', ret'.ino) # {}]_vars
<1>1. GoodFS => Sound
  BY GoodSound DEF GoodFS
<1> QED
  BY <1>1, GoodAlways, RenameKeepsFile, PTL DEF RenameNeverLoses

\* A failing call harms nothing but the inode of its request.  Every other name
\* leads to an inode that is counted for it, no block comes to be shared, and no
\* directory to hold a name twice; and no other file loses a name, its inode or
\* a block, but for the destination of a rename, which goes before the file is
\* moved there and does not come back when a later call fails.
THEOREM DamageConfined ==
    ASSUME FiniteNames
    PROVE  Spec => DamageIsConfined
<1> DEFINE Confined ==
        Sound =>
            /\ NoSharedBlocks' /\ UniqueNames'
            /\ \A b \in DirBlocks(fs') : \A n \in Entries(fs', b) :
                fs'.data[b][n] \in Live(fs') \cup {ret'.ino}
            /\ \A i \in Live(fs') \ {ret'.ino} : CountCovers(fs', i)
            /\ \E S \in {{}} \cup {{p} : p \in Overwritten} :
                \A i \in Live(fs) \ {ret'.ino} : Spared(fs, fs', i, S)
<1>1. TypeOK /\ [Next]_vars => [Confined]_vars
  <2> SUFFICES ASSUME TypeOK, Sound, Next PROVE Confined
    OBVIOUS
  <2>1. PICK bad \in Faults : Leaves(Reported', ret'.ino, bad)
    BY SoundGood, NextLeaves
  <2>2. PICK e \in {NoIno, ret'.ino} : Good(fs', e)
    BY <2>1, ReportedFS DEF Leaves
  <2>3. /\ \A i \in Live(fs') :
             /\ fs'.inode[i].blk \subseteq fs'.bmap
             /\ \A j \in Live(fs') \ {i} : fs'.inode[i].blk \cap fs'.inode[j].blk = {}
        /\ \A b \in DirBlocks(fs') : \A n \in Entries(fs', b) :
             fs'.data[b][n] \in Live(fs') \cup {e}
        /\ \A i \in Live(fs') \ {e} : CountCovers(fs', i)
        /\ \A d \in Dirs(fs'), n \in Name : Cardinality(Holding(fs', d, n)) <= 1
    BY <2>2, GoodParts
  <2>4. /\ NoIno \notin Live(fs')
        /\ \A b \in DirBlocks(fs') : \A n \in Entries(fs', b) : fs'.data[b][n] # NoIno
    BY <2>2, BlocksTyped, RootAssumption DEF Good, Entries
  <2>5. NoSharedBlocks' /\ UniqueNames'
    BY <2>3 DEF NoSharedBlocks, UniqueNames
  <2>6. \A b \in DirBlocks(fs') : \A n \in Entries(fs', b) :
          fs'.data[b][n] \in Live(fs') \cup {ret'.ino}
    BY <2>2, <2>3, <2>4
  <2>7. \A i \in Live(fs') \ {ret'.ino} : CountCovers(fs', i)
    BY <2>2, <2>3, <2>4
  <2>8. PICK S \in {{}} \cup {{p} : p \in Overwritten} : OthersLast(fs, fs', ret'.ino, S)
    BY SoundGood, NextLeaves DEF OthersSpared
  <2>9. \A i \in Live(fs) \ {ret'.ino} : Spared(fs, fs', i, S)
    BY <2>2, <2>8, SoundGood, LastsSpared DEF OthersLast
  <2> QED
    BY <2>5, <2>6, <2>7, <2>9
<1> QED
  BY <1>1, Typing, PTL DEF Spec, DamageIsConfined

\* A handler that leaves a sound file system unsound returns an error.
THEOREM DamageReported ==
    ASSUME FiniteNames
    PROVE  Spec => DamageIsReported
<1> DEFINE Said == Sound /\ ~ Sound' => ret'.rc \in Error
<1>1. GoodFS => Sound
  BY GoodSound DEF GoodFS
<1>2. TypeOK /\ [Next]_vars /\ (GoodFS' => Sound') => [Said]_vars
  <2> SUFFICES ASSUME TypeOK, Sound, Next, GoodFS' => Sound', ~ Sound'
               PROVE  ret'.rc \in Error
    OBVIOUS
  <2>1. PICK bad \in Faults : Leaves(Reported', ret'.ino, bad)
    BY SoundGood, NextLeaves
  <2>2. ~ Good(fs', NoIno)
    BY DEF GoodFS
  <2> QED
    BY <2>1, <2>2, ReportedFS DEF Leaves
<1> QED
  BY <1>1, <1>2, Typing, PTL DEF Spec, DamageIsReported
=============================================================================
