--------------------------- MODULE Ext2FilesProofs ---------------------------
(***************************************************************************)
(* Open, read, write, truncate, flush, release, symlink, readlink and      *)
(* unlink: on a disk of any size, with any number of open files, and       *)
(* whichever library calls fail together in a request.                     *)
(*                                                                         *)
(* Below, a file system is good when its bitmap and its inodes agree, and  *)
(* a handle is current when its copy of the inode is the one on the disk.  *)
(* Five parts: no block is lost or shared; a forgotten handle is reported; *)
(* replies have their types; a write shows what it was given, which leads  *)
(* to the promise of PosixFile; requests that meet no failure succeed.     *)
(***************************************************************************)
EXTENDS Ext2Files, WellFoundedInduction, TLAPS

\* The third part is what lets create and symlink write a new inode over an
\* old one.
Exact(f) ==
    /\ f.used = UNION {Blocks(f.inode[i]) : i \in File}
    /\ \A i, j \in File : \A p, q \in Page :
        f.inode[i].map[p] # NoBlock /\ f.inode[i].map[p] = f.inode[j].map[q]
            => i = j /\ p = q
    /\ \A i \in File : f.inode[i].kind = "none" => Blocks(f.inode[i]) = {}

Good(f) == f \in Disk /\ Exact(f)

\* From f to g no file goes away.
Leads(f, g) ==
    /\ Good(g)
    /\ \A i \in File : f.inode[i].kind # "none" => g.inode[i].kind # "none"

Current(f, h) == h \in FileHandle /\ h.inode = f.inode[h.file]

\* g is f but for the contents of blocks.
SameBlocks(f, g) == g \in Disk /\ g.inode = f.inode /\ g.used = f.used

LEMMA SameIsGood ==
    ASSUME NEW f, NEW g, Good(f), SameBlocks(f, g)
    PROVE  Leads(f, g)
  BY DEF Leads, Good, SameBlocks, Exact

-----------------------------------------------------------------------------
(* libext2fs *)

LEMMA NewInodeTyped ==
    ASSUME NEW k \in {"none", "reg", "lnk"}, NEW v \in Datum
    PROVE  NewInode(k, v) \in Inode /\ Blocks(NewInode(k, v)) = {} /\ NewInode(k, v).kind = k
<1>1. 0 \in 0 .. MaxPages
  BY BoundAssumption
<1>2. NewInode(k, v) \in Inode
  BY <1>1 DEF NewInode, Inode
<1> QED
  BY <1>2 DEF NewInode, Blocks

LEMMA OpenCurrent ==
    ASSUME NEW f \in Disk, NEW i \in File, NEW h, h = ext2fs_file_open2(f, i)
    PROVE  Current(f, h) /\ h.file = i
  BY DEF ext2fs_file_open2, Current, FileHandle, Disk

LEMMA FlushKeepsBlocks ==
    ASSUME NEW f \in Disk, NEW h \in FileHandle, NEW bad, NEW l, l = ext2fs_file_flush(f, h, bad)
    PROVE  /\ SameBlocks(f, l.fs)
           /\ l.h \in FileHandle /\ l.h.inode = h.inode /\ l.h.file = h.file
<1> DEFINE b == h.inode.map[h.buf[1]]
<1>1. CASE h.buf = <<>>
  BY <1>1 DEF ext2fs_file_flush, SameBlocks
<1>2. CASE h.buf # <<>> /\ (b = NoBlock \/ "write.data" \in bad)
  <2>1. l.fs = f /\ l.h = h
    BY <1>2 DEF ext2fs_file_flush
  <2> QED
    BY <2>1 DEF SameBlocks
<1>3. CASE h.buf # <<>> /\ ~ (b = NoBlock \/ "write.data" \in bad)
  <2>1. l.fs = [f EXCEPT !.content[b] = h.buf[2]] /\ l.h = [h EXCEPT !.buf = <<>>]
    BY <1>3 DEF ext2fs_file_flush
  <2>2. h.buf[2] \in Datum
    BY <1>3 DEF FileHandle, Datum
  <2> HIDE DEF b
  <2>3. SameBlocks(f, l.fs)
    BY <2>1, <2>2 DEF SameBlocks, Disk
  <2>4. l.h \in FileHandle /\ l.h.inode = h.inode /\ l.h.file = h.file
    BY <2>1 DEF FileHandle
  <2> QED
    BY <2>3, <2>4
<1> QED
  BY <1>1, <1>2, <1>3

\* Blocks past the new end go from the inode and from the bitmap together.
LEMMA SetSizeGood ==
    ASSUME NEW f, Good(f), NEW h, Current(f, h), NEW size \in 0 .. MaxPages,
           NEW s, s = ext2fs_file_set_size2(f, h, size)
    PROVE  Leads(f, s.fs) /\ Current(s.fs, s.h)
<1> DEFINE r == [h.inode EXCEPT
                    !.size = size,
                    !.map  = [p \in Page |-> IF p < size THEN h.inode.map[p] ELSE NoBlock]]
           u == f.used \ (Blocks(h.inode) \ Blocks(r))
<1>1. /\ h.file \in File /\ h.inode \in Inode /\ h \in FileHandle
      /\ h.inode = f.inode[h.file] /\ f \in Disk
  BY DEF Current, FileHandle, Good
<1>2. /\ r \in Inode /\ r.kind = h.inode.kind
      /\ \A p \in Page : r.map[p] \in {h.inode.map[p], NoBlock}
  BY <1>1 DEF Inode
<1>3. /\ s.fs = [f EXCEPT !.inode[h.file] = r, !.used = u]
      /\ s.h = [h EXCEPT !.inode = r]
  BY DEF ext2fs_file_set_size2
<1>4. u \in SUBSET Block
  BY <1>1 DEF Disk
<1>5. Blocks(r) \subseteq Blocks(h.inode)
  BY <1>2 DEF Blocks
<1> HIDE DEF r, u
<1>6. /\ s.fs \in Disk /\ s.fs.inode = [f.inode EXCEPT ![h.file] = r]
      /\ s.fs.used = u
  <2> DEFINE new == [f.inode EXCEPT ![h.file] = r]
  <2>1. new \in [File -> Inode]
    BY <1>1, <1>2 DEF Disk
  <2>2. s.fs = [f EXCEPT !.inode = new, !.used = u]
    BY <1>1, <1>3
  <2> HIDE DEF new
  <2>3. s.fs \in Disk /\ s.fs.inode = new /\ s.fs.used = u
    BY <1>1, <1>4, <2>1, <2>2 DEF Disk
  <2> QED
    BY <2>3 DEF new
<1>7. s.h \in FileHandle /\ s.h.file = h.file /\ s.h.inode = r
  BY <1>1, <1>2, <1>3 DEF FileHandle
<1>8. s.fs.inode[h.file] = r /\ \A i \in File \ {h.file} : s.fs.inode[i] = f.inode[i]
  BY <1>1, <1>6 DEF Disk
<1>9. s.fs.used = UNION {Blocks(s.fs.inode[i]) : i \in File}
  <2>1. \A i \in File \ {h.file} : Blocks(f.inode[i]) \cap Blocks(h.inode) = {}
    BY <1>1 DEF Good, Exact, Blocks
  <2>2. f.used = UNION {Blocks(f.inode[i]) : i \in File}
    BY DEF Good, Exact
  <2> QED
    BY <1>1, <1>5, <1>6, <1>8, <2>1, <2>2 DEF u
<1>10. ASSUME NEW i \in File, NEW j \in File, NEW p \in Page, NEW q \in Page,
              s.fs.inode[i].map[p] # NoBlock,
              s.fs.inode[i].map[p] = s.fs.inode[j].map[q]
       PROVE  i = j /\ p = q
  <2>1. \A k \in File, x \in Page : s.fs.inode[k].map[x] \in {f.inode[k].map[x], NoBlock}
    BY <1>1, <1>2, <1>8
  <2>2. f.inode[i].map[p] # NoBlock /\ f.inode[i].map[p] = f.inode[j].map[q]
    BY <1>10, <2>1
  <2> QED
    BY <2>2 DEF Good, Exact
<1>11. \A i \in File : s.fs.inode[i].kind = "none" => Blocks(s.fs.inode[i]) = {}
  <2>1. \A i \in File : f.inode[i].kind = "none" => Blocks(f.inode[i]) = {}
    BY DEF Good, Exact
  <2>2. r.kind = "none" => Blocks(r) = {}
    BY <1>1, <1>2, <1>5, <2>1
  <2> QED
    BY <1>8, <2>1, <2>2
<1>12. Exact(s.fs)
  BY <1>9, <1>10, <1>11 DEF Exact
<1> QED
  BY <1>1, <1>2, <1>6, <1>7, <1>8, <1>12 DEF Leads, Good, Current

\* The page in the buffer when a write of n pages of limit stops.
Held(off, n, limit) == IF n < limit THEN off + n ELSE off + n - 1

\* What a write through the handle h to f makes of the disk g and the handle k.
Stores(f, h, off, v, limit, n, got, g, k) ==
    /\ g \in Disk /\ k \in FileHandle
    /\ k.file = h.file /\ k.inode = g.inode[h.file]
    /\ k.buf = <<Held(off, n, limit), v>>
    /\ \A j \in File \ {h.file} : g.inode[j] = f.inode[j]
    /\ k.inode.kind = h.inode.kind /\ k.inode.short = h.inode.short
    /\ k.inode.size = IF n > 0 /\ h.inode.size < off + n THEN off + n ELSE h.inode.size
    /\ \A p \in Page : k.inode.map[p] = IF p \in DOMAIN got THEN got[p] ELSE h.inode.map[p]
    /\ g.used = f.used \cup {got[p] : p \in DOMAIN got}
    /\ \A b \in Block : g.content[b] =
        IF b \in {k.inode.map[p] : p \in (off .. off + n - 1) \ {Held(off, n, limit)}}
        THEN v ELSE f.content[b]

\* Every new block comes from the free ones, and no two pages get the same.
LEMMA PlacementsSay ==
    ASSUME NEW f, NEW r, NEW off \in Page, NEW n \in Nat, off + n <= MaxPages,
           NEW got, got \in Placements(f, r, off, n)
    PROVE  /\ off .. off + n - 1 \subseteq Page
           /\ \A p \in DOMAIN got : p \in off .. off + n - 1 /\ r.map[p] = NoBlock
           /\ \A p \in off .. off + n - 1 : r.map[p] = NoBlock => p \in DOMAIN got
           /\ \A p \in DOMAIN got : got[p] \in Block \ f.used
           /\ IsInjective(got)
<1>1. off .. off + n - 1 \subseteq Page
  BY BoundAssumption DEF Page
<1> QED
  BY <1>1 DEF Placements, Injection, IsInjective, FreeBlocks

LEMMA StoredSays ==
    ASSUME NEW f \in Disk, NEW h, Current(f, h),
           NEW off \in Page, NEW v \in Value, NEW limit \in Nat, 0 < limit,
           off + limit <= MaxPages, NEW n \in 0 .. limit,
           NEW got \in Placements(f, h.inode, off, n),
           NEW w, w = Stored(f, h, off, v, limit, n, got)
    PROVE  Stores(f, h, off, v, limit, n, got, w.fs, w.h)
<1> DEFINE held == Held(off, n, limit)
           r == [h.inode EXCEPT
                    !.size = IF n > 0 /\ @ < off + n THEN off + n ELSE @,
                    !.map  = [p \in Page |-> IF p \in DOMAIN got THEN got[p] ELSE @[p]]]
           sent == {r.map[p] : p \in (off .. off + n - 1) \ {held}}
           new == [f.inode EXCEPT ![h.file] = r]
           content == [b \in Block |-> IF b \in sent THEN v ELSE f.content[b]]
           u == f.used \cup {got[p] : p \in DOMAIN got}
<1>1. /\ h.file \in File /\ h.inode \in Inode /\ h \in FileHandle
      /\ h.inode = f.inode[h.file]
  BY DEF Current, FileHandle
<1>2. held \in Page /\ off + n \in 0 .. MaxPages /\ n \in Nat
  BY BoundAssumption DEF Page, Held
<1>3. /\ DOMAIN got \subseteq Page
      /\ \A p \in DOMAIN got : got[p] \in Block
  <2>1. n \in Nat /\ off + n <= MaxPages
    BY BoundAssumption DEF Page
  <2>2. /\ off .. off + n - 1 \subseteq Page
        /\ \A p \in DOMAIN got : p \in off .. off + n - 1 /\ h.inode.map[p] = NoBlock
        /\ \A p \in DOMAIN got : got[p] \in Block \ f.used
    BY <2>1, PlacementsSay, Zenon
  <2> QED
    BY <2>2
<1>4. \A p \in Page : h.inode.map[p] \in Block \cup {NoBlock}
  BY <1>1 DEF Inode
<1>5. /\ r \in Inode /\ r.kind = h.inode.kind /\ r.short = h.inode.short
      /\ r.size = IF n > 0 /\ h.inode.size < off + n THEN off + n ELSE h.inode.size
      /\ \A p \in Page : r.map[p] = IF p \in DOMAIN got THEN got[p] ELSE h.inode.map[p]
  <2> DEFINE size == IF n > 0 /\ h.inode.size < off + n THEN off + n ELSE h.inode.size
             map  == [p \in Page |-> IF p \in DOMAIN got THEN got[p] ELSE h.inode.map[p]]
  <2>1. size \in 0 .. MaxPages
    BY <1>1, <1>2 DEF Inode
  <2>2. map \in [Page -> Block \cup {NoBlock}]
    BY <1>3, <1>4
  <2>3. r = [h.inode EXCEPT !.size = size, !.map = map]
    BY <1>1 DEF Inode
  <2>4. \A p \in Page : map[p] = IF p \in DOMAIN got THEN got[p] ELSE h.inode.map[p]
    OBVIOUS
  <2> HIDE DEF size, map, r
  <2>5. /\ r \in Inode /\ r.kind = h.inode.kind /\ r.short = h.inode.short
        /\ r.size = size /\ r.map = map
    BY <1>1, <2>1, <2>2, <2>3 DEF Inode
  <2> QED
    BY <2>4, <2>5 DEF size
<1>6. w = [fs |-> [f EXCEPT !.inode[h.file] = IF r = h.inode THEN @ ELSE r,
                            !.content = content, !.used = u],
           h  |-> [h EXCEPT !.inode = r, !.buf = <<held, v>>]]
  BY DEF Stored, Held
<1> HIDE DEF r, held, sent
<1>7. /\ new \in [File -> Inode] /\ content \in [Block -> Datum] /\ u \in SUBSET Block
      /\ new[h.file] = r /\ \A i \in File \ {h.file} : new[i] = f.inode[i]
      /\ \A b \in Block : content[b] = IF b \in sent THEN v ELSE f.content[b]
  BY <1>1, <1>3, <1>5 DEF Disk, Datum
<1>8. w.fs = [f EXCEPT !.inode = new, !.content = content, !.used = u]
  <2>1. (IF r = h.inode THEN f.inode[h.file] ELSE r) = r
    BY <1>1
  <2> HIDE DEF content, u
  <2>2. w.fs = [f EXCEPT !.inode = [f.inode EXCEPT ![h.file] =
                                        IF r = h.inode THEN f.inode[h.file] ELSE r],
                         !.content = content, !.used = u]
    BY <1>6
  <2> QED
    BY <2>1, <2>2
<1> HIDE DEF new, content
<1>9. /\ w.fs \in Disk /\ w.fs.inode = new
      /\ w.fs.content = content /\ w.fs.used = u
  <2> HIDE DEF u
  <2> QED
    BY <1>7, <1>8 DEF Disk
<1>10. w.h \in FileHandle /\ w.h.file = h.file /\ w.h.inode = r /\ w.h.buf = <<held, v>>
  <2>1. w.h = [h EXCEPT !.inode = r, !.buf = <<held, v>>]
    BY <1>6
  <2>2. <<held, v>> \in {<<>>} \cup (Page \X Value)
    BY <1>2
  <2> QED
    BY <1>1, <1>5, <2>1, <2>2 DEF FileHandle
<1>11. \A b \in Block : w.fs.content[b] =
        IF b \in {w.h.inode.map[p] : p \in (off .. off + n - 1) \ {held}}
        THEN v ELSE f.content[b]
  BY <1>7, <1>9, <1>10 DEF sent
<1> QED
  BY <1>1, <1>5, <1>7, <1>9, <1>10, <1>11 DEF Stores, held

LEMMA StoredGood ==
    ASSUME NEW f, Good(f), NEW h, Current(f, h), h.inode.kind # "none",
           NEW off \in Page, NEW v \in Value, NEW limit \in Nat, 0 < limit,
           off + limit <= MaxPages, NEW n \in 0 .. limit,
           NEW got \in Placements(f, h.inode, off, n),
           NEW w, w = Stored(f, h, off, v, limit, n, got)
    PROVE  Leads(f, w.fs) /\ Current(w.fs, w.h)
<1> DEFINE g == w.fs
           r == w.h.inode
<1>1. h.file \in File /\ h.inode = f.inode[h.file] /\ f \in Disk
  BY DEF Current, FileHandle, Good
<1>2. Stores(f, h, off, v, limit, n, got, g, w.h)
  BY <1>1, StoredSays
<1>3. /\ DOMAIN got \subseteq Page
      /\ \A p \in DOMAIN got : h.inode.map[p] = NoBlock /\ got[p] \in Block \ f.used
      /\ \A p, q \in DOMAIN got : got[p] = got[q] => p = q
  <2>1. n \in Nat /\ off + n <= MaxPages
    BY BoundAssumption DEF Page
  <2>2. /\ off .. off + n - 1 \subseteq Page
        /\ \A p \in DOMAIN got : p \in off .. off + n - 1 /\ h.inode.map[p] = NoBlock
        /\ \A p \in DOMAIN got : got[p] \in Block \ f.used
        /\ IsInjective(got)
    BY <2>1, PlacementsSay, Zenon
  <2> QED
    BY <2>2 DEF IsInjective
<1>4. /\ g \in Disk /\ w.h \in FileHandle /\ w.h.file = h.file
      /\ g.inode[h.file] = r /\ \A j \in File \ {h.file} : g.inode[j] = f.inode[j]
      /\ r.kind = h.inode.kind
      /\ \A p \in Page : r.map[p] = IF p \in DOMAIN got THEN got[p] ELSE h.inode.map[p]
      /\ g.used = f.used \cup {got[p] : p \in DOMAIN got}
  BY <1>2 DEF Stores
<1> HIDE DEF g, r
<1>5. /\ f.used = UNION {Blocks(f.inode[i]) : i \in File}
      /\ \A i \in File : Blocks(f.inode[i]) \subseteq f.used
  BY DEF Good, Exact
<1>6. Blocks(r) = Blocks(h.inode) \cup {got[p] : p \in DOMAIN got}
  BY <1>3, <1>4, BlockAssumption DEF Blocks
<1>7. g.used = UNION {Blocks(g.inode[i]) : i \in File}
  BY <1>1, <1>4, <1>5, <1>6
<1>8. ASSUME NEW i \in File, NEW j \in File, NEW p \in Page, NEW q \in Page,
             g.inode[i].map[p] # NoBlock, g.inode[i].map[p] = g.inode[j].map[q]
      PROVE  i = j /\ p = q
  <2>1. \A k \in File, x \in Page :
            \/ g.inode[k].map[x] = f.inode[k].map[x]
            \/ k = h.file /\ x \in DOMAIN got /\ g.inode[k].map[x] = got[x]
    BY <1>1, <1>4
  <2>2. \A k \in File, x \in Page, y \in DOMAIN got : got[y] # f.inode[k].map[x]
    BY <1>3, <1>5, BlockAssumption DEF Blocks
  <2>3. CASE f.inode[i].map[p] = g.inode[i].map[p] /\ f.inode[j].map[q] = g.inode[j].map[q]
    BY <1>8, <2>3 DEF Good, Exact
  <2>4. CASE ~ (f.inode[i].map[p] = g.inode[i].map[p] /\ f.inode[j].map[q] = g.inode[j].map[q])
    BY <1>3, <1>8, <2>1, <2>2, <2>4
  <2> QED
    BY <2>3, <2>4
<1>9. \A i \in File : g.inode[i].kind = "none" => Blocks(g.inode[i]) = {}
  BY <1>4 DEF Good, Exact
<1>10. Exact(g)
  BY <1>7, <1>8, <1>9 DEF Exact
<1> QED
  BY <1>1, <1>4, <1>10 DEF Leads, Good, Current, g, r

\* Fitting is defined: no page fits always, and there is a largest number.
LargestFit(f, r, off, limit, n) ==
    /\ n \in 0 .. limit /\ Placements(f, r, off, n) # {}
    /\ n = limit \/ Placements(f, r, off, n + 1) = {}

LEMMA FittingExists ==
    ASSUME NEW f, NEW r, NEW off \in Nat, NEW limit \in Nat,
           NEW n, n = Fitting(f, r, off, limit)
    PROVE  LargestFit(f, r, off, limit, n)
<1> DEFINE Fits(k) == Placements(f, r, off, k) # {}
           left == {k \in Nat : k <= limit /\ Fits(limit - k)}
<1>1. Fits(0)
  <2>1. {p \in off .. off + 0 - 1 : r.map[p] = NoBlock} = {}
    BY SMT
  <2> DEFINE none == [p \in {} |-> p]
  <2>2. none \in [{} -> FreeBlocks(f)] /\ IsInjective(none)
    BY DEF IsInjective
  <2> QED
    BY <2>1, <2>2 DEF Placements, Injection
<1> HIDE DEF Fits
<1>2. limit \in left
  BY <1>1
<1>3. PICK m \in left : \A k \in left : ~ (k < m)
  <2>1. IsWellFoundedOn(OpToRel(<, Nat), Nat)
    BY NatLessThanWellFounded, Zenon
  <2>2. \E m \in left : \A k \in left : ~ (<<k, m>> \in OpToRel(<, Nat))
    BY <1>2, <2>1, WFMin, Zenon
  <2>3. \A k, m \in Nat : k < m => <<k, m>> \in OpToRel(<, Nat)
    BY Zenon DEF OpToRel
  <2> QED
    BY <2>2, <2>3, Zenon
<1>4. limit - m \in 0 .. limit /\ Fits(limit - m)
  BY <1>3
<1>5. limit - m = limit \/ ~ Fits(limit - m + 1)
  <2>1. SUFFICES ASSUME m # 0 PROVE ~ Fits(limit - (m - 1))
    BY <1>3
  <2>2. m - 1 \in Nat /\ m - 1 < m /\ m - 1 <= limit
    BY <1>3, <2>1
  <2> QED
    BY <1>3, <2>2
<1>6. \E k \in 0 .. limit : Fits(k) /\ (k = limit \/ ~ Fits(k + 1))
  BY <1>4, <1>5
<1>7. n = CHOOSE k \in 0 .. limit : Fits(k) /\ (k = limit \/ ~ Fits(k + 1))
  BY DEF Fitting, Fits
<1> QED
  BY <1>6, <1>7 DEF Fits, LargestFit

-----------------------------------------------------------------------------
(* do_write and what comes after it *)

\* What a write to an open file makes of f.
GoodWrite(f, w) ==
    /\ w \in [fs : Disk, h : FileHandle, n : Nat, rc : {"ok", "EIO", "ENOSPC"}]
    /\ Leads(f, w.fs) /\ Current(w.fs, w.h)

LEMMA FileWriteGood ==
    ASSUME NEW f, Good(f), NEW h, Current(f, h), h.inode.kind # "none",
           NEW off \in Page, NEW len \in 1 .. MaxPages, off + len <= MaxPages,
           NEW v \in Value, NEW bad, NEW w, w = ext2fs_file_write(f, h, off, len, v, bad)
    PROVE  GoodWrite(f, w) /\ w.n \in 0 .. len
<1> DEFINE limit == IF "write.data" \in bad THEN 1 ELSE len
           n     == Fitting(f, h.inode, off, limit)
           got   == CHOOSE got \in Placements(f, h.inode, off, n) : TRUE
           x     == Stored(f, h, off, v, limit, n, got)
<1>1. /\ off \in Nat /\ limit \in Nat /\ 0 < limit /\ limit <= len
      /\ off + limit <= MaxPages
  BY BoundAssumption DEF Page
<1>2. w = [fs |-> x.fs, h |-> x.h, n |-> n,
           rc |-> IF n = len THEN "ok" ELSE IF n = limit THEN "EIO" ELSE "ENOSPC"]
  BY DEF ext2fs_file_write, WriteTo
<1> HIDE DEF limit, x, n
<1>3. n \in 0 .. limit /\ Placements(f, h.inode, off, n) # {}
  <2>1. off \in Nat /\ limit \in Nat
    BY <1>1
  <2>2. n = Fitting(f, h.inode, off, limit)
    BY DEF n
  <2>3. LargestFit(f, h.inode, off, limit, n)
    BY <2>1, <2>2, FittingExists
  <2> QED
    BY <2>3 DEF LargestFit
<1>4. got \in Placements(f, h.inode, off, n)
  BY <1>3
<1> HIDE DEF n, got
<1>5. Leads(f, x.fs) /\ Current(x.fs, x.h)
  BY <1>1, <1>3, <1>4, StoredGood DEF x
<1>6. w \in [fs : Disk, h : FileHandle, n : Nat, rc : {"ok", "EIO", "ENOSPC"}]
  BY <1>2, <1>3, <1>5 DEF Leads, Good, Current
<1>7. w.fs = x.fs /\ w.h = x.h /\ w.n = n
  BY <1>2
<1>8. n \in 0 .. len
  BY <1>1, <1>3
<1> QED
  BY <1>5, <1>6, <1>7, <1>8 DEF GoodWrite

LEMMA MoveEndGood ==
    ASSUME NEW f, NEW w, GoodWrite(f, w), NEW off \in Nat, off + w.n <= MaxPages,
           NEW size, NEW bad, NEW x, x = MoveEnd(w, off, size, bad)
    PROVE  GoodWrite(f, x)
<1> DEFINE s == ext2fs_file_set_size2(w.fs, w.h, off + w.n)
<1>1. off + w.n \in 0 .. MaxPages
  BY BoundAssumption DEF GoodWrite
<1>2. Good(w.fs) /\ Leads(f, w.fs) /\ Current(w.fs, w.h)
  BY DEF GoodWrite, Leads
<1>3. Leads(f, s.fs) /\ Current(s.fs, s.h)
  <2>1. Leads(w.fs, s.fs) /\ Current(s.fs, s.h)
    BY <1>1, <1>2, SetSizeGood
  <2> QED
    BY <1>2, <2>1 DEF Leads
<1>4. x \in {w, [w EXCEPT !.rc = "EIO"], [w EXCEPT !.fs = s.fs, !.h = s.h]}
  BY DEF MoveEnd
<1> HIDE DEF s
<1>5. CASE x = w
  BY <1>5
<1>6. CASE x = [w EXCEPT !.rc = "EIO"]
  BY <1>6 DEF GoodWrite
<1>7. CASE x = [w EXCEPT !.fs = s.fs, !.h = s.h]
  <2>1. s.fs \in Disk /\ s.h \in FileHandle
    BY <1>3 DEF Leads, Good, Current
  <2>2. x \in [fs : Disk, h : FileHandle, n : Nat, rc : {"ok", "EIO", "ENOSPC"}] /\ x.fs = s.fs /\ x.h = s.h
    BY <1>7, <2>1 DEF GoodWrite
  <2> QED
    BY <1>3, <2>2 DEF GoodWrite
<1> QED
  BY <1>4, <1>5, <1>6, <1>7

LEMMA FlushWrittenGood ==
    ASSUME NEW f, NEW w, GoodWrite(f, w), NEW bad, NEW x, x = FlushWritten(w, bad)
    PROVE  GoodWrite(f, x)
<1> DEFINE l == ext2fs_file_flush(w.fs, w.h, bad)
<1>1. /\ w \in [fs : Disk, h : FileHandle, n : Nat, rc : {"ok", "EIO", "ENOSPC"}]
      /\ Good(w.fs) /\ Leads(f, w.fs) /\ Current(w.fs, w.h)
  BY DEF GoodWrite, Leads
<1>2. /\ SameBlocks(w.fs, l.fs)
      /\ l.h \in FileHandle /\ l.h.inode = w.h.inode /\ l.h.file = w.h.file
  BY <1>1, FlushKeepsBlocks
<1>3. x \in {[w EXCEPT !.n = 0], [w EXCEPT !.rc = "EIO", !.n = 0],
             [w EXCEPT !.fs = l.fs, !.h = l.h, !.rc = "ok"]}
  BY DEF FlushWritten
<1> HIDE DEF l
<1>4. Leads(f, l.fs) /\ Current(l.fs, l.h)
  <2>1. Leads(f, l.fs)
    BY <1>1, <1>2, SameIsGood DEF Leads
  <2>2. l.fs.inode = w.fs.inode
    BY <1>2 DEF SameBlocks
  <2> QED
    BY <1>1, <1>2, <2>1, <2>2 DEF Current
<1>5. CASE x = [w EXCEPT !.n = 0] \/ x = [w EXCEPT !.rc = "EIO", !.n = 0]
  <2>1. /\ x \in [fs : Disk, h : FileHandle, n : Nat, rc : {"ok", "EIO", "ENOSPC"}]
        /\ x.fs = w.fs /\ x.h = w.h
    <3>1. w \in [fs : Disk, h : FileHandle, n : Nat, rc : {"ok", "EIO", "ENOSPC"}]
      BY <1>1
    <3>2. CASE x = [w EXCEPT !.n = 0]
      BY <3>1, <3>2
    <3>3. CASE x = [w EXCEPT !.rc = "EIO", !.n = 0]
      <4> DEFINE e == [w EXCEPT !.rc = "EIO"]
      <4>1. /\ e \in [fs : Disk, h : FileHandle, n : Nat, rc : {"ok", "EIO", "ENOSPC"}]
            /\ e.fs = w.fs /\ e.h = w.h
        BY <3>1
      <4>2. x = [e EXCEPT !.n = 0]
        BY <3>1, <3>3
      <4> HIDE DEF e
      <4> QED
        BY <4>1, <4>2
    <3> QED
      BY <1>5, <3>2, <3>3
  <2> QED
    BY <1>1, <2>1 DEF GoodWrite
<1>6. CASE x = [w EXCEPT !.fs = l.fs, !.h = l.h, !.rc = "ok"]
  <2>1. l.fs \in Disk /\ l.h \in FileHandle
    BY <1>4 DEF Leads, Good, Current
  <2>2. x \in [fs : Disk, h : FileHandle, n : Nat, rc : {"ok", "EIO", "ENOSPC"}] /\ x.fs = l.fs /\ x.h = l.h
    BY <1>1, <1>6, <2>1
  <2> QED
    BY <1>4, <2>2 DEF GoodWrite
<1> QED
  BY <1>3, <1>5, <1>6

LEMMA WriteGood ==
    ASSUME NEW f, Good(f), NEW h, Current(f, h), h.inode.kind # "none",
           NEW off \in Page, NEW len \in 1 .. MaxPages, off + len <= MaxPages,
           NEW v \in Value, NEW bad, NEW x, x = do_write(f, h, off, len, v, bad)
    PROVE  GoodWrite(f, x)
<1> DEFINE w == ext2fs_file_write(f, h, off, len, v, bad)
           m == MoveEnd(w, off, h.inode.size, bad)
<1>1. GoodWrite(f, w) /\ w.n \in 0 .. len
  BY FileWriteGood
<1>2. off \in Nat /\ off + w.n <= MaxPages
  BY <1>1, BoundAssumption DEF Page
<1>3. x = FlushWritten(m, bad)
  BY DEF do_write
<1> HIDE DEF w
<1>4. GoodWrite(f, m)
  BY <1>1, <1>2, MoveEndGood
<1> HIDE DEF m
<1> QED
  BY <1>3, <1>4, FlushWrittenGood

LEMMA ReleaseGood ==
    ASSUME NEW f, Good(f), NEW h \in FileHandle, NEW bad, NEW r, r = do_release(f, h, bad)
    PROVE  Leads(f, r.fs) /\ r = Ret(r.fs, r.rc)
<1> DEFINE l == ext2fs_file_flush(f, h, bad)
<1>1. f \in Disk
  BY DEF Good
<1>2. SameBlocks(f, l.fs)
  BY <1>1, FlushKeepsBlocks
<1>3. r = Ret(l.fs, IF l.rc = "ok" THEN "ok" ELSE "EIO")
  BY DEF do_release
<1> HIDE DEF l
<1>4. r.fs = l.fs
  BY <1>3 DEF Ret
<1> QED
  BY <1>2, <1>3, <1>4, SameIsGood DEF Ret

-----------------------------------------------------------------------------
(* Handlers *)

LEMMA OpenGood ==
    ASSUME NEW f \in Disk, NEW i \in File, NEW ro, NEW bad, NEW o, o = do_open(f, i, ro, bad),
           o.h # NoHandle
    PROVE  Current(f, o.h) /\ o.h.file = i
<1>1. o.h = ext2fs_file_open2(f, i)
  BY DEF do_open
<1> QED
  BY <1>1, OpenCurrent

\* A new inode in place of one whose blocks, if any, are given back.
LEMMA ReplacedGood ==
    ASSUME NEW f, Good(f), NEW i \in File, NEW k \in {"none", "reg", "lnk"}, NEW v \in Datum,
           NEW g \in Disk, g.inode = [f.inode EXCEPT ![i] = NewInode(k, v)],
           g.used = f.used \ Blocks(f.inode[i])
    PROVE  Good(g)
<1>1. /\ Blocks(NewInode(k, v)) = {}
      /\ \A p \in Page : NewInode(k, v).map[p] = NoBlock
  BY NewInodeTyped DEF NewInode
<1>2. /\ g.inode[i] = NewInode(k, v)
      /\ \A j \in File \ {i} : g.inode[j] = f.inode[j]
  BY DEF Good, Disk
<1>3. f.used = UNION {Blocks(f.inode[j]) : j \in File}
  BY DEF Good, Exact
<1>4. \A j \in File \ {i} : Blocks(f.inode[j]) \cap Blocks(f.inode[i]) = {}
  BY DEF Good, Exact, Blocks
<1>5. g.used = UNION {Blocks(g.inode[j]) : j \in File}
  BY <1>1, <1>2, <1>3, <1>4
<1>6. \A j, l \in File : \A p, q \in Page :
        g.inode[j].map[p] # NoBlock /\ g.inode[j].map[p] = g.inode[l].map[q]
            => j = l /\ p = q
  BY <1>1, <1>2 DEF Good, Exact
<1>7. \A j \in File : g.inode[j].kind = "none" => Blocks(g.inode[j]) = {}
  BY <1>1, <1>2 DEF Good, Exact
<1> QED
  BY <1>5, <1>6, <1>7 DEF Good, Exact

LEMMA MadeGood ==
    ASSUME NEW f, Good(f), NEW i \in File, f.inode[i].kind = "none",
           NEW k \in {"reg", "lnk"}, NEW v \in Datum,
           NEW g, g = [f EXCEPT !.inode[i] = NewInode(k, v)]
    PROVE  Leads(f, g) /\ g.inode[i].kind = k
<1>1. NewInode(k, v) \in Inode /\ NewInode(k, v).kind = k
  BY NewInodeTyped
<1>2. /\ g \in Disk /\ g.used = f.used
      /\ g.inode = [f.inode EXCEPT ![i] = NewInode(k, v)]
  BY <1>1 DEF Good, Disk
<1>3. f.used \ Blocks(f.inode[i]) = f.used
  BY DEF Good, Exact
<1>4. g.inode[i].kind = k
  BY <1>1, <1>2 DEF Good, Disk
<1>5. k \in {"none", "reg", "lnk"} /\ g.used = f.used \ Blocks(f.inode[i])
  BY <1>2, <1>3
<1>6. \A x \in Disk : x.inode = g.inode /\ x.used = g.used => Good(x)
  <2> TAKE x \in Disk
  <2> HAVE x.inode = g.inode /\ x.used = g.used
  <2>1. x.inode = [f.inode EXCEPT ![i] = NewInode(k, v)] /\ x.used = f.used \ Blocks(f.inode[i])
    BY <1>2, <1>5
  <2> QED
    BY <1>5, <2>1, ReplacedGood
<1>7. \A j \in File \ {i} : g.inode[j] = f.inode[j]
  BY <1>2 DEF Good, Disk
<1> QED
  BY <1>2, <1>4, <1>6, <1>7 DEF Leads

LEMMA ReadGood ==
    ASSUME Good(disk), NEW i \in File, NEW off, NEW len, NEW bad,
           NEW r, r = op_read(disk, i, off, len, readonly, bad)
    PROVE  Leads(disk, r.fs)
<1> DEFINE o == do_open(disk, i, readonly, bad)
           c == do_release(disk, o.h, bad)
<1>1. CASE o.h = NoHandle
  BY <1>1 DEF op_read, Died, Ret, Leads
<1>2. CASE o.h # NoHandle
  <2>1. o.h \in FileHandle
    BY <1>2, OpenGood DEF Good, Current
  <2>2. Leads(disk, c.fs) /\ c = Ret(c.fs, c.rc)
    BY <2>1, ReleaseGood
  <2>3. r.fs = c.fs
    BY <1>2, <2>2 DEF op_read, Ret
  <2> QED
    BY <2>2, <2>3
<1> QED
  BY <1>1, <1>2

LEMMA WriteHandlerGood ==
    ASSUME Good(disk), NEW i \in File, disk.inode[i].kind # "none",
           NEW off \in Page, NEW len \in 1 .. MaxPages, off + len <= MaxPages,
           NEW v \in Value, NEW bad,
           NEW r, r = op_write(disk, i, off, len, v, readonly, bad)
    PROVE  Leads(disk, r.fs)
<1> DEFINE o == do_open(disk, i, readonly, bad)
           w == do_write(disk, o.h, off, len, v, bad)
           c == do_release(w.fs, w.h, bad)
<1>1. CASE o.h = NoHandle
  BY <1>1 DEF op_write, Died, Ret, Leads
<1>2. CASE o.h # NoHandle
  <2>1. Current(disk, o.h) /\ o.h.inode.kind # "none"
    BY <1>2, OpenGood DEF Good, Current
  <2>2. Leads(disk, w.fs) /\ w.h \in FileHandle
    BY <2>1, WriteGood DEF GoodWrite, Current
  <2>3. Leads(disk, c.fs) /\ c = Ret(c.fs, c.rc)
    BY <2>2, ReleaseGood DEF Leads
  <2>4. r.fs = c.fs
    BY <1>2, <2>3 DEF op_write, CloseWritten, Ret
  <2> QED
    BY <2>3, <2>4
<1> QED
  BY <1>1, <1>2

LEMMA TruncateGood ==
    ASSUME Good(disk), NEW i \in File, NEW size \in 0 .. MaxPages, NEW bad,
           NEW r, r = op_truncate(disk, i, size, readonly, bad)
    PROVE  Leads(disk, r.fs)
<1> DEFINE o == do_open(disk, i, readonly, bad)
           s == ext2fs_file_set_size2(disk, o.h, size)
           c == do_release(s.fs, s.h, bad)
           d == do_release(disk, o.h, bad)
<1>1. CASE o.h = NoHandle
  BY <1>1 DEF op_truncate, Ret, Leads
<1>2. CASE o.h # NoHandle
  <2>1. Current(disk, o.h) /\ o.h \in FileHandle
    BY <1>2, OpenGood DEF Good, Current
  <2>2. Leads(disk, s.fs) /\ s.h \in FileHandle
    BY <2>1, SetSizeGood DEF Current
  <2>3. /\ Leads(disk, c.fs) /\ c = Ret(c.fs, c.rc)
        /\ Leads(disk, d.fs) /\ d = Ret(d.fs, d.rc)
    BY <2>1, <2>2, ReleaseGood DEF Leads
  <2>4. r.fs \in {c.fs, d.fs}
    BY <1>2, <2>3 DEF op_truncate, Ret
  <2> QED
    BY <2>3, <2>4
<1> QED
  BY <1>1, <1>2

LEMMA SymlinkGood ==
    ASSUME Good(disk), NEW i \in File, disk.inode[i].kind = "none",
           NEW v \in Value, NEW long \in BOOLEAN, NEW bad,
           NEW r, r = op_symlink(disk, i, v, long, readonly, bad)
    PROVE  Leads(disk, r.fs)
<1> DEFINE made == [disk EXCEPT !.inode[i] = NewInode("lnk", IF long THEN Zero ELSE v)]
           o == do_open(made, i, readonly, bad)
           w == do_write(made, o.h, 0, 1, v, bad)
           c == do_release(w.fs, w.h, bad)
<1>1. Leads(disk, made) /\ Good(made) /\ made.inode[i].kind = "lnk" /\ made \in Disk
  <2>1. (IF long THEN Zero ELSE v) \in Datum
    BY DEF Datum
  <2> QED
    BY <2>1, MadeGood DEF Leads, Good
<1> HIDE DEF made
<1>2. CASE ~ long \/ o.h = NoHandle
  <2>1. r.fs = made
    BY <1>2 DEF op_symlink, Ret, made
  <2> QED
    BY <1>1, <2>1
<1>3. CASE long /\ o.h # NoHandle
  <2>1. Current(made, o.h) /\ o.h.inode.kind # "none"
    BY <1>1, <1>3, OpenGood DEF Current
  <2>2. 0 \in Page /\ 1 \in 1 .. MaxPages /\ 0 + 1 <= MaxPages
    BY BoundAssumption DEF Page
  <2>3. Leads(made, w.fs) /\ w.h \in FileHandle
    BY <1>1, <2>1, <2>2, WriteGood DEF GoodWrite, Current
  <2>4. Leads(disk, w.fs) /\ Leads(disk, c.fs) /\ c = Ret(c.fs, c.rc)
    BY <1>1, <2>3, ReleaseGood DEF Leads
  <2>5. r = CloseTarget(w, bad)
    BY <1>3 DEF op_symlink, made
  <2>6. r.fs \in {w.fs, c.fs}
    BY <2>5 DEF CloseTarget, Ret
  <2> QED
    BY <2>4, <2>6
<1> QED
  BY <1>2, <1>3

LEMMA UnlinkGood ==
    ASSUME Good(disk), NEW i \in File, NEW r, r = op_unlink(disk, i)
    PROVE  Good(r.fs)
<1>1. NewInode("none", Zero) \in Inode /\ Zero \in Datum
  BY NewInodeTyped DEF Datum
<1>2. r.fs = [disk EXCEPT !.inode[i] = NewInode("none", Zero),
                          !.used = disk.used \ Blocks(disk.inode[i])]
  BY DEF op_unlink, Ret
<1> DEFINE u == disk.used \ Blocks(disk.inode[i])
<1>3. u \in SUBSET Block
  BY DEF Good, Disk
<1>4. r.fs = [disk EXCEPT !.inode[i] = NewInode("none", Zero), !.used = u]
  BY <1>2
<1> HIDE DEF u
<1>5. /\ r.fs \in Disk /\ r.fs.used = u
      /\ r.fs.inode = [disk.inode EXCEPT ![i] = NewInode("none", Zero)]
  BY <1>1, <1>3, <1>4 DEF Good, Disk
<1> QED
  BY <1>1, <1>5, ReplacedGood DEF u

LEMMA ReadlinkGood ==
    ASSUME NEW i, NEW bad, NEW r, r = op_readlink(disk, i, bad)
    PROVE  r.fs = disk
  BY DEF op_readlink, Ret

-----------------------------------------------------------------------------
(* Requests *)

Handles == fh \in [Handle -> FileHandle \cup {NoHandle}]

\* Open files are there: libfuse hides them instead of removing them.
OpenFiles ==
    \A a \in Handle : fh[a] # NoHandle => disk.inode[fh[a].file].kind # "none"

FilesInv == Good(disk) /\ Handles /\ OpenFiles

LEMMA FilesInit == Init => FilesInv
<1> SUFFICES ASSUME Init PROVE FilesInv
  OBVIOUS
<1>1. /\ NewInode("none", Zero) \in Inode /\ Blocks(NewInode("none", Zero)) = {}
      /\ \A p \in Page : NewInode("none", Zero).map[p] = NoBlock
      /\ Zero \in Datum
  BY NewInodeTyped DEF Datum, NewInode
<1>2. /\ disk.inode = [i \in File |-> NewInode("none", Zero)]
      /\ disk.used = {} /\ disk \in Disk
  BY <1>1 DEF Init, Disk
<1>3. Exact(disk)
  BY <1>1, <1>2 DEF Exact
<1>4. Handles /\ OpenFiles
  BY DEF Init, Handles, OpenFiles
<1> QED
  BY <1>2, <1>3, <1>4 DEF FilesInv, Good

\* A request that leaves the open files alone.
LEMMA DoneGood ==
    ASSUME FilesInv, NEW op, NEW r, Leads(disk, r.fs), NEW bad, Done(op, r, bad), UNCHANGED fh
    PROVE  FilesInv'
<1>1. disk' = r.fs
  BY DEF Done
<1>2. Good(disk)'
  BY <1>1 DEF Leads, Good, Exact
<1>3. Handles'
  BY DEF FilesInv, Handles
<1>4. OpenFiles'
  <2>1. \A a \in Handle : fh[a] # NoHandle => fh[a].file \in File
    BY DEF FilesInv, Handles, FileHandle
  <2> QED
    BY <1>1, <2>1 DEF FilesInv, OpenFiles, Leads
<1> QED
  BY <1>2, <1>3, <1>4 DEF FilesInv

LEMMA OpenedGood ==
    ASSUME FilesInv, NEW op, NEW a, NEW f, Leads(disk, f), NEW i \in File, NEW rc, NEW bad,
           f.inode[i].kind # "none", Opened(op, a, f, i, rc, bad)
    PROVE  FilesInv'
<1> DEFINE o == do_open(f, i, readonly, bad)
<1>1. o.h # NoHandle => o.h \in FileHandle /\ o.h.file = i
  BY OpenGood DEF Leads, Good, Current
<1>2. fh' = [fh EXCEPT ![a] = o.h]
  BY DEF Opened
<1>3. disk' = f
  BY DEF Opened, Done, Ret
<1> HIDE DEF o
<1>4. Good(disk)'
  BY <1>3 DEF Leads, Good, Exact
<1>5. Handles'
  BY <1>1, <1>2 DEF FilesInv, Handles
<1>6. OpenFiles'
  <2>1. \A b \in Handle : fh[b] # NoHandle => fh[b].file \in File
    BY DEF FilesInv, Handles, FileHandle
  <2>2. \A b \in Handle : fh'[b] \in {fh[b], o.h}
    BY <1>2 DEF FilesInv, Handles
  <2> QED
    BY <1>1, <1>3, <2>1, <2>2 DEF FilesInv, OpenFiles, Leads
<1> QED
  BY <1>4, <1>5, <1>6 DEF FilesInv

LEMMA RequestGood ==
    ASSUME FilesInv, NEW i \in File, NEW bad, Request(i, bad)
    PROVE  FilesInv'
<1>1. Good(disk)
  BY DEF FilesInv
<1>2. ASSUME NEW a \in Handle, Open(a, i, bad) PROVE FilesInv'
  <2>1. Leads(disk, disk) /\ disk.inode[i].kind # "none"
    BY <1>1, <1>2 DEF Open, Is, Leads
  <2> QED
    BY <1>2, <2>1, OpenedGood DEF Open
<1>3. ASSUME NEW a \in Handle, Create(a, i, bad) PROVE FilesInv'
  <2> DEFINE made == [disk EXCEPT !.inode[i] = NewInode("reg", Zero)]
  <2>1. disk.inode[i].kind = "none" /\ Zero \in Datum
    BY <1>3 DEF Create, Is, Datum
  <2>2. Leads(disk, made) /\ made.inode[i].kind # "none"
    BY <1>1, <2>1, MadeGood
  <2>3. Opened("create", a, made, i, "EIO", bad)
    BY <1>3 DEF Create
  <2> HIDE DEF made
  <2> QED
    BY <2>2, <2>3, OpenedGood
<1>4. ASSUME NEW a \in Handle, NEW off \in Page, NEW len \in 1 .. MaxPages,
             Read(a, i, off, len, bad)
      PROVE  FilesInv'
  <2> DEFINE r == op_read(disk, i, off, len, readonly, bad)
  <2>1. Leads(disk, r.fs)
    BY <1>1, ReadGood
  <2>2. Done("read", r, bad) /\ UNCHANGED fh
    BY <1>4 DEF Read
  <2> HIDE DEF r
  <2> QED
    BY <2>1, <2>2, DoneGood
<1>5. ASSUME NEW a \in Handle, NEW off \in Page, NEW len \in 1 .. MaxPages, NEW v \in Value,
             Write(a, i, off, len, v, bad)
      PROVE  FilesInv'
  <2> DEFINE r == op_write(disk, i, off, len, v, readonly, bad)
  <2>1. off + len <= MaxPages
    BY <1>5 DEF Write
  <2>2. disk.inode[i].kind # "none"
    BY <1>5 DEF Write, OpenOn, FilesInv, OpenFiles
  <2>3. Leads(disk, r.fs)
    BY <1>1, <2>1, <2>2, WriteHandlerGood
  <2>4. Done("write", r, bad) /\ UNCHANGED fh
    BY <1>5 DEF Write
  <2> HIDE DEF r
  <2> QED
    BY <2>3, <2>4, DoneGood
<1>6. ASSUME NEW size \in 0 .. MaxPages, Truncate(i, size, bad) PROVE FilesInv'
  <2> DEFINE r == op_truncate(disk, i, size, readonly, bad)
  <2>1. Leads(disk, r.fs)
    BY <1>1, TruncateGood
  <2>2. Done("truncate", r, bad) /\ UNCHANGED fh
    BY <1>6 DEF Truncate
  <2> HIDE DEF r
  <2> QED
    BY <2>1, <2>2, DoneGood
<1>7. ASSUME NEW v \in Value, NEW long \in BOOLEAN, Symlink(i, v, long, bad) PROVE FilesInv'
  <2> DEFINE r == op_symlink(disk, i, v, long, readonly, bad)
  <2>1. disk.inode[i].kind = "none"
    BY <1>7 DEF Symlink, Is
  <2>2. Leads(disk, r.fs)
    BY <1>1, <2>1, SymlinkGood
  <2>3. Done("symlink", r, bad) /\ UNCHANGED fh
    BY <1>7 DEF Symlink
  <2> HIDE DEF r
  <2> QED
    BY <2>2, <2>3, DoneGood
<1>8. ASSUME Readlink(i, bad) PROVE FilesInv'
  <2> DEFINE r == op_readlink(disk, i, bad)
  <2>1. Leads(disk, r.fs)
    BY <1>1, ReadlinkGood DEF Leads
  <2>2. Done("readlink", r, bad) /\ UNCHANGED fh
    BY <1>8 DEF Readlink
  <2> HIDE DEF r
  <2> QED
    BY <2>1, <2>2, DoneGood
<1> QED
  BY <1>2, <1>3, <1>4, <1>5, <1>6, <1>7, <1>8 DEF Request

LEMMA UnlinkStepGood ==
    ASSUME FilesInv, NEW i \in File, Unlink(i)
    PROVE  FilesInv'
<1> DEFINE r == op_unlink(disk, i)
<1>1. Good(disk) /\ Good(r.fs)
  BY UnlinkGood DEF FilesInv
<1>2. disk' = r.fs /\ fh' = fh
  BY DEF Unlink, Done
<1>3. \A a \in Handle : fh[a] # NoHandle => fh[a].file \in File \ {i}
  BY DEF Unlink, OpenOn, FilesInv, Handles, FileHandle
<1>4. \A j \in File \ {i} : r.fs.inode[j] = disk.inode[j]
  BY <1>1 DEF op_unlink, Ret, Good, Disk
<1> HIDE DEF r
<1>5. Good(disk)'
  BY <1>1, <1>2 DEF Good, Exact
<1>6. Handles' /\ OpenFiles'
  BY <1>2, <1>3, <1>4 DEF FilesInv, Handles, OpenFiles
<1> QED
  BY <1>5, <1>6 DEF FilesInv

LEMMA FlushStepGood ==
    ASSUME FilesInv, NEW a \in Handle, op_flush(a)
    PROVE  FilesInv'
<1> DEFINE l == ext2fs_file_flush(disk, fh[a], {})
<1>1. Good(disk) /\ disk \in Disk /\ fh[a] \in FileHandle /\ fh[a] # NoHandle
  BY DEF op_flush, FilesInv, Handles, Good
<1>2. /\ SameBlocks(disk, l.fs)
      /\ l.h \in FileHandle /\ l.h.inode = fh[a].inode /\ l.h.file = fh[a].file
  BY <1>1, FlushKeepsBlocks
<1>3. disk' = l.fs /\ fh' = [fh EXCEPT ![a] = l.h]
  BY DEF op_flush, Done, Ret
<1> HIDE DEF l
<1>4. Leads(disk, l.fs)
  BY <1>1, <1>2, SameIsGood
<1>5. Good(disk)'
  BY <1>3, <1>4 DEF Leads, Good, Exact
<1>6. Handles'
  BY <1>2, <1>3 DEF FilesInv, Handles
<1>7. OpenFiles'
  <2>1. \A b \in Handle : fh[b] # NoHandle => fh[b].file \in File
    BY DEF FilesInv, Handles, FileHandle
  <2>2. \A b \in Handle : fh'[b] = fh[b] \/ (b = a /\ fh'[b] = l.h)
    BY <1>3 DEF FilesInv, Handles
  <2>3. \A b \in Handle : fh'[b] # NoHandle => fh[b] # NoHandle /\ fh'[b].file = fh[b].file
    BY <1>1, <1>2, <2>2
  <2> QED
    BY <1>3, <1>4, <2>1, <2>3 DEF FilesInv, OpenFiles, Leads
<1> QED
  BY <1>5, <1>6, <1>7 DEF FilesInv

LEMMA ReleaseStepGood ==
    ASSUME FilesInv, NEW a \in Handle, op_release(a)
    PROVE  FilesInv'
<1> DEFINE r == do_release(disk, fh[a], {})
<1>1. Good(disk) /\ fh[a] \in FileHandle
  BY DEF op_release, FilesInv, Handles
<1>2. Leads(disk, r.fs)
  BY <1>1, ReleaseGood
<1>3. disk' = r.fs /\ fh' = [fh EXCEPT ![a] = NoHandle]
  BY DEF op_release, Done
<1> HIDE DEF r
<1>4. Good(disk)'
  BY <1>2, <1>3 DEF Leads, Good, Exact
<1>5. Handles'
  BY <1>3 DEF FilesInv, Handles
<1>6. OpenFiles'
  <2>1. \A b \in Handle : fh[b] # NoHandle => fh[b].file \in File
    BY DEF FilesInv, Handles, FileHandle
  <2>2. \A b \in Handle : fh'[b] \in {fh[b], NoHandle}
    BY <1>3 DEF FilesInv, Handles
  <2> QED
    BY <1>2, <1>3, <2>1, <2>2 DEF FilesInv, OpenFiles, Leads
<1> QED
  BY <1>4, <1>5, <1>6 DEF FilesInv

LEMMA FilesUnchanged ==
    ASSUME FilesInv, UNCHANGED <<disk, fh>>
    PROVE  FilesInv'
  BY DEF FilesInv, Good, Exact, Handles, OpenFiles

LEMMA FilesStep == FilesInv /\ [Next]_vars => FilesInv'
<1> SUFFICES ASSUME FilesInv, [Next]_vars PROVE FilesInv'
  OBVIOUS
<1>1. CASE \E i \in File, bad \in Faults : Request(i, bad)
  BY <1>1, RequestGood
<1>2. CASE \E i \in File : Unlink(i)
  BY <1>2, UnlinkStepGood
<1>3. CASE \E a \in Handle : op_flush(a) \/ op_release(a)
  BY <1>3, FlushStepGood, ReleaseStepGood
<1>4. CASE \E ro \in BOOLEAN : Mount(ro)
  BY <1>4, FilesUnchanged DEF Mount
<1>5. CASE UNCHANGED vars
  BY <1>5, FilesUnchanged DEF vars
<1> QED
  BY <1>1, <1>2, <1>3, <1>4, <1>5 DEF Next

\* No block belongs to two pages and the bitmap has the blocks of files and no
\* other, for every number of files, open files, pages and blocks, and
\* whichever calls fail together: the copies of the inode in the handles of
\* open files are never written back late.
THEOREM FileBlocksExact == Spec => []BlocksExact
<1>1. FilesInv => BlocksExact
  BY DEF FilesInv, Good, Exact, BlocksExact
<1> QED
  BY <1>1, FilesInit, FilesStep, PTL DEF Spec

-----------------------------------------------------------------------------
(* Forgotten handles *)

\* What LossIsReported asks of a handler's result.
Honest(r) == r.lost = 0 \/ (r.lost = 1 /\ r.rc # "ok")

LEMMA OpenHonest ==
    ASSUME NEW f, NEW i, NEW ro, NEW bad, NEW o, o = do_open(f, i, ro, bad)
    PROVE  o.lost \in {0, 1} /\ (o.lost = 1 => o.h = NoHandle)
  BY DEF do_open

LEMMA ReleaseHonest ==
    ASSUME NEW f, NEW h, NEW bad, NEW r, r = do_release(f, h, bad)
    PROVE  r = Ret(r.fs, r.rc) /\ r.lost = 0 /\ r.rc \in {"ok", "EIO"}
  BY DEF do_release, Ret

LEMMA HandlersHonest ==
    ASSUME NEW f, NEW i, NEW bad, NEW ro
    PROVE  /\ \A off, len : Honest(op_read(f, i, off, len, ro, bad))
           /\ \A off, len, v : Honest(op_write(f, i, off, len, v, ro, bad))
           /\ \A size : Honest(op_truncate(f, i, size, ro, bad))
           /\ \A v, long : Honest(op_symlink(f, i, v, long, ro, bad))
           /\ Honest(op_readlink(f, i, bad))
           /\ Honest(op_unlink(f, i))
<1> DEFINE o == do_open(f, i, ro, bad)
<1>1. o.lost \in {0, 1} /\ (o.lost = 1 => o.h = NoHandle)
  BY OpenHonest
<1> HIDE DEF o
<1>2. Honest(Died(f, o))
  BY <1>1 DEF Died, Ret, Honest
<1>3. ASSUME NEW off, NEW len PROVE Honest(op_read(f, i, off, len, ro, bad))
  <2> DEFINE r == op_read(f, i, off, len, ro, bad)
             c == do_release(f, o.h, bad)
  <2>1. c = Ret(c.fs, c.rc)
    BY ReleaseHonest
  <2>2. r = Died(f, o) \/ r.lost = 0
    BY <2>1 DEF op_read, Ret, o
  <2> QED
    BY <1>2, <2>2 DEF Honest
<1>4. ASSUME NEW off, NEW len, NEW v PROVE Honest(op_write(f, i, off, len, v, ro, bad))
  <2> DEFINE r == op_write(f, i, off, len, v, ro, bad)
             w == do_write(f, o.h, off, len, v, bad)
             c == do_release(w.fs, w.h, bad)
  <2>1. c = Ret(c.fs, c.rc)
    BY ReleaseHonest
  <2>2. r = Died(f, o) \/ r = CloseWritten(w, bad)
    BY DEF op_write, o
  <2>3. CloseWritten(w, bad).lost = 0
    BY <2>1 DEF CloseWritten, Ret
  <2> QED
    BY <1>2, <2>2, <2>3 DEF Honest
<1>5. ASSUME NEW size PROVE Honest(op_truncate(f, i, size, ro, bad))
  <2> DEFINE r == op_truncate(f, i, size, ro, bad)
             s == ext2fs_file_set_size2(f, o.h, size)
             c == do_release(s.fs, s.h, bad)
             d == do_release(f, o.h, bad)
  <2>1. c = Ret(c.fs, c.rc) /\ d = Ret(d.fs, d.rc)
    BY ReleaseHonest
  <2>2. r = [Ret(f, "ENOENT") EXCEPT !.lost = o.lost] \/ r.lost = 0
    BY <2>1 DEF op_truncate, Ret, o
  <2>3. Honest([Ret(f, "ENOENT") EXCEPT !.lost = o.lost])
    BY <1>1 DEF Ret, Honest
  <2> QED
    BY <2>2, <2>3 DEF Honest
<1>6. ASSUME NEW v, NEW long PROVE Honest(op_symlink(f, i, v, long, ro, bad))
  <2> DEFINE r == op_symlink(f, i, v, long, ro, bad)
             made == [f EXCEPT !.inode[i] = NewInode("lnk", IF long THEN Zero ELSE v)]
             p == do_open(made, i, ro, bad)
             w == do_write(made, p.h, 0, 1, v, bad)
             c == do_release(w.fs, w.h, bad)
  <2>1. c = Ret(c.fs, c.rc)
    BY ReleaseHonest
  <2>2. p.lost \in {0, 1}
    BY OpenHonest
  <2>3. r \in {Ret(made, "ok"), [Ret(made, "EIO") EXCEPT !.lost = p.lost], CloseTarget(w, bad)}
    BY DEF op_symlink
  <2> HIDE DEF made, p, w
  <2>4. Honest(CloseTarget(w, bad))
    BY <2>1 DEF CloseTarget, Ret, Honest
  <2>5. Honest(Ret(made, "ok")) /\ Honest([Ret(made, "EIO") EXCEPT !.lost = p.lost])
    BY <2>2 DEF Ret, Honest
  <2> QED
    BY <2>3, <2>4, <2>5
<1>7. Honest(op_readlink(f, i, bad)) /\ Honest(op_unlink(f, i))
  BY DEF op_readlink, op_unlink, Ret, Honest
<1> QED
  BY <1>3, <1>4, <1>5, <1>6, <1>7

LEMMA DoneHonest ==
    ASSUME NEW op, NEW r, Honest(r), NEW bad, Done(op, r, bad)
    PROVE  ret'.lost > 0 => ret'.rc # "ok"
  BY DEF Done, Honest

LEMMA OpenedHonest ==
    ASSUME NEW op, NEW a, NEW f, NEW i, NEW rc \in {"ENOENT", "EIO"}, NEW bad,
           Opened(op, a, f, i, rc, bad)
    PROVE  ret'.lost > 0 => ret'.rc # "ok"
<1> DEFINE o == do_open(f, i, readonly, bad)
           r == [Ret(f, IF o.h = NoHandle THEN rc ELSE "ok") EXCEPT !.lost = o.lost]
<1>1. o.lost \in {0, 1} /\ (o.lost = 1 => o.h = NoHandle)
  BY OpenHonest
<1>2. Done(op, r, bad)
  BY DEF Opened
<1> HIDE DEF o
<1>3. Honest(r)
  BY <1>1 DEF Ret, Honest
<1> QED
  BY <1>2, <1>3, DoneHonest

\* A handler that opens a file and forgets its handle reports an error, or
\* dies of it, whichever calls fail together: nothing leaks unseen.
THEOREM ForgottenHandlesReported == Spec => LossIsReported
<1>1. ASSUME [Next]_vars PROVE [ret'.lost > 0 => ret'.rc # "ok"]_vars
  <2>1. ASSUME NEW i \in File, NEW bad \in Faults, Request(i, bad)
        PROVE  ret'.lost > 0 => ret'.rc # "ok"
    <3>1. CASE \E a \in Handle : Open(a, i, bad) \/ Create(a, i, bad)
      BY <3>1, OpenedHonest DEF Open, Create
    <3>2. CASE \E a \in Handle, off \in Page, len \in 1 .. MaxPages : Read(a, i, off, len, bad)
      BY <3>2, HandlersHonest, DoneHonest DEF Read
    <3>3. CASE \E a \in Handle, off \in Page, len \in 1 .. MaxPages, v \in Value :
                    Write(a, i, off, len, v, bad)
      BY <3>3, HandlersHonest, DoneHonest DEF Write
    <3>4. CASE \E size \in 0 .. MaxPages : Truncate(i, size, bad)
      BY <3>4, HandlersHonest, DoneHonest DEF Truncate
    <3>5. CASE \E v \in Value, long \in BOOLEAN : Symlink(i, v, long, bad)
      BY <3>5, HandlersHonest, DoneHonest DEF Symlink
    <3>6. CASE Readlink(i, bad)
      BY <3>6, HandlersHonest, DoneHonest DEF Readlink
    <3> QED
      BY <2>1, <3>1, <3>2, <3>3, <3>4, <3>5, <3>6 DEF Request
  <2>2. ASSUME NEW i \in File, Unlink(i) PROVE ret'.lost > 0 => ret'.rc # "ok"
    BY <2>2, HandlersHonest, DoneHonest DEF Unlink
  <2>3. ASSUME NEW a \in Handle, op_flush(a) \/ op_release(a)
        PROVE  ret'.lost > 0 => ret'.rc # "ok"
    BY <2>3, ReleaseHonest, DoneHonest DEF op_flush, op_release, Ret, Honest
  <2>4. ASSUME NEW ro \in BOOLEAN, Mount(ro) PROVE ret'.lost > 0 => ret'.rc # "ok"
    BY <2>4 DEF Mount
  <2> QED
    BY <1>1, <2>1, <2>2, <2>3, <2>4 DEF Next
<1> QED
  BY <1>1, PTL DEF Spec, LossIsReported

-----------------------------------------------------------------------------
(* Replies *)

Pages == UNION {[S -> Datum] : S \in SUBSET Page}

\* What TypeOK asks of a handler's result.
Answer(r) ==
    /\ r.rc \in {"ok", "EIO", "ENOENT", "died"}
    /\ r.n \in 0 .. MaxPages
    /\ r.data \in Pages

LEMMA NoPages == <<>> \in Pages
<1>1. DOMAIN <<>> = {}
  OBVIOUS
<1>2. <<>> \in [{} -> Datum]
  BY <1>1
<1> QED
  BY <1>2 DEF Pages

LEMMA RetAnswers ==
    ASSUME NEW f, NEW rc \in {"ok", "EIO", "ENOENT", "died"}
    PROVE  Answer(Ret(f, rc))
<1>1. 0 \in 0 .. MaxPages
  BY BoundAssumption
<1> QED
  BY <1>1, NoPages DEF Answer, Ret

LEMMA AnswerWithLost ==
    ASSUME NEW f, NEW rc \in {"ok", "EIO", "ENOENT", "died"}, NEW lost,
           NEW r, r = [Ret(f, rc) EXCEPT !.lost = lost]
    PROVE  Answer(r) /\ r.fs = f /\ r.rc = rc
<1>1. r.rc = rc /\ r.n = Ret(f, rc).n /\ r.data = Ret(f, rc).data /\ r.fs = f
  BY DEF Ret
<1> QED
  BY <1>1, RetAnswers DEF Answer, Ret

LEMMA PageTyped ==
    ASSUME NEW f \in Disk, NEW r \in Inode, NEW p \in Page
    PROVE  PageOf(f, r, p) \in Datum
  BY DEF Inode, Disk, PageOf, Datum

\* A write reports no more pages than were asked for, and one of two results.
LEMMA WriteAnswers ==
    ASSUME NEW f, Good(f), NEW h, Current(f, h), h.inode.kind # "none",
           NEW off \in Page, NEW len \in 1 .. MaxPages, off + len <= MaxPages,
           NEW v \in Value, NEW bad, NEW x, x = do_write(f, h, off, len, v, bad)
    PROVE  x.n \in 0 .. len /\ x.rc \in {"ok", "EIO"}
<1> DEFINE w == ext2fs_file_write(f, h, off, len, v, bad)
           m == MoveEnd(w, off, h.inode.size, bad)
           s == ext2fs_file_set_size2(w.fs, w.h, off + w.n)
           l == ext2fs_file_flush(m.fs, m.h, bad)
           Result == [fs : Disk, h : FileHandle, n : Nat, rc : {"ok", "EIO", "ENOSPC"}]
<1>1. GoodWrite(f, w) /\ w.n \in 0 .. len
  BY FileWriteGood
<1>2. x = FlushWritten(m, bad)
  BY DEF do_write
<1>3. off \in Nat /\ off + w.n <= MaxPages
  BY <1>1, BoundAssumption DEF Page
<1>4. m \in {w, [w EXCEPT !.rc = "EIO"], [w EXCEPT !.fs = s.fs, !.h = s.h]}
  BY DEF MoveEnd
<1>5. w \in Result
  BY <1>1 DEF GoodWrite
<1> HIDE DEF w, s
<1>6. m \in Result
  BY <1>1, <1>3, MoveEndGood DEF GoodWrite
<1> HIDE DEF m
<1>7. m.n = w.n
  BY <1>4, <1>5
<1>8. /\ m.rc = "EIO" => x = [m EXCEPT !.n = 0]
      /\ m.rc # "EIO" /\ l.rc = "EIO" => x = [m EXCEPT !.rc = "EIO", !.n = 0]
      /\ m.rc # "EIO" /\ l.rc # "EIO" => x = [m EXCEPT !.fs = l.fs, !.h = l.h, !.rc = "ok"]
  BY <1>2 DEF FlushWritten
<1> HIDE DEF l
<1>9. x.n \in {0, m.n} /\ x.rc \in {"ok", "EIO"}
  BY <1>6, <1>8
<1>10. 0 \in 0 .. len
  BY BoundAssumption
<1> QED
  BY <1>1, <1>7, <1>9, <1>10

LEMMA ReadAnswers ==
    ASSUME Good(disk), NEW i \in File, NEW off \in Page, NEW len \in 1 .. MaxPages, NEW bad,
           NEW r, r = op_read(disk, i, off, len, readonly, bad)
    PROVE  Answer(r)
<1> DEFINE o == do_open(disk, i, readonly, bad)
           c == do_release(disk, o.h, bad)
           last == IF off + len < o.h.inode.size THEN off + len ELSE o.h.inode.size
           data == [p \in off .. last - 1 |-> PageOf(disk, o.h.inode, p)]
<1>1. c = Ret(c.fs, c.rc) /\ c.rc \in {"ok", "EIO"}
  BY ReleaseHonest
<1>2. CASE o.h = NoHandle
  <2>1. r = [Ret(disk, "died") EXCEPT !.lost = o.lost]
    BY <1>2 DEF op_read, Died
  <2> QED
    BY <2>1, AnswerWithLost
<1>3. CASE o.h # NoHandle /\ "read.data" \in bad
  <2>1. r = [c EXCEPT !.rc = "EIO"]
    BY <1>3 DEF op_read
  <2>2. r = Ret(c.fs, "EIO")
    BY <1>1, <2>1 DEF Ret
  <2> QED
    BY <2>2, RetAnswers
<1>4. CASE o.h # NoHandle /\ "read.data" \notin bad
  <2>1. o.h.inode \in Inode /\ disk \in Disk
    BY <1>4, OpenGood DEF Good, Current, FileHandle
  <2>2. o.h.inode.size \in 0 .. MaxPages
    BY <2>1 DEF Inode
  <2> DEFINE size == o.h.inode.size
  <2>3. off .. last - 1 \subseteq Page
    <3> HIDE DEF o
    <3> QED
      BY <2>2, BoundAssumption DEF Page
  <2>4. \A p \in Page : PageOf(disk, o.h.inode, p) \in Datum
    BY <2>1, PageTyped
  <2> DEFINE S == off .. last - 1
  <2>5. data \in [S -> Datum]
    BY <2>3, <2>4
  <2> HIDE DEF S
  <2>6. data \in Pages
    BY <2>3, <2>5 DEF Pages, S
  <2>7. r = [c EXCEPT !.rc = "ok", !.data = data]
    BY <1>4 DEF op_read
  <2> HIDE DEF data
  <2>8. r.rc = "ok" /\ r.n = 0 /\ r.data = data
    BY <1>1, <2>7 DEF Ret
  <2>9. 0 \in 0 .. MaxPages
    BY BoundAssumption
  <2> QED
    BY <2>6, <2>8, <2>9 DEF Answer
<1> QED
  BY <1>2, <1>3, <1>4

LEMMA WriteHandlerAnswers ==
    ASSUME Good(disk), NEW i \in File, disk.inode[i].kind # "none",
           NEW off \in Page, NEW len \in 1 .. MaxPages, off + len <= MaxPages,
           NEW v \in Value, NEW bad,
           NEW r, r = op_write(disk, i, off, len, v, readonly, bad)
    PROVE  Answer(r)
<1> DEFINE o == do_open(disk, i, readonly, bad)
           w == do_write(disk, o.h, off, len, v, bad)
           c == do_release(w.fs, w.h, bad)
<1>1. CASE o.h = NoHandle
  <2>1. r = [Ret(disk, "died") EXCEPT !.lost = o.lost]
    BY <1>1 DEF op_write, Died
  <2> QED
    BY <2>1, AnswerWithLost
<1>2. CASE o.h # NoHandle
  <2>1. Current(disk, o.h) /\ o.h.inode.kind # "none"
    BY <1>2, OpenGood DEF Good, Current
  <2>2. w.n \in 0 .. len /\ w.rc \in {"ok", "EIO"}
    BY <2>1, WriteAnswers
  <2>3. c = Ret(c.fs, c.rc) /\ c.rc \in {"ok", "EIO"}
    BY ReleaseHonest
  <2>4. r = [c EXCEPT !.rc = w.rc, !.n = w.n]
    BY <1>2 DEF op_write, CloseWritten
  <2> HIDE DEF w, c
  <2>5. r.rc = w.rc /\ r.n = w.n /\ r.data = <<>>
    BY <2>3, <2>4 DEF Ret
  <2>6. w.n \in 0 .. MaxPages
    BY <2>2, BoundAssumption
  <2> QED
    BY <2>2, <2>5, <2>6, NoPages DEF Answer
<1> QED
  BY <1>1, <1>2

LEMMA TruncateAnswers ==
    ASSUME NEW i, NEW size, NEW bad, NEW r, r = op_truncate(disk, i, size, readonly, bad)
    PROVE  Answer(r)
<1> DEFINE o == do_open(disk, i, readonly, bad)
           s == ext2fs_file_set_size2(disk, o.h, size)
           c == do_release(s.fs, s.h, bad)
           d == do_release(disk, o.h, bad)
<1>1. /\ c = Ret(c.fs, c.rc) /\ c.rc \in {"ok", "EIO"}
      /\ d = Ret(d.fs, d.rc)
  BY ReleaseHonest
<1>2. r \in {[Ret(disk, "ENOENT") EXCEPT !.lost = o.lost],
             [d EXCEPT !.rc = "EIO"], [c EXCEPT !.rc = "EIO"], c}
  BY DEF op_truncate
<1> HIDE DEF o, c, d
<1>3. [d EXCEPT !.rc = "EIO"] = Ret(d.fs, "EIO") /\ [c EXCEPT !.rc = "EIO"] = Ret(c.fs, "EIO")
  BY <1>1 DEF Ret
<1>4. Answer(c)
  BY <1>1, RetAnswers
<1> QED
  BY <1>2, <1>3, <1>4, RetAnswers, AnswerWithLost

LEMMA SymlinkAnswers ==
    ASSUME NEW i, NEW v, NEW long, NEW bad,
           NEW r, r = op_symlink(disk, i, v, long, readonly, bad)
    PROVE  Answer(r)
<1> DEFINE made == [disk EXCEPT !.inode[i] = NewInode("lnk", IF long THEN Zero ELSE v)]
           o == do_open(made, i, readonly, bad)
           w == do_write(made, o.h, 0, 1, v, bad)
           c == do_release(w.fs, w.h, bad)
<1>1. c = Ret(c.fs, c.rc) /\ c.rc \in {"ok", "EIO"}
  BY ReleaseHonest
<1>2. r \in {Ret(made, "ok"), [Ret(made, "EIO") EXCEPT !.lost = o.lost],
             [Ret(w.fs, "EIO") EXCEPT !.lost = 1], c}
  BY DEF op_symlink, CloseTarget
<1> HIDE DEF made, o, w, c
<1>3. Answer(c)
  BY <1>1, RetAnswers
<1>4. Answer(Ret(made, "ok"))
  BY RetAnswers
<1>5. \A f, lost : Answer([Ret(f, "EIO") EXCEPT !.lost = lost])
  BY AnswerWithLost
<1> QED
  BY <1>2, <1>3, <1>4, <1>5

LEMMA ReadlinkAnswers ==
    ASSUME Good(disk), NEW i \in File, NEW bad, NEW r, r = op_readlink(disk, i, bad)
    PROVE  Answer(r)
<1> DEFINE t == disk.inode[i]
           b == IF Extents THEN HeaderBlock ELSE t.map[0]
           Target(v) == [Ret(disk, "ok") EXCEPT !.data = [p \in {0} |-> v]]
<1>1. disk \in Disk /\ t.short \in Datum
  BY DEF Good, Disk, Inode
<1>2. \/ r \in {Ret(disk, "EIO"), Ret(disk, "ok"), Target(t.short)}
      \/ b \in Block /\ r = Target(disk.content[b])
  BY DEF op_readlink
<1>3. b \in Block => disk.content[b] \in Datum
  BY <1>1 DEF Disk
<1> HIDE DEF t, b
<1>4. ASSUME NEW v \in Datum PROVE Answer(Target(v))
  <2> DEFINE data == [p \in {0} |-> v]
  <2>1. {0} \in SUBSET Page
    BY BoundAssumption DEF Page
  <2>2. data \in [{0} -> Datum]
    OBVIOUS
  <2>3. data \in Pages
    BY <2>1, <2>2 DEF Pages
  <2> HIDE DEF data
  <2>4. Target(v).rc = "ok" /\ Target(v).n = Ret(disk, "ok").n /\ Target(v).data = data
    BY DEF Ret, data
  <2> QED
    BY <2>3, <2>4, RetAnswers DEF Answer
<1> HIDE DEF Target
<1> QED
  BY <1>1, <1>2, <1>3, <1>4, RetAnswers

LEMMA UnlinkAnswers ==
    ASSUME NEW i
    PROVE  Answer(op_unlink(disk, i))
  BY RetAnswers DEF op_unlink

ReplyTyped ==
    /\ ret.op \in Op /\ ret.rc \in {"ok", "EIO", "ENOENT", "died"}
    /\ ret.n \in 0 .. MaxPages
    /\ ret.data \in Pages
    /\ ret.lost \in 0 .. 1 /\ ret.clean \in BOOLEAN

LEMMA DoneAnswers ==
    ASSUME NEW op \in Op, NEW r, Answer(r), Honest(r), NEW bad, Done(op, r, bad)
    PROVE  ReplyTyped' /\ up' \in BOOLEAN /\ readonly' = readonly
<1>1. /\ ret'.op = op /\ ret'.rc = r.rc /\ ret'.n = r.n /\ ret'.data = r.data
      /\ ret'.lost = r.lost /\ ret'.clean = (bad = {})
      /\ up' = (r.rc # "died") /\ readonly' = readonly
  BY DEF Done
<1>2. r.lost \in 0 .. 1
  BY DEF Honest
<1>3. (bad = {}) \in BOOLEAN /\ (r.rc # "died") \in BOOLEAN
  OBVIOUS
<1> QED
  BY <1>1, <1>2, <1>3, Zenon DEF ReplyTyped, Answer, Pages

LEMMA OpenedAnswers ==
    ASSUME NEW op \in Op, NEW a, NEW f, NEW i, NEW rc \in {"ENOENT", "EIO"}, NEW bad,
           Opened(op, a, f, i, rc, bad)
    PROVE  ReplyTyped' /\ up' \in BOOLEAN /\ readonly' = readonly
<1> DEFINE o == do_open(f, i, readonly, bad)
           code == IF o.h = NoHandle THEN rc ELSE "ok"
           r == [Ret(f, code) EXCEPT !.lost = o.lost]
<1>1. o.lost \in {0, 1} /\ (o.lost = 1 => o.h = NoHandle)
  BY OpenHonest
<1>2. Done(op, r, bad)
  BY DEF Opened
<1> HIDE DEF o
<1>3. Honest(r)
  BY <1>1 DEF Ret, Honest
<1>4. code \in {"ok", "EIO", "ENOENT", "died"}
  OBVIOUS
<1> HIDE DEF code
<1>5. Answer(r)
  BY <1>4, AnswerWithLost
<1> HIDE DEF r
<1> QED
  BY <1>2, <1>3, <1>5, DoneAnswers

LEMMA StepAnswers ==
    ASSUME FilesInv, readonly \in BOOLEAN, up \in BOOLEAN, Next
    PROVE  ReplyTyped' /\ up' \in BOOLEAN /\ readonly' \in BOOLEAN
<1> USE DEF Op
<1>1. Good(disk)
  BY DEF FilesInv
<1>2. ASSUME NEW i \in File, NEW bad \in Faults, Request(i, bad)
      PROVE  ReplyTyped' /\ up' \in BOOLEAN /\ readonly' = readonly
  <2>1. CASE \E a \in Handle : Open(a, i, bad) \/ Create(a, i, bad)
    BY <2>1, OpenedAnswers DEF Open, Create
  <2>2. CASE \E a \in Handle, off \in Page, len \in 1 .. MaxPages : Read(a, i, off, len, bad)
    BY <1>1, <2>2, HandlersHonest, ReadAnswers, DoneAnswers DEF Read
  <2>3. ASSUME NEW a \in Handle, NEW off \in Page, NEW len \in 1 .. MaxPages, NEW v \in Value,
               Write(a, i, off, len, v, bad)
        PROVE  ReplyTyped' /\ up' \in BOOLEAN /\ readonly' = readonly
    <3> DEFINE r == op_write(disk, i, off, len, v, readonly, bad)
    <3>1. disk.inode[i].kind # "none" /\ off + len <= MaxPages /\ Done("write", r, bad)
      BY <2>3 DEF Write, OpenOn, FilesInv, OpenFiles
    <3>2. Answer(r) /\ Honest(r)
      BY <1>1, <3>1, HandlersHonest, WriteHandlerAnswers
    <3> HIDE DEF r
    <3> QED
      BY <3>1, <3>2, DoneAnswers
  <2>4. CASE \E size \in 0 .. MaxPages : Truncate(i, size, bad)
    BY <2>4, HandlersHonest, TruncateAnswers, DoneAnswers DEF Truncate
  <2>5. CASE \E v \in Value, long \in BOOLEAN : Symlink(i, v, long, bad)
    BY <2>5, HandlersHonest, SymlinkAnswers, DoneAnswers DEF Symlink
  <2>6. CASE Readlink(i, bad)
    BY <1>1, <2>6, HandlersHonest, ReadlinkAnswers, DoneAnswers DEF Readlink
  <2> QED
    BY <1>2, <2>1, <2>2, <2>3, <2>4, <2>5, <2>6 DEF Request
<1>3. ASSUME NEW i \in File, Unlink(i)
      PROVE  ReplyTyped' /\ up' \in BOOLEAN /\ readonly' = readonly
  BY <1>3, HandlersHonest, UnlinkAnswers, DoneAnswers DEF Unlink
<1>4. ASSUME NEW a \in Handle, op_flush(a) \/ op_release(a)
      PROVE  ReplyTyped' /\ up' \in BOOLEAN /\ readonly' = readonly
  <2>1. CASE op_flush(a)
    <3> DEFINE l == ext2fs_file_flush(disk, fh[a], {})
               code == IF l.rc = "ok" THEN "ok" ELSE "EIO"
               r == Ret(l.fs, code)
    <3>1. Done("flush", r, {})
      BY <2>1 DEF op_flush
    <3>2. code \in {"ok", "EIO"}
      OBVIOUS
    <3> HIDE DEF l, code
    <3>3. Answer(r) /\ Honest(r)
      BY <3>2, RetAnswers DEF Honest, Ret
    <3> HIDE DEF r
    <3> QED
      BY <3>1, <3>3, DoneAnswers
  <2>2. CASE op_release(a)
    <3> DEFINE r == do_release(disk, fh[a], {})
    <3>1. Done("release", r, {})
      BY <2>2 DEF op_release
    <3>2. r = Ret(r.fs, r.rc) /\ r.lost = 0 /\ r.rc \in {"ok", "EIO"}
      BY ReleaseHonest
    <3> HIDE DEF r
    <3>3. Answer(r) /\ Honest(r)
      BY <3>2, RetAnswers DEF Honest
    <3> QED
      BY <3>1, <3>3, DoneAnswers
  <2> QED
    BY <1>4, <2>1, <2>2
<1>5. ASSUME NEW ro \in BOOLEAN, Mount(ro)
      PROVE  ReplyTyped' /\ up' = up /\ readonly' = ro
  <2>1. 0 \in 0 .. MaxPages /\ 0 \in 0 .. 1
    BY BoundAssumption
  <2> QED
    BY <1>5, <2>1, NoPages DEF Mount, ReplyTyped, Pages
<1> QED
  BY <1>2, <1>3, <1>4, <1>5, Zenon DEF Next

\* Every reply is one the kernel can be given, whatever fails: a count no
\* larger than the request's, pages of the file, one of four results.
THEOREM FilesTyping == Spec => []TypeOK
<1> DEFINE IInv == FilesInv /\ readonly \in BOOLEAN /\ up \in BOOLEAN /\ ReplyTyped
<1>1. Init => IInv
  <2> SUFFICES ASSUME Init PROVE IInv
    OBVIOUS
  <2>1. 0 \in 0 .. MaxPages /\ 0 \in 0 .. 1
    BY BoundAssumption
  <2>2. ReplyTyped
    BY <2>1, NoPages DEF Init, ReplyTyped, Op
  <2> QED
    BY <2>2, FilesInit DEF Init
<1>2. IInv /\ [Next]_vars => IInv'
  <2> SUFFICES ASSUME IInv, [Next]_vars PROVE IInv'
    OBVIOUS
  <2>1. FilesInv'
    BY FilesStep
  <2>2. CASE Next
    BY <2>1, <2>2, StepAnswers
  <2>3. CASE UNCHANGED vars
    BY <2>1, <2>3, Zenon DEF vars, ReplyTyped, Pages
  <2> QED
    BY <2>2, <2>3
<1>3. IInv => TypeOK
  BY Zenon DEF TypeOK, FilesInv, Good, Handles, ReplyTyped, Pages
<1> QED
  BY <1>1, <1>2, <1>3, PTL DEF Spec

-----------------------------------------------------------------------------
(* What a write shows *)

View(f, i, p) == PageOf(f, f.inode[i], p)

\* No block past the end: a file that grows reads as zeros there.
Tight(r) == \A p \in Page : r.size <= p => r.map[p] = NoBlock

End(r, off, n) == IF r.size < off + n THEN off + n ELSE r.size

\* From f to g the pages off to off + n - 1 of file i become v and nothing
\* else changes that a reader sees, except in the pages of X.
Shows(f, g, i, off, n, v, X) ==
    /\ \A j \in File \ {i} : g.inode[j] = f.inode[j] /\ \A p \in Page : View(g, j, p) = View(f, j, p)
    /\ g.inode[i].kind = f.inode[i].kind /\ g.inode[i].short = f.inode[i].short
    /\ Tight(g.inode[i])
    /\ \A p \in Page \ X : View(g, i, p) = IF p \in off .. off + n - 1 THEN v ELSE View(f, i, p)

\* A write under way: one page is in the buffer.
Underway(f, i, off, v, limit, n, g, k) ==
    /\ Good(g) /\ Current(g, k) /\ k.file = i
    /\ k.buf = <<Held(off, n, limit), v>> /\ Held(off, n, limit) \in Page
    /\ k.inode.map[Held(off, n, limit)] = NoBlock <=> n < limit
    /\ Shows(f, g, i, off, n, v, IF n < limit THEN {} ELSE {Held(off, n, limit)})

LEMMA StoredShows ==
    ASSUME NEW f, Good(f), NEW h, Current(f, h), h.inode.kind # "none", Tight(h.inode),
           NEW off \in Page, NEW v \in Value, NEW limit \in Nat, 0 < limit,
           off + limit <= MaxPages, NEW n, LargestFit(f, h.inode, off, limit, n),
           NEW got, got \in Placements(f, h.inode, off, n),
           NEW w, w = Stored(f, h, off, v, limit, n, got)
    PROVE  /\ Underway(f, h.file, off, v, limit, n, w.fs, w.h)
           /\ w.h.inode.size = IF n > 0 THEN End(h.inode, off, n) ELSE h.inode.size
<1> DEFINE g == w.fs
           r == w.h.inode
           i == h.file
           held == Held(off, n, limit)
           span == off .. off + n - 1
<1>1. h.file \in File /\ h.inode = f.inode[h.file] /\ f \in Disk /\ h.inode \in Inode
  BY DEF Current, FileHandle, Good
<1>2. /\ n \in 0 .. limit /\ Placements(f, h.inode, off, n) # {}
      /\ n = limit \/ Placements(f, h.inode, off, n + 1) = {}
  BY DEF LargestFit
<1>3. off \in Nat /\ n \in Nat /\ off + n <= MaxPages /\ off + limit <= MaxPages
  BY <1>2, BoundAssumption DEF Page
<1>4. Stores(f, h, off, v, limit, n, got, g, w.h)
  BY <1>1, <1>2, StoredSays
<1>5. Good(g) /\ Current(g, w.h)
  BY <1>2, StoredGood DEF Leads
<1>6. /\ span \subseteq Page
      /\ \A p \in DOMAIN got : p \in span /\ h.inode.map[p] = NoBlock
      /\ \A p \in span : h.inode.map[p] = NoBlock => p \in DOMAIN got
      /\ \A p \in DOMAIN got : got[p] \in Block \ f.used
  BY <1>3, PlacementsSay, Zenon
<1>7. /\ w.h.file = i /\ r = g.inode[i] /\ w.h.buf = <<held, v>>
      /\ \A j \in File \ {i} : g.inode[j] = f.inode[j]
      /\ r.kind = h.inode.kind /\ r.short = h.inode.short
      /\ r.size = IF n > 0 /\ h.inode.size < off + n THEN off + n ELSE h.inode.size
      /\ \A p \in Page : r.map[p] = IF p \in DOMAIN got THEN got[p] ELSE h.inode.map[p]
      /\ \A b \in Block : g.content[b] =
            IF b \in {r.map[p] : p \in span \ {held}} THEN v ELSE f.content[b]
  BY <1>4 DEF Stores
<1> HIDE DEF g, r, i, span
<1>8. /\ held \in Page /\ held \in Nat
      /\ n < limit => held = off + n /\ held \notin span
      /\ ~ (n < limit) => n = limit /\ held = off + n - 1 /\ held \in span
  <2>1. n \in 0 .. limit
    BY <1>2
  <2>2. n < limit => held = off + n
    BY DEF Held
  <2>3. ~ (n < limit) => n = limit /\ held = off + n - 1
    BY <2>1 DEF Held
  <2> HIDE DEF held
  <2> QED
    BY <1>3, <2>1, <2>2, <2>3, BoundAssumption DEF Page, span
<1> HIDE DEF held
<1>9. \A p \in span : r.map[p] # NoBlock
  BY <1>6, <1>7, BlockAssumption
<1>10. r.map[held] = NoBlock <=> n < limit
  <2>1. CASE n < limit
    <3>1. h.inode.map[held] = NoBlock
      <4> SUFFICES ASSUME h.inode.map[off + n] # NoBlock PROVE FALSE
        BY <1>8, <2>1
      <4>1. off .. off + (n + 1) - 1 = span \cup {off + n}
        BY <1>3 DEF span
      <4>2. {p \in off .. off + (n + 1) - 1 : h.inode.map[p] = NoBlock}
                = {p \in off .. off + n - 1 : h.inode.map[p] = NoBlock}
        BY <4>1 DEF span
      <4>3. Placements(f, h.inode, off, n + 1) = Placements(f, h.inode, off, n)
        BY <4>2 DEF Placements
      <4> QED
        BY <1>2, <2>1, <4>3
    <3>2. held \notin DOMAIN got
      BY <1>6, <1>8, <2>1
    <3> QED
      BY <1>7, <1>8, <2>1, <3>1, <3>2
  <2>2. CASE ~ (n < limit)
    BY <1>8, <1>9, <2>2
  <2> QED
    BY <2>1, <2>2
<1>11. \A j, l \in File : \A p, q \in Page :
         g.inode[j].map[p] # NoBlock /\ g.inode[j].map[p] = g.inode[l].map[q] => j = l /\ p = q
  BY <1>5 DEF Good, Exact
<1>12. \A j \in File, p \in Page : g.inode[j].map[p] \in Block \cup {NoBlock}
  BY <1>5 DEF Good, Disk, Inode
<1>13. ASSUME NEW j \in File \ {i}, NEW p \in Page
       PROVE  g.inode[j] = f.inode[j] /\ View(g, j, p) = View(f, j, p)
  <2>1. g.inode[j].map[p] # NoBlock => g.inode[j].map[p] \notin {r.map[q] : q \in span \ {held}}
    BY <1>1, <1>6, <1>7, <1>11 DEF i
  <2> QED
    BY <1>7, <1>12, <2>1 DEF View, PageOf
<1>14. Tight(r)
  <2> SUFFICES ASSUME NEW p \in Page, r.size <= p PROVE r.map[p] = NoBlock
    BY DEF Tight
  <2>1. h.inode.size \in Nat /\ p \in Nat
    BY <1>1 DEF Inode, Page
  <2>2. h.inode.size <= p /\ p \notin span
    BY <1>3, <1>7, <2>1 DEF span
  <2> QED
    BY <1>6, <1>7, <2>2 DEF Tight
<1>15. ASSUME NEW p \in Page, n < limit \/ p # held
       PROVE  View(g, i, p) = IF p \in span THEN v ELSE View(f, i, p)
  <2>1. CASE p \in span
    <3>1. p # held
      BY <1>8, <1>15, <2>1
    <3>2. r.map[p] \in Block
      BY <1>1, <1>7, <1>9, <1>12, <2>1 DEF i
    <3> QED
      BY <1>7, <2>1, <3>1, <3>2, BlockAssumption DEF View, PageOf
  <2>2. CASE p \notin span
    <3>1. r.map[p] = h.inode.map[p]
      BY <1>6, <1>7, <2>2
    <3>2. r.map[p] # NoBlock => r.map[p] \in Block /\ r.map[p] \notin {r.map[q] : q \in span \ {held}}
      BY <1>1, <1>6, <1>7, <1>11, <1>12, <2>2 DEF i
    <3> QED
      BY <1>1, <1>7, <2>2, <3>1, <3>2 DEF View, PageOf, i
  <2> QED
    BY <2>1, <2>2
<1>16. Shows(f, g, i, off, n, v, IF n < limit THEN {} ELSE {held})
  <2>1. g.inode[i].kind = f.inode[i].kind /\ g.inode[i].short = f.inode[i].short
    BY <1>1, <1>7 DEF i
  <2>2. \A p \in Page \ IF n < limit THEN {} ELSE {held} :
            View(g, i, p) = IF p \in off .. off + n - 1 THEN v ELSE View(f, i, p)
    BY <1>15 DEF span
  <2> QED
    BY <1>7, <1>13, <1>14, <2>1, <2>2 DEF Shows
<1>17. Underway(f, i, off, v, limit, n, g, w.h)
  BY <1>5, <1>7, <1>8, <1>10, <1>16 DEF Underway, held, r
<1>18. r.size = IF n > 0 THEN End(h.inode, off, n) ELSE h.inode.size
  BY <1>7 DEF End
<1> QED
  BY <1>17, <1>18 DEF g, r, i

\* What a new length makes of f and the handle h.
Resized(f, h, size, g, k) ==
    /\ k.file = h.file /\ k.buf = h.buf /\ k.inode = g.inode[h.file]
    /\ \A j \in File \ {h.file} : g.inode[j] = f.inode[j]
    /\ k.inode.kind = h.inode.kind /\ k.inode.short = h.inode.short /\ k.inode.size = size
    /\ \A p \in Page : k.inode.map[p] = IF p < size THEN h.inode.map[p] ELSE NoBlock
    /\ g.content = f.content

LEMMA SetSizeSays ==
    ASSUME NEW f \in Disk, NEW h, Current(f, h), NEW size \in 0 .. MaxPages,
           NEW s, s = ext2fs_file_set_size2(f, h, size)
    PROVE  Resized(f, h, size, s.fs, s.h)
<1> DEFINE r == [h.inode EXCEPT
                    !.size = size,
                    !.map  = [p \in Page |-> IF p < size THEN h.inode.map[p] ELSE NoBlock]]
           u == f.used \ (Blocks(h.inode) \ Blocks(r))
           new == [f.inode EXCEPT ![h.file] = r]
<1>1. h.file \in File /\ h.inode \in Inode /\ h \in FileHandle
  BY DEF Current, FileHandle
<1>2. /\ r.kind = h.inode.kind /\ r.short = h.inode.short /\ r.size = size
      /\ \A p \in Page : r.map[p] = IF p < size THEN h.inode.map[p] ELSE NoBlock
  BY <1>1 DEF Inode
<1>3. s.fs = [f EXCEPT !.inode = new, !.used = u] /\ s.h = [h EXCEPT !.inode = r]
  BY DEF ext2fs_file_set_size2
<1> HIDE DEF r, u
<1>4. new[h.file] = r /\ \A j \in File \ {h.file} : new[j] = f.inode[j]
  BY <1>1 DEF Disk
<1> HIDE DEF new
<1>5. s.fs.inode = new /\ s.fs.content = f.content
  BY <1>3 DEF Disk
<1>6. s.h.inode = r /\ s.h.file = h.file /\ s.h.buf = h.buf
  BY <1>1, <1>3 DEF FileHandle
<1> QED
  BY <1>2, <1>4, <1>5, <1>6 DEF Resized

\* What the flush l makes of f and of a handle h with page p in the buffer.
Flushed(f, h, p, v, bad, l) ==
    /\ Good(l.fs) /\ Current(l.fs, l.h) /\ l.h.file = h.file
    /\ l.h.inode = h.inode /\ l.fs.inode = f.inode
    /\ h.inode.map[p] = NoBlock => l.rc = "ENOSPC"
    /\ h.inode.map[p] # NoBlock => l.rc = IF "write.data" \in bad THEN "EIO" ELSE "ok"
    /\ l.rc # "ok" => l.fs = f /\ l.h = h
    /\ l.rc = "ok" =>
        /\ l.h.buf = <<>>
        /\ \A j \in File, q \in Page :
            View(l.fs, j, q) = IF j = h.file /\ q = p THEN v ELSE View(f, j, q)

LEMMA FlushShows ==
    ASSUME NEW f, Good(f), NEW h, Current(f, h), NEW p \in Page, NEW v, h.buf = <<p, v>>,
           NEW bad, NEW l, l = ext2fs_file_flush(f, h, bad)
    PROVE  Flushed(f, h, p, v, bad, l)
<1> DEFINE b == h.inode.map[p]
           i == h.file
<1>1. /\ i \in File /\ h.inode \in Inode /\ h \in FileHandle
      /\ h.inode = f.inode[i] /\ f \in Disk /\ h.buf # <<>> /\ h.buf[1] = p /\ h.buf[2] = v
  BY DEF Current, FileHandle, Good
<1>2. /\ SameBlocks(f, l.fs)
      /\ l.h \in FileHandle /\ l.h.inode = h.inode /\ l.h.file = h.file
  BY <1>1, FlushKeepsBlocks
<1>3. Good(l.fs) /\ Current(l.fs, l.h) /\ l.fs.inode = f.inode
  BY <1>1, <1>2, SameIsGood DEF Leads, SameBlocks, Current
<1>4. CASE b = NoBlock
  BY <1>1, <1>2, <1>3, <1>4 DEF ext2fs_file_flush, Flushed
<1>5. CASE b # NoBlock /\ "write.data" \in bad
  BY <1>1, <1>2, <1>3, <1>5 DEF ext2fs_file_flush, Flushed
<1>6. CASE b # NoBlock /\ "write.data" \notin bad
  <2>1. /\ l.fs = [f EXCEPT !.content[b] = v] /\ l.h = [h EXCEPT !.buf = <<>>]
        /\ l.rc = "ok"
    BY <1>1, <1>6 DEF ext2fs_file_flush
  <2>2. b \in Block
    BY <1>1, <1>6 DEF Inode
  <2>3. l.h.buf = <<>>
    BY <1>1, <2>1 DEF FileHandle
  <2>4. \A c \in Block : l.fs.content[c] = IF c = b THEN v ELSE f.content[c]
    <3> HIDE DEF b
    <3> QED
      BY <1>1, <2>1, <2>2 DEF Disk
  <2>5. \A j \in File, q \in Page : f.inode[j].map[q] = b => j = i /\ q = p
    BY <1>1, <1>6 DEF Good, Exact
  <2>6. \A j \in File, q \in Page : f.inode[j].map[q] \in Block \cup {NoBlock}
    BY <1>1 DEF Disk, Inode
  <2>7. \A j \in File, q \in Page :
            View(l.fs, j, q) = IF j = i /\ q = p THEN v ELSE View(f, j, q)
    BY <1>1, <1>3, <1>6, <2>2, <2>4, <2>5, <2>6, BlockAssumption DEF View, PageOf
  <2> QED
    BY <1>2, <1>3, <1>6, <2>1, <2>3, <2>7 DEF Flushed
<1> QED
  BY <1>4, <1>5, <1>6

\* A flush of the page in the buffer, one of those in doubt, settles it.
LEMMA FlushSettles ==
    ASSUME NEW f, NEW g, NEW i \in File, NEW off, NEW n, NEW v, NEW X, NEW Y,
           NEW h, h.file = i, NEW p \in Page, NEW bad, NEW l, Flushed(g, h, p, v, bad, l),
           Shows(f, g, i, off, n, v, X),
           X \subseteq Y \cup {p}, p \in off .. off + n - 1 \/ p \in Y,
           p \in X \ Y => l.rc = "ok"
    PROVE  Shows(f, l.fs, i, off, n, v, Y)
<1>1. CASE l.rc # "ok"
  <2>1. l.fs = g /\ X \subseteq Y
    BY <1>1 DEF Flushed
  <2> QED
    BY <2>1 DEF Shows
<1>2. CASE l.rc = "ok"
  BY <1>2 DEF Flushed, Shows
<1> QED
  BY <1>1, <1>2

\* When the request fails its own pages are in doubt.
LEMMA ShowsLess ==
    ASSUME NEW f, NEW g, NEW i \in File, NEW off \in Nat, NEW n \in Nat, NEW v, NEW X, NEW Y,
           Shows(f, g, i, off, n, v, X), X \subseteq Y, off .. off + n - 1 \subseteq Y
    PROVE  Shows(f, g, i, off, 0, v, Y)
<1>1. off .. off + 0 - 1 = {}
  OBVIOUS
<1>2. \A p \in Page \ Y : p \notin off .. off + n - 1 /\ p \notin off .. off + 0 - 1 /\ p \notin X
  BY <1>1
<1> QED
  BY <1>2 DEF Shows

Limit(len, bad) == IF "write.data" \in bad THEN 1 ELSE len

\* A write of up to len pages that has come to an end with the result w, but
\* for the page in the buffer.
Halfway(f, h, off, len, v, bad, w) ==
    /\ w \in [fs : Disk, h : FileHandle, n : Nat, rc : {"ok", "EIO", "ENOSPC"}]
    /\ w.n \in 0 .. Limit(len, bad)
    /\ Underway(f, h.file, off, v, Limit(len, bad), w.n, w.fs, w.h)
    /\ h.inode.size <= w.h.inode.size /\ w.h.inode.size <= End(h.inode, off, w.n)
    /\ w.rc # "EIO" => w.n = len \/ w.n < Limit(len, bad)

LEMMA LimitTyped ==
    ASSUME NEW len \in 1 .. MaxPages, NEW bad
    PROVE  Limit(len, bad) \in 1 .. len /\ Limit(len, bad) \in Nat
  BY BoundAssumption DEF Limit

LEMMA FileWriteShows ==
    ASSUME NEW f, Good(f), NEW h, Current(f, h), h.inode.kind # "none", Tight(h.inode),
           NEW off \in Page, NEW len \in 1 .. MaxPages, off + len <= MaxPages,
           NEW v \in Value, NEW bad, NEW w, w = ext2fs_file_write(f, h, off, len, v, bad)
    PROVE  /\ Halfway(f, h, off, len, v, bad, w)
           /\ w.h.inode.size = IF w.n > 0 THEN End(h.inode, off, w.n) ELSE h.inode.size
           /\ "write.data" \notin bad => w.rc # "EIO"
           /\ LargestFit(f, h.inode, off, Limit(len, bad), w.n)
<1> DEFINE limit == Limit(len, bad)
           n     == Fitting(f, h.inode, off, limit)
           got   == CHOOSE got \in Placements(f, h.inode, off, n) : TRUE
           x     == Stored(f, h, off, v, limit, n, got)
<1>1. /\ off \in Nat /\ limit \in Nat /\ 0 < limit /\ limit <= len
      /\ off + limit <= MaxPages
  BY BoundAssumption, LimitTyped DEF Page
<1>2. w = [fs |-> x.fs, h |-> x.h, n |-> n,
           rc |-> IF n = len THEN "ok" ELSE IF n = limit THEN "EIO" ELSE "ENOSPC"]
  BY DEF ext2fs_file_write, WriteTo, Limit
<1> HIDE DEF limit, x, n
<1>3. LargestFit(f, h.inode, off, limit, n)
  BY <1>1, FittingExists DEF n
<1>4. n \in 0 .. limit /\ Placements(f, h.inode, off, n) # {}
  BY <1>3 DEF LargestFit
<1>5. got \in Placements(f, h.inode, off, n)
  BY <1>4
<1> HIDE DEF got
<1>6. /\ Underway(f, h.file, off, v, limit, n, x.fs, x.h)
      /\ x.h.inode.size = IF n > 0 THEN End(h.inode, off, n) ELSE h.inode.size
  BY <1>1, <1>3, <1>5, StoredShows DEF x
<1>7. /\ w.fs = x.fs /\ w.h = x.h /\ w.n = n
      /\ w.rc = IF n = len THEN "ok" ELSE IF n = limit THEN "EIO" ELSE "ENOSPC"
  BY <1>2
<1>8. x.fs \in Disk /\ x.h \in FileHandle
  BY <1>6 DEF Underway, Good, Current
<1>9. w \in [fs : Disk, h : FileHandle, n : Nat, rc : {"ok", "EIO", "ENOSPC"}]
  BY <1>2, <1>4, <1>8
<1>10. h.inode.size \in Nat
  BY DEF Current, FileHandle, Inode
<1>11. h.inode.size <= w.h.inode.size /\ w.h.inode.size <= End(h.inode, off, w.n)
  <2> DEFINE size == h.inode.size
  <2>1. w.h.inode.size = IF n > 0 THEN End(h.inode, off, n) ELSE size
    BY <1>6, <1>7
  <2>2. End(h.inode, off, n) = IF size < off + n THEN off + n ELSE size
    BY DEF End
  <2>3. size \in Nat
    BY <1>10
  <2> HIDE DEF size
  <2>4. size <= w.h.inode.size /\ w.h.inode.size <= End(h.inode, off, n)
    BY <1>1, <1>4, <2>1, <2>2, <2>3
  <2> QED
    BY <1>7, <2>4 DEF size
<1>12. w.rc # "EIO" => w.n = len \/ w.n < limit
  BY <1>1, <1>4, <1>7
<1>13. "write.data" \notin bad => w.rc # "EIO"
  BY <1>7 DEF limit, Limit
<1> QED
  BY <1>3, <1>4, <1>6, <1>7, <1>9, <1>11, <1>12, <1>13 DEF Halfway, limit

LEMMA MoveEndShows ==
    ASSUME NEW f, NEW h, Current(f, h), NEW off \in Page, NEW len \in 1 .. MaxPages,
           off + len <= MaxPages, NEW v \in Value, NEW bad,
           NEW w, Halfway(f, h, off, len, v, bad, w),
           w.h.inode.size = IF w.n > 0 THEN End(h.inode, off, w.n) ELSE h.inode.size,
           NEW m, m = MoveEnd(w, off, h.inode.size, bad)
    PROVE  /\ Halfway(f, h, off, len, v, bad, m) /\ m.n = w.n
           /\ m.rc # "EIO" => m.h.inode.size = End(h.inode, off, m.n)
           /\ w.rc # "EIO" /\ "write.size" \notin bad => m.rc # "EIO"
<1> DEFINE limit == Limit(len, bad)
           size  == h.inode.size
           i     == h.file
           s     == ext2fs_file_set_size2(w.fs, w.h, off + w.n)
           Result == [fs : Disk, h : FileHandle, n : Nat, rc : {"ok", "EIO", "ENOSPC"}]
<1>1. /\ w \in Result /\ w.n \in 0 .. limit /\ limit \in 1 .. len /\ w.n \in Nat
      /\ Underway(f, i, off, v, limit, w.n, w.fs, w.h)
      /\ w.rc # "EIO" => w.n = len \/ w.n < limit
  BY LimitTyped DEF Halfway
<1>2. /\ size \in Nat /\ off \in Nat /\ off + w.n \in 0 .. MaxPages
      /\ End(h.inode, off, w.n) = IF size < off + w.n THEN off + w.n ELSE size
      /\ w.h.inode.size = IF w.n > 0 THEN End(h.inode, off, w.n) ELSE size
  <2>1. size \in Nat /\ off \in Nat
    BY BoundAssumption DEF Current, FileHandle, Inode, Page
  <2>2. off + w.n \in 0 .. MaxPages
    BY <1>1, <2>1, BoundAssumption
  <2> QED
    BY <2>1, <2>2 DEF End
<1>3. \/ w.rc = "EIO" /\ m = w
      \/ off + w.n <= size /\ m = w
      \/ "write.size" \in bad /\ m = [w EXCEPT !.rc = "EIO"]
      \/ w.rc # "EIO" /\ ~ (off + w.n <= size) /\ m = [w EXCEPT !.fs = s.fs, !.h = s.h]
  BY DEF MoveEnd
<1>4. CASE m = w /\ (w.rc = "EIO" \/ off + w.n <= size)
  <2>1. off + w.n <= size => w.h.inode.size = End(h.inode, off, w.n)
    <3> HIDE DEF size
    <3> QED
      BY <1>1, <1>2
  <2> QED
    BY <1>4, <2>1
<1>5. CASE "write.size" \in bad /\ m = [w EXCEPT !.rc = "EIO"]
  <2>1. m \in Result /\ m.fs = w.fs /\ m.h = w.h /\ m.n = w.n /\ m.rc = "EIO"
    BY <1>1, <1>5
  <2> QED
    BY <1>5, <2>1 DEF Halfway
<1>6. CASE w.rc # "EIO" /\ ~ (off + w.n <= size) /\ m = [w EXCEPT !.fs = s.fs, !.h = s.h]
  <2>1. Good(w.fs) /\ Current(w.fs, w.h) /\ w.h.file = i /\ w.fs \in Disk /\ i \in File
    BY <1>1 DEF Underway, Good, Current, FileHandle
  <2>2. Good(s.fs) /\ Current(s.fs, s.h) /\ s.fs \in Disk /\ s.h \in FileHandle
    BY <1>2, <2>1, SetSizeGood DEF Leads, Good, Current
  <2>3. Resized(w.fs, w.h, off + w.n, s.fs, s.h)
    BY <1>2, <2>1, SetSizeSays
  <2> HIDE DEF s
  <2>4. m \in Result /\ m.fs = s.fs /\ m.h = s.h /\ m.n = w.n /\ m.rc = w.rc
    BY <1>1, <1>6, <2>2
  <2>5. End(h.inode, off, w.n) = off + w.n /\ w.h.inode.size <= off + w.n /\ size <= off + w.n
    <3> HIDE DEF size
    <3> QED
      BY <1>1, <1>2, <1>6
  <2>6. Tight(w.h.inode) /\ w.h.inode = w.fs.inode[i] /\ w.h.inode.size \in Nat
    BY <1>1, <2>1 DEF Underway, Shows, Current, FileHandle, Inode
  <2>7. \A p \in Page : s.h.inode.map[p] = w.h.inode.map[p]
    <3> SUFFICES ASSUME NEW p \in Page PROVE s.h.inode.map[p] = w.h.inode.map[p]
      OBVIOUS
    <3>1. CASE p < off + w.n
      BY <2>3, <3>1 DEF Resized
    <3>2. CASE ~ (p < off + w.n)
      <4>1. w.h.inode.size <= p
        BY <1>2, <2>5, <2>6, <3>2 DEF Page
      <4>2. w.h.inode.map[p] = NoBlock
        BY <2>6, <4>1 DEF Tight
      <4> QED
        BY <2>3, <3>2, <4>2 DEF Resized
    <3> QED
      BY <3>1, <3>2
  <2>8. Tight(s.fs.inode[i])
    <3>1. s.fs.inode[i] = s.h.inode /\ s.h.inode.size = off + w.n
      BY <2>1, <2>3 DEF Resized
    <3> QED
      BY <2>5, <2>6, <2>7, <3>1, <1>2 DEF Tight, Page
  <2>9. \A j \in File, p \in Page : View(s.fs, j, p) = View(w.fs, j, p)
    <3>1. /\ s.fs.inode[i] = s.h.inode /\ s.fs.content = w.fs.content
          /\ \A j \in File \ {i} : s.fs.inode[j] = w.fs.inode[j]
      BY <2>1, <2>3 DEF Resized
    <3>2. \A p \in Page : s.fs.inode[i].map[p] = w.fs.inode[i].map[p]
      BY <2>6, <2>7, <3>1
    <3> QED
      BY <3>1, <3>2 DEF View, PageOf
  <2>10. Shows(f, s.fs, i, off, w.n, v, IF w.n < limit THEN {} ELSE {Held(off, w.n, limit)})
    BY <1>1, <2>1, <2>3, <2>6, <2>8, <2>9 DEF Underway, Shows, Resized
  <2>11. Underway(f, i, off, v, limit, w.n, s.fs, s.h)
    BY <1>1, <2>1, <2>2, <2>3, <2>7, <2>10 DEF Underway, Resized
  <2>12. s.h.inode.size = off + w.n
    BY <2>3 DEF Resized
  <2>13. h.inode.size <= m.h.inode.size /\ m.h.inode.size <= End(h.inode, off, m.n)
    BY <1>2, <2>4, <2>5, <2>12
  <2> QED
    BY <1>1, <1>6, <2>4, <2>5, <2>11, <2>12, <2>13 DEF Halfway
<1> QED
  BY <1>3, <1>4, <1>5, <1>6

\* What a request to write len pages has made of f when do_write returns x,
\* and after the close that follows: "loose" is the page in the buffer.
Wrote(f, h, off, len, v, rc, n, g) ==
    /\ Good(g)
    /\ rc = "ok" =>
        /\ n \in 0 .. len
        /\ Shows(f, g, h.file, off, n, v, {})
        /\ g.inode[h.file].size = End(h.inode, off, n)
    /\ rc # "ok" =>
        /\ rc = "EIO" /\ n = 0
        /\ Shows(f, g, h.file, off, 0, v, off .. off + len - 1)
        /\ h.inode.size <= g.inode[h.file].size
        /\ g.inode[h.file].size <= End(h.inode, off, len)
        /\ len = 1 /\ End(h.inode, off, 0) < g.inode[h.file].size =>
            g.inode[h.file].map[off] # NoBlock

Loose(h, off, len, v, x) ==
    /\ Current(x.fs, x.h) /\ x.h.file = h.file
    /\ \/ x.h.buf = <<>>
       \/ \E p \in Page :
            /\ p \in off .. off + len - 1 /\ x.h.buf = <<p, v>>
            /\ x.rc = "ok" => x.h.inode.map[p] = NoBlock

LEMMA FlushWrittenShows ==
    ASSUME NEW f, NEW h, Current(f, h), NEW off \in Page, NEW len \in 1 .. MaxPages,
           off + len <= MaxPages, NEW v \in Value, NEW bad,
           NEW m, Halfway(f, h, off, len, v, bad, m),
           m.rc # "EIO" => m.h.inode.size = End(h.inode, off, m.n),
           NEW x, x = FlushWritten(m, bad)
    PROVE  /\ Wrote(f, h, off, len, v, x.rc, x.n, x.fs)
           /\ Loose(h, off, len, v, x)
           /\ x.rc = "ok" => x.n = m.n
           /\ m.rc # "EIO" /\ "write.data" \notin bad => x.rc = "ok"
           /\ x.rc = "ok" /\ ~ (m.n < Limit(len, bad)) => x.h.buf = <<>>
<1> DEFINE limit == Limit(len, bad)
           i     == h.file
           p     == Held(off, m.n, limit)
           X     == IF m.n < limit THEN {} ELSE {p}
           Y     == off .. off + len - 1
           l     == ext2fs_file_flush(m.fs, m.h, bad)
           Result == [fs : Disk, h : FileHandle, n : Nat, rc : {"ok", "EIO", "ENOSPC"}]
<1>1. /\ m \in Result /\ m.n \in 0 .. limit /\ limit \in 1 .. len /\ m.n \in Nat
      /\ Underway(f, i, off, v, limit, m.n, m.fs, m.h)
      /\ m.rc # "EIO" => m.n = len \/ m.n < limit
      /\ h.inode.size <= m.h.inode.size /\ m.h.inode.size <= End(h.inode, off, m.n)
  BY LimitTyped DEF Halfway
<1>2. /\ Good(m.fs) /\ Current(m.fs, m.h) /\ m.h.file = i /\ i \in File
      /\ m.h.buf = <<p, v>> /\ p \in Page
      /\ m.h.inode.map[p] = NoBlock <=> m.n < limit
      /\ Shows(f, m.fs, i, off, m.n, v, X)
  BY <1>1 DEF Underway, Current, FileHandle
<1>3. Flushed(m.fs, m.h, p, v, bad, l)
  BY <1>2, FlushShows
<1>4. /\ m.rc = "EIO" => x = [m EXCEPT !.n = 0]
      /\ m.rc # "EIO" /\ l.rc = "EIO" => x = [m EXCEPT !.rc = "EIO", !.n = 0]
      /\ m.rc # "EIO" /\ l.rc # "EIO" => x = [m EXCEPT !.fs = l.fs, !.h = l.h, !.rc = "ok"]
  BY DEF FlushWritten
<1> HIDE DEF l
<1>5. /\ off \in Nat /\ m.n <= len /\ limit <= len /\ len \in Nat
      /\ h.inode.size \in Nat /\ m.h.inode.size \in Nat
  <2>1. h.inode.size \in Nat /\ m.h.inode.size \in Nat
    BY <1>2 DEF Current, FileHandle, Inode
  <2>2. off \in Nat /\ len \in Nat /\ MaxPages \in Nat
    BY BoundAssumption DEF Page
  <2> QED
    BY <1>1, <2>1, <2>2
<1>6. p \in Y /\ off .. off + m.n - 1 \subseteq Y /\ X \subseteq Y /\ p \in Int
  <2>1. p = IF m.n < limit THEN off + m.n ELSE off + m.n - 1
    BY DEF Held
  <2> HIDE DEF p
  <2>2. p \in Y /\ p \in Int
    BY <1>1, <1>5, <2>1
  <2>3. off .. off + m.n - 1 \subseteq Y
    BY <1>1, <1>5
  <2> QED
    BY <2>2, <2>3
<1>7. ~ (m.n < limit) => p \in off .. off + m.n - 1
  <2>1. p = IF m.n < limit THEN off + m.n ELSE off + m.n - 1
    BY DEF Held
  <2> HIDE DEF p
  <2> QED
    BY <1>1, <1>5, <2>1
<1> HIDE DEF p, limit
<1>8. CASE m.rc = "EIO" \/ l.rc = "EIO"
  <2>1. x.fs = m.fs /\ x.h = m.h /\ x.n = 0 /\ x.rc = "EIO"
    <3> DEFINE e == [m EXCEPT !.rc = "EIO"]
    <3>1. e \in Result /\ e.fs = m.fs /\ e.h = m.h /\ e.rc = "EIO"
      BY <1>1
    <3>2. CASE m.rc = "EIO"
      BY <1>1, <1>4, <3>2
    <3>3. CASE m.rc # "EIO"
      <4>1. x = [e EXCEPT !.n = 0]
        BY <1>1, <1>4, <1>8, <3>3
      <4> HIDE DEF e
      <4> QED
        BY <3>1, <4>1
    <3> QED
      BY <3>2, <3>3
  <2>2. Shows(f, m.fs, i, off, 0, v, Y)
    BY <1>1, <1>2, <1>5, <1>6, ShowsLess
  <2>3. m.fs.inode[i].size = m.h.inode.size
    BY <1>2 DEF Current
  <2>4. m.h.inode.size <= End(h.inode, off, len)
    <3> DEFINE size == h.inode.size
               new  == m.h.inode.size
    <3>1. /\ End(h.inode, off, len) = IF size < off + len THEN off + len ELSE size
          /\ End(h.inode, off, m.n) = IF size < off + m.n THEN off + m.n ELSE size
      BY DEF End
    <3>2. new <= End(h.inode, off, m.n) /\ size \in Nat /\ new \in Nat
      BY <1>1, <1>5
    <3> HIDE DEF size, new
    <3>3. new <= End(h.inode, off, len)
      BY <1>1, <1>5, <3>1, <3>2
    <3> QED
      BY <3>3 DEF new
  <2>5. len = 1 /\ End(h.inode, off, 0) < m.h.inode.size => m.h.inode.map[off] # NoBlock
    <3> SUFFICES ASSUME len = 1, End(h.inode, off, 0) < m.h.inode.size
                 PROVE  m.h.inode.map[off] # NoBlock
      OBVIOUS
    <3>1. m.n # 0
      <4> DEFINE size == h.inode.size
      <4>1. /\ End(h.inode, off, 0) = IF size < off + 0 THEN off + 0 ELSE size
            /\ size \in Nat
        BY <1>5 DEF End
      <4> HIDE DEF size
      <4> QED
        BY <1>1, <1>5, <4>1
    <3>2. limit = 1 /\ m.n = 1
      BY <1>1, <3>1
    <3>3. p = off
      BY <1>5, <3>2 DEF p, Held
    <3> QED
      BY <1>2, <3>2, <3>3
  <2>6. Wrote(f, h, off, len, v, x.rc, x.n, x.fs)
    <3>1. m.fs.inode[i] = m.h.inode
      BY <1>2 DEF Current
    <3> QED
      BY <1>1, <1>2, <2>1, <2>2, <2>3, <2>4, <2>5, <3>1 DEF Wrote
  <2>7. Loose(h, off, len, v, x)
    BY <1>2, <1>6, <2>1 DEF Loose
  <2>8. l.rc = "EIO" => "write.data" \in bad
    BY <1>3 DEF Flushed
  <2> QED
    BY <1>8, <2>1, <2>6, <2>7, <2>8
<1>9. CASE m.rc # "EIO" /\ l.rc # "EIO"
  <2>1. /\ l.fs \in Disk /\ l.h \in FileHandle /\ Good(l.fs) /\ Current(l.fs, l.h)
        /\ l.h.file = i /\ l.h.inode = m.h.inode /\ l.fs.inode = m.fs.inode
    BY <1>2, <1>3 DEF Flushed, Good, Current
  <2>2. x.fs = l.fs /\ x.h = l.h /\ x.n = m.n /\ x.rc = "ok"
    BY <1>1, <1>4, <1>9, <2>1
  <2>3. ~ (m.n < limit) => l.rc = "ok"
    BY <1>2, <1>3, <1>9 DEF Flushed
  <2>4. Shows(f, l.fs, i, off, m.n, v, {})
    <3>1. CASE m.n < limit
      <4>1. l.fs = m.fs
        BY <1>2, <1>3, <3>1 DEF Flushed
      <4> QED
        BY <1>2, <3>1, <4>1
    <3>2. CASE ~ (m.n < limit)
      BY <1>2, <1>3, <1>7, <2>3, <3>2, FlushSettles
    <3> QED
      BY <3>1, <3>2
  <2>5. l.fs.inode[i].size = End(h.inode, off, m.n)
    BY <1>2, <1>9, <2>1 DEF Current
  <2>6. m.n \in 0 .. len
    BY <1>1, <1>5
  <2>7. Wrote(f, h, off, len, v, x.rc, x.n, x.fs)
    BY <2>1, <2>2, <2>4, <2>5, <2>6 DEF Wrote
  <2>8. \/ l.h.buf = <<>>
        \/ l.h.buf = <<p, v>> /\ l.h.inode.map[p] = NoBlock
    BY <1>2, <1>3, <1>9 DEF Flushed
  <2>9. Loose(h, off, len, v, x)
    BY <1>2, <1>6, <2>1, <2>2, <2>8 DEF Loose
  <2>10. ~ (m.n < limit) => x.h.buf = <<>>
    BY <1>3, <2>2, <2>3 DEF Flushed
  <2> QED
    BY <2>2, <2>7, <2>9, <2>10 DEF limit
<1> QED
  BY <1>8, <1>9

LEMMA WriteShows ==
    ASSUME NEW f, Good(f), NEW h, Current(f, h), h.inode.kind # "none", Tight(h.inode),
           NEW off \in Page, NEW len \in 1 .. MaxPages, off + len <= MaxPages,
           NEW v \in Value, NEW bad, NEW x, x = do_write(f, h, off, len, v, bad)
    PROVE  /\ Wrote(f, h, off, len, v, x.rc, x.n, x.fs)
           /\ Loose(h, off, len, v, x)
           /\ bad = {} =>
                /\ x.rc = "ok" /\ LargestFit(f, h.inode, off, len, x.n)
                /\ x.n = len => x.h.buf = <<>>
<1> DEFINE w == ext2fs_file_write(f, h, off, len, v, bad)
           m == MoveEnd(w, off, h.inode.size, bad)
<1>1. /\ Halfway(f, h, off, len, v, bad, w)
      /\ w.h.inode.size = IF w.n > 0 THEN End(h.inode, off, w.n) ELSE h.inode.size
      /\ "write.data" \notin bad => w.rc # "EIO"
      /\ LargestFit(f, h.inode, off, Limit(len, bad), w.n)
  BY FileWriteShows
<1>2. x = FlushWritten(m, bad)
  BY DEF do_write
<1> HIDE DEF w
<1>3. /\ Halfway(f, h, off, len, v, bad, m) /\ m.n = w.n
      /\ m.rc # "EIO" => m.h.inode.size = End(h.inode, off, m.n)
      /\ w.rc # "EIO" /\ "write.size" \notin bad => m.rc # "EIO"
  BY <1>1, MoveEndShows
<1> HIDE DEF m
<1>4. /\ Wrote(f, h, off, len, v, x.rc, x.n, x.fs)
      /\ Loose(h, off, len, v, x)
      /\ x.rc = "ok" => x.n = m.n
      /\ m.rc # "EIO" /\ "write.data" \notin bad => x.rc = "ok"
      /\ x.rc = "ok" /\ ~ (m.n < Limit(len, bad)) => x.h.buf = <<>>
  BY <1>2, <1>3, FlushWrittenShows
<1>5. ASSUME bad = {}
      PROVE  x.rc = "ok" /\ LargestFit(f, h.inode, off, len, x.n) /\ (x.n = len => x.h.buf = <<>>)
  <2>1. Limit(len, bad) = len /\ x.rc = "ok" /\ x.n = w.n
    BY <1>1, <1>3, <1>4, <1>5 DEF Limit
  <2>2. x.n = len => ~ (m.n < len)
    BY <1>3, <2>1, BoundAssumption
  <2> QED
    BY <1>1, <1>4, <2>1, <2>2
<1> QED
  BY <1>4, <1>5

\* The close after a write: the page in the buffer is one of the request's.
LEMMA CloseShows ==
    ASSUME NEW f, NEW h, Current(f, h), NEW off \in Page, NEW len \in 1 .. MaxPages,
           NEW v \in Value, NEW bad,
           NEW x, Wrote(f, h, off, len, v, x.rc, x.n, x.fs), Loose(h, off, len, v, x),
           NEW c, c = do_release(x.fs, x.h, bad)
    PROVE  Wrote(f, h, off, len, v, x.rc, x.n, c.fs)
<1> DEFINE l == ext2fs_file_flush(x.fs, x.h, bad)
<1>1. c.fs = l.fs
  BY DEF do_release, Ret
<1>2. CASE x.h.buf = <<>>
  BY <1>1, <1>2 DEF ext2fs_file_flush
<1>3. CASE x.h.buf # <<>>
  <2>1. PICK p \in Page :
            /\ p \in off .. off + len - 1 /\ x.h.buf = <<p, v>>
            /\ x.rc = "ok" => x.h.inode.map[p] = NoBlock
    BY <1>3 DEF Loose
  <2>2. Current(x.fs, x.h) /\ x.h.file = h.file /\ Good(x.fs) /\ h.file \in File
    BY DEF Loose, Wrote, Current, FileHandle
  <2>3. Flushed(x.fs, x.h, p, v, bad, l)
    BY <2>1, <2>2, FlushShows
  <2> HIDE DEF l
  <2>4. Good(l.fs) /\ l.fs.inode = x.fs.inode
    BY <2>3 DEF Flushed
  <2>5. CASE x.rc = "ok"
    <3>1. l.fs = x.fs
      BY <2>1, <2>3, <2>5 DEF Flushed
    <3> QED
      BY <1>1, <3>1
  <2>6. CASE x.rc # "ok"
    <3> DEFINE Y == off .. off + len - 1
    <3>1. Shows(f, x.fs, h.file, off, 0, v, Y) /\ p \in Y
      BY <2>1, <2>6 DEF Wrote
    <3> HIDE DEF Y
    <3>2. Y \subseteq Y \cup {p} /\ p \notin Y \ Y
      OBVIOUS
    <3>3. Shows(f, l.fs, h.file, off, 0, v, Y)
      BY <2>2, <2>3, <3>1, <3>2, FlushSettles
    <3> QED
      BY <1>1, <2>4, <2>6, <3>3 DEF Wrote, Y
  <2> QED
    BY <2>5, <2>6
<1> QED
  BY <1>2, <1>3

-----------------------------------------------------------------------------
(* The promise of PosixFile *)

\* The pages of a file, and TextOf in a file system f.
Row(f, i) == [p \in 0 .. f.inode[i].size - 1 |-> View(f, i, p)]

TextIn(f, i) ==
    LET r == f.inode[i] IN
    IF r.kind = "lnk" /\ Blocks(r) = {} /\ r.short # Zero
    THEN [p \in {0} |-> r.short]
    ELSE Row(f, i)

\* A link has one page, in a block, or none.
LinkShape(r) ==
    r.kind = "lnk" => /\ r.size \in {0, 1}
                      /\ r.size = 1 => r.map[0] # NoBlock /\ r.short = Zero

Shapes(f) == \A i \in File : Tight(f.inode[i]) /\ LinkShape(f.inode[i])

\* Nothing waits in the buffers of open files: the handlers that write open a
\* handle of their own.
OpenRegular ==
    \A a \in Handle : fh[a] # NoHandle =>
        disk.inode[fh[a].file].kind = "reg" /\ fh[a].buf = <<>>

PromiseInv == FilesInv /\ Shapes(disk) /\ OpenRegular

\* No file but i changes for a reader.
Beside(f, g, i) ==
    \A j \in File \ {i} :
        g.inode[j] = f.inode[j] /\ \A p \in Page : View(g, j, p) = View(f, j, p)

LEMMA TextsSay == Texts = [i \in File |-> TextIn(disk, i)]
  BY Zenon DEF Texts, TextOf, TextIn, Row, View

LEMMA TextsSayNext == Texts' = [i \in File |-> TextIn(disk', i)]
  BY Zenon DEF Texts, TextOf, TextIn, Row, View

LEMMA BesideSame ==
    ASSUME NEW f \in Disk, NEW g, NEW i, Beside(f, g, i), NEW j \in File \ {i}
    PROVE  g.inode[j].kind = f.inode[j].kind /\ TextIn(g, j) = TextIn(f, j)
<1>1. f.inode[j].size \in 0 .. MaxPages
  BY DEF Disk, Inode
<1>2. 0 .. f.inode[j].size - 1 \subseteq Page
  BY <1>1, BoundAssumption DEF Page
<1>3. g.inode[j] = f.inode[j]
  BY DEF Beside
<1>4. \A p \in 0 .. f.inode[j].size - 1 : View(g, j, p) = View(f, j, p)
  BY <1>2 DEF Beside
<1> QED
  BY <1>3, <1>4 DEF TextIn, Row

LEMMA RegularText ==
    ASSUME NEW f, NEW i, f.inode[i].kind # "lnk"
    PROVE  TextIn(f, i) = Row(f, i)
  BY DEF TextIn

LEMMA NewShape ==
    ASSUME NEW k, NEW v
    PROVE  Tight(NewInode(k, v)) /\ LinkShape(NewInode(k, v))
  BY DEF NewInode, Tight, LinkShape

LEMMA NoText ==
    ASSUME NEW f, NEW i, f.inode[i].size = 0, f.inode[i].short = Zero
    PROVE  TextIn(f, i) = <<>>
<1>1. 0 .. 0 - 1 = {}
  OBVIOUS
<1>2. TextIn(f, i) = [p \in {} |-> View(f, i, p)]
  BY <1>1 DEF TextIn, Row
<1> QED
  BY <1>2

LEMMA BecomesSo ==
    ASSUME disk \in Disk, NEW i \in File, Beside(disk, disk', i), NEW k, NEW t,
           disk'.inode[i].kind = k, TextIn(disk', i) = t
    PROVE  /\ [j \in File |-> disk'.inode[j].kind]
                = [[j \in File |-> disk.inode[j].kind] EXCEPT ![i] = k]
           /\ Texts' = [Texts EXCEPT ![i] = t]
<1>1. \A j \in File \ {i} :
        disk'.inode[j].kind = disk.inode[j].kind /\ TextIn(disk', j) = TextIn(disk, j)
  BY BesideSame
<1>2. [j \in File |-> disk'.inode[j].kind]
        = [[j \in File |-> disk.inode[j].kind] EXCEPT ![i] = k]
  BY <1>1
<1>3. [j \in File |-> TextIn(disk', j)] = [[j \in File |-> TextIn(disk, j)] EXCEPT ![i] = t]
  BY <1>1
<1> QED
  BY <1>2, <1>3, TextsSay, TextsSayNext, Zenon

LEMMA SameSo ==
    ASSUME disk' = disk
    PROVE  UNCHANGED <<[j \in File |-> disk.inode[j].kind], Texts>>
  BY TextsSay, TextsSayNext, Zenon

LEMMA AnswerSo ==
    ASSUME NEW op, NEW r, NEW bad, Done(op, r, bad), NEW rc,
           rc = IF r.rc = "ok" THEN "ok" ELSE "error"
    PROVE  /\ Contents!Answer(op, rc, r.n, r.data) /\ disk' = r.fs
           /\ [op |-> ret.op, rc |-> IF ret.rc = "ok" THEN "ok" ELSE "error",
               n |-> ret.n, data |-> ret.data]'
                = [op |-> op, rc |-> rc, n |-> r.n, data |-> r.data]
  BY DEF Done, Contents!Answer

\* A request that fails and changes nothing, or that has to do with handles.
LEMMA NothingSo ==
    ASSUME NEW op, NEW r, NEW bad, Done(op, r, bad), r.fs = disk,
           r.rc # "ok" \/ op \in {"open", "flush", "release", "mount"}
    PROVE  Contents!Next
<1>1. disk' = disk
  BY DEF Done
<1>2. UNCHANGED <<[j \in File |-> disk.inode[j].kind], Texts>>
  BY <1>1, SameSo
<1>3. ret'.op = op /\ ret'.rc = r.rc
  BY DEF Done
<1>4. Contents!Nothing
  BY <1>2, <1>3 DEF Contents!Nothing
<1> QED
  BY <1>4 DEF Contents!Next

LEMMA RegularStay ==
    ASSUME PromiseInv, UNCHANGED fh,
           \A j \in File : disk.inode[j].kind = "reg" => disk'.inode[j].kind = "reg"
    PROVE  OpenRegular'
<1>1. \A a \in Handle : fh[a] # NoHandle => fh[a].file \in File
  BY DEF PromiseInv, FilesInv, Handles, FileHandle
<1> QED
  BY <1>1 DEF PromiseInv, OpenRegular

LEMMA OpenedRegular ==
    ASSUME PromiseInv, NEW op, NEW a, NEW f \in Disk, NEW i \in File, NEW rc, rc # "ok", NEW bad,
           f.inode[i].kind = "reg", Opened(op, a, f, i, rc, bad),
           \A j \in File : disk.inode[j].kind = "reg" => f.inode[j].kind = "reg"
    PROVE  /\ OpenRegular'
           /\ \E r : Done(op, r, bad) /\ r.fs = f /\ r.n = 0 /\ r.data = <<>>
<1> DEFINE o == do_open(f, i, readonly, bad)
           r == [Ret(f, IF o.h = NoHandle THEN rc ELSE "ok") EXCEPT !.lost = o.lost]
<1>1. /\ fh' = [fh EXCEPT ![a] = o.h] /\ Done(op, r, bad)
  BY DEF Opened
<1>2. r.fs = f /\ r.n = 0 /\ r.data = <<>>
  BY DEF Ret
<1>3. disk' = f
  BY <1>1, <1>2 DEF Done
<1>4. o.h # NoHandle => o.h.file = i /\ o.h.buf = <<>>
  BY DEF do_open, ext2fs_file_open2
<1> HIDE DEF o, r
<1>5. \A b \in Handle : fh[b] # NoHandle => fh[b].file \in File
  BY DEF PromiseInv, FilesInv, Handles, FileHandle
<1>6. \A b \in Handle : fh'[b] \in {fh[b], o.h}
  BY <1>1 DEF PromiseInv, FilesInv, Handles
<1>7. OpenRegular'
  BY <1>3, <1>4, <1>5, <1>6 DEF PromiseInv, OpenRegular
<1> QED
  BY <1>1, <1>2, <1>7

LEMMA OpenPromise ==
    ASSUME PromiseInv, NEW i \in File, NEW a \in Handle, NEW bad, Open(a, i, bad)
    PROVE  Shapes(disk') /\ OpenRegular' /\ Contents!Next
<1>1. disk \in Disk /\ disk.inode[i].kind = "reg" /\ Shapes(disk)
  BY DEF PromiseInv, FilesInv, Good, Open, Is
<1>2. Opened("open", a, disk, i, "ENOENT", bad)
  BY DEF Open
<1>3. OpenRegular'
  BY <1>1, <1>2, OpenedRegular
<1>4. PICK r : Done("open", r, bad) /\ r.fs = disk
  BY <1>1, <1>2, OpenedRegular
<1>5. disk' = disk
  BY <1>4 DEF Done
<1>6. Contents!Next
  BY <1>4, NothingSo
<1> QED
  BY <1>1, <1>3, <1>5, <1>6

LEMMA CreatePromise ==
    ASSUME PromiseInv, NEW i \in File, NEW a \in Handle, NEW bad, Create(a, i, bad)
    PROVE  Shapes(disk') /\ OpenRegular' /\ Contents!Next
<1> DEFINE made == [disk EXCEPT !.inode[i] = NewInode("reg", Zero)]
<1>1. /\ disk \in Disk /\ Good(disk) /\ disk.inode[i].kind = "none" /\ Shapes(disk)
      /\ Zero \in Datum
  BY DEF PromiseInv, FilesInv, Good, Create, Is, Datum
<1>2. made \in Disk /\ made.inode[i].kind = "reg"
  BY <1>1, MadeGood DEF Leads, Good
<1>3. /\ made.inode[i] = NewInode("reg", Zero) /\ made.content = disk.content
      /\ \A j \in File \ {i} : made.inode[j] = disk.inode[j]
  BY <1>1 DEF Disk
<1>4. Opened("create", a, made, i, "EIO", bad)
  BY DEF Create
<1> HIDE DEF made
<1>5. OpenRegular'
  BY <1>1, <1>2, <1>3, <1>4, OpenedRegular
<1>6. PICK r : Done("create", r, bad) /\ r.fs = made /\ r.n = 0 /\ r.data = <<>>
  BY <1>1, <1>2, <1>3, <1>4, OpenedRegular
<1>7. disk' = made
  BY <1>6 DEF Done
<1>8. Shapes(made)
  BY <1>1, <1>3, NewShape DEF Shapes
<1>9. Beside(disk, made, i)
  BY <1>3 DEF Beside, View, PageOf
<1>10. TextIn(made, i) = <<>>
  BY <1>3, NoText DEF NewInode
<1>11. Contents!Becomes(i, "reg", <<>>)
  BY <1>1, <1>2, <1>7, <1>9, <1>10, BecomesSo, Zenon DEF Contents!Becomes
<1>12. Contents!Answer("create", IF r.rc = "ok" THEN "ok" ELSE "error", 0, <<>>)
  BY <1>6, AnswerSo
<1>13. Contents!Create(i)
  BY <1>1, <1>11, <1>12 DEF Contents!Create
<1> QED
  BY <1>5, <1>7, <1>8, <1>13 DEF Contents!Next

LEMMA OpenSays ==
    ASSUME NEW f, NEW i, NEW ro, NEW bad, NEW o, o = do_open(f, i, ro, bad)
    PROVE  /\ o.h = NoHandle \/ o.h = ext2fs_file_open2(f, i)
           /\ bad = {} => o.h = ext2fs_file_open2(f, i) /\ o.lost = 0
  BY DEF do_open

LEMMA CloseClean ==
    ASSUME NEW f, NEW h, h.buf = <<>>, NEW bad
    PROVE  do_release(f, h, bad) = Ret(f, "ok")
  BY DEF do_release, ext2fs_file_flush

LEMMA ReadPromise ==
    ASSUME PromiseInv, NEW i \in File, NEW a \in Handle, NEW off \in Page,
           NEW len \in 1 .. MaxPages, NEW bad, Read(a, i, off, len, bad)
    PROVE  Shapes(disk') /\ OpenRegular' /\ Contents!Next
<1> DEFINE o == do_open(disk, i, readonly, bad)
           r == op_read(disk, i, off, len, readonly, bad)
           size == disk.inode[i].size
           data == [p \in off .. (IF off + len < size THEN off + len ELSE size) - 1
                        |-> View(disk, i, p)]
<1>1. /\ disk \in Disk /\ disk.inode[i].kind = "reg" /\ Shapes(disk)
      /\ Done("read", r, bad) /\ UNCHANGED fh
  BY DEF PromiseInv, FilesInv, Good, OpenRegular, Read, OpenOn
<1>3. \/ r.fs = disk /\ r.rc # "ok"
      \/ r.fs = disk /\ r.rc = "ok" /\ r.n = 0 /\ r.data = data
  <2>1. CASE o.h = NoHandle
    BY <2>1 DEF op_read, Died, Ret
  <2>2. CASE o.h # NoHandle
    <3>1. o.h = ext2fs_file_open2(disk, i)
      BY <2>2, OpenSays
    <3>2. o.h.inode = disk.inode[i] /\ o.h.buf = <<>>
      BY <3>1 DEF ext2fs_file_open2
    <3>3. do_release(disk, o.h, bad) = Ret(disk, "ok")
      BY <3>2, CloseClean
    <3>4. r = IF "read.data" \in bad THEN [Ret(disk, "ok") EXCEPT !.rc = "EIO"]
              ELSE [Ret(disk, "ok") EXCEPT !.rc = "ok", !.data = data]
      BY <2>2, <3>2, <3>3 DEF op_read, View
    <3> HIDE DEF data, r, o
    <3> QED
      BY <3>4 DEF Ret
  <2> QED
    BY <2>1, <2>2
<1> HIDE DEF r
<1>4. disk' = disk
  BY <1>1, <1>3 DEF Done
<1>5. OpenRegular'
  BY <1>1, <1>4, RegularStay
<1>6. CASE r.rc # "ok"
  BY <1>1, <1>3, <1>4, <1>5, <1>6, NothingSo
<1>7. CASE r.rc = "ok"
  <2>1. r.n = 0 /\ r.data = data
    BY <1>3, <1>7
  <2>2. off \in Nat /\ len \in Nat /\ size \in Nat
    BY <1>1, BoundAssumption DEF Page, Disk, Inode
  <2>3. TextIn(disk, i) = [p \in 0 .. size - 1 |-> View(disk, i, p)]
    BY <1>1, RegularText DEF Row
  <2>4. data = [p \in DOMAIN Texts[i] \cap off .. off + len - 1 |-> Texts[i][p]]
    <3>1. Texts[i] = [p \in 0 .. size - 1 |-> View(disk, i, p)]
      BY <2>3, TextsSay
    <3> HIDE DEF size
    <3>2. DOMAIN Texts[i] = 0 .. size - 1
      BY <3>1
    <3>3. (0 .. size - 1) \cap (off .. off + len - 1)
            = off .. (IF off + len < size THEN off + len ELSE size) - 1
      BY <2>2
    <3> QED
      BY <3>1, <3>2, <3>3
  <2> HIDE DEF data
  <2>5. Contents!Answer("read", "ok", 0, r.data)
    BY <1>1, <1>7, <2>1, AnswerSo
  <2>6. UNCHANGED <<[j \in File |-> disk.inode[j].kind], Texts>>
    BY <1>4, SameSo
  <2>7. ret'.op = "read"
    BY <1>1 DEF Done
  <2>8. Contents!Read(i, off, len)
    BY <1>1, <2>1, <2>4, <2>5, <2>6, <2>7 DEF Contents!Read
  <2> QED
    BY <1>1, <1>4, <1>5, <2>8 DEF Contents!Next, Page
<1> QED
  BY <1>6, <1>7

LEMMA ReadlinkPromise ==
    ASSUME PromiseInv, Extents = FALSE, NEW i \in File, NEW bad, Readlink(i, bad)
    PROVE  Shapes(disk') /\ OpenRegular' /\ Contents!Next
<1> DEFINE r == op_readlink(disk, i, bad)
           t == disk.inode[i]
<1>1. /\ disk \in Disk /\ t.kind = "lnk" /\ Shapes(disk)
      /\ Done("readlink", r, bad) /\ UNCHANGED fh
  BY DEF PromiseInv, FilesInv, Good, Readlink, Is
<1>2. r.fs = disk
  BY ReadlinkGood
<1>3. disk' = disk
  BY <1>1, <1>2 DEF Done
<1>4. OpenRegular'
  BY <1>1, <1>3, RegularStay
<1>5. r.rc = "ok" => r.n = 0 /\ r.data = TextIn(disk, i)
  <2>1. /\ t.size \in {0, 1} /\ (t.size = 1 => t.map[0] # NoBlock /\ t.short = Zero)
        /\ \A p \in Page : t.size <= p => t.map[p] = NoBlock
    BY <1>1 DEF Shapes, LinkShape, Tight
  <2>2. 0 \in Page /\ Page \subseteq Nat
    BY BoundAssumption DEF Page
  <2>3. CASE Blocks(t) = {}
    <3>1. t.size = 0
      BY <2>1, <2>2, <2>3 DEF Blocks
    <3>2. CASE t.short = Zero
      <4>1. r = Ret(disk, "ok") \/ r = Ret(disk, "EIO")
        BY <2>3, <3>2 DEF op_readlink
      <4>2. TextIn(disk, i) = <<>>
        BY <3>1, <3>2, NoText
      <4> QED
        BY <4>1, <4>2 DEF Ret
    <3>3. CASE t.short # Zero
      <4>1. r = [Ret(disk, "ok") EXCEPT !.data = [p \in {0} |-> t.short]] \/ r = Ret(disk, "EIO")
        BY <2>3, <3>3 DEF op_readlink
      <4>2. TextIn(disk, i) = [p \in {0} |-> t.short]
        BY <1>1, <2>3, <3>3 DEF TextIn
      <4> QED
        BY <4>1, <4>2 DEF Ret
    <3> QED
      BY <3>2, <3>3
  <2>4. CASE Blocks(t) # {}
    <3>1. t.size = 1 /\ t.map[0] # NoBlock
      BY <2>1, <2>2, <2>4 DEF Blocks
    <3>2. t.map[0] \in Block
      BY <1>1, <2>2, <3>1 DEF Disk, Inode
    <3> DEFINE v == disk.content[t.map[0]]
    <3>3. r = [Ret(disk, "ok") EXCEPT !.data = [p \in {0} |-> v]] \/ r = Ret(disk, "EIO")
      BY <2>4, <3>2 DEF op_readlink
    <3>4. TextIn(disk, i) = [p \in 0 .. 1 - 1 |-> View(disk, i, p)]
      BY <2>4, <3>1 DEF TextIn, Row
    <3>5. 0 .. 1 - 1 = {0} /\ View(disk, i, 0) = v
      BY <3>1 DEF View, PageOf
    <3> HIDE DEF v
    <3>6. TextIn(disk, i) = [p \in {0} |-> v]
      BY <3>4, <3>5
    <3> QED
      BY <3>3, <3>6 DEF Ret
  <2> QED
    BY <2>3, <2>4
<1> HIDE DEF r
<1>6. CASE r.rc # "ok"
  BY <1>1, <1>2, <1>3, <1>4, <1>6, NothingSo
<1>7. CASE r.rc = "ok"
  <2>1. Contents!Answer("readlink", "ok", 0, Texts[i])
    BY <1>1, <1>5, <1>7, AnswerSo, TextsSay
  <2>2. UNCHANGED <<[j \in File |-> disk.inode[j].kind], Texts>>
    BY <1>3, SameSo
  <2>3. ret'.op = "readlink"
    BY <1>1 DEF Done
  <2>4. Contents!Readlink(i)
    BY <1>1, <2>1, <2>2, <2>3 DEF Contents!Readlink
  <2> QED
    BY <1>1, <1>3, <1>4, <2>4 DEF Contents!Next
<1> QED
  BY <1>6, <1>7

\* Overlay of PosixFile, for facts about every t.
Over(t, off, n, v) ==
    [p \in DOMAIN t \cup 0 .. off + n - 1 |->
        IF p >= off /\ p < off + n THEN v ELSE IF p \in DOMAIN t THEN t[p] ELSE Zero]

LEMMA OverlaySays ==
    ASSUME NEW f, NEW g, NEW i \in File, NEW off \in Nat, NEW n \in Nat, NEW v,
           off + n <= MaxPages, Shows(f, g, i, off, n, v, {}), Tight(f.inode[i]),
           f.inode[i].size \in 0 .. MaxPages,
           g.inode[i].size = End(f.inode[i], off, n),
           NEW t, t = Row(f, i)
    PROVE  Row(g, i) = Over(t, off, n, v)
<1> DEFINE size == f.inode[i].size
           new  == g.inode[i].size
<1>1. new = IF size < off + n THEN off + n ELSE size
  BY DEF End
<1>2. \A p \in Page : size <= p => View(f, i, p) = Zero
  BY DEF Tight, View, PageOf
<1>3. \A p \in Page : View(g, i, p) = IF p \in off .. off + n - 1 THEN v ELSE View(f, i, p)
  BY DEF Shows
<1>4. size \in 0 .. MaxPages /\ MaxPages \in Nat
  BY BoundAssumption
<1>5. t = [p \in 0 .. size - 1 |-> View(f, i, p)]
  BY DEF Row
<1> HIDE DEF size, new
<1>6. /\ 0 .. new - 1 = (0 .. size - 1) \cup (0 .. off + n - 1)
      /\ 0 .. new - 1 \subseteq Page
  BY <1>1, <1>4 DEF Page
<1>7. DOMAIN t = 0 .. size - 1 /\ \A p \in DOMAIN t : t[p] = View(f, i, p)
  BY <1>5
<1>8. \A p \in 0 .. new - 1 :
        View(g, i, p) = IF p >= off /\ p < off + n THEN v
                        ELSE IF p \in DOMAIN t THEN t[p] ELSE Zero
  <2> SUFFICES ASSUME NEW p \in 0 .. new - 1
               PROVE  View(g, i, p) = IF p >= off /\ p < off + n THEN v
                                      ELSE IF p \in DOMAIN t THEN t[p] ELSE Zero
    OBVIOUS
  <2>1. p \in Page /\ p \in Int
    BY <1>6
  <2>2. p \in off .. off + n - 1 <=> p >= off /\ p < off + n
    BY <2>1
  <2>3. p \notin 0 .. size - 1 => size <= p
    BY <1>4, <2>1
  <2> QED
    BY <1>2, <1>3, <1>7, <2>1, <2>2, <2>3
<1>9. Over(t, off, n, v)
        = [p \in 0 .. new - 1 |-> IF p >= off /\ p < off + n THEN v
                                  ELSE IF p \in DOMAIN t THEN t[p] ELSE Zero]
  BY <1>6, <1>7, Zenon DEF Over
<1> QED
  BY <1>8, <1>9 DEF new, Row

\* The result of a write by path, whether its file is found or not.
LEMMA WriteSays ==
    ASSUME Good(disk), Shapes(disk), NEW i \in File, disk.inode[i].kind # "none",
           NEW off \in Page, NEW len \in 1 .. MaxPages, off + len <= MaxPages,
           NEW v \in Value, NEW bad,
           NEW r, r = op_write(disk, i, off, len, v, readonly, bad)
    PROVE  \/ r.fs = disk /\ r.rc # "ok" /\ bad # {}
           \/ /\ Wrote(disk, ext2fs_file_open2(disk, i), off, len, v, r.rc, r.n, r.fs)
              /\ r.data = <<>>
              /\ bad = {} => r.rc = "ok"
<1> DEFINE o == do_open(disk, i, readonly, bad)
           h == ext2fs_file_open2(disk, i)
           x == do_write(disk, h, off, len, v, bad)
           c == do_release(x.fs, x.h, bad)
<1>1. CASE o.h = NoHandle /\ bad # {}
  BY <1>1 DEF op_write, Died, Ret
<1>2. CASE o.h = h
  <2>1. Current(disk, h) /\ h.file = i /\ h.inode = disk.inode[i] /\ Tight(h.inode)
    BY OpenCurrent DEF Good, Shapes, ext2fs_file_open2
  <2>2. r = CloseWritten(x, bad)
    <3>1. h # NoHandle
      BY <2>1, HandleAssumption DEF Current
    <3> QED
      BY <1>2, <3>1 DEF op_write
  <2> HIDE DEF h
  <2>3. /\ Wrote(disk, h, off, len, v, x.rc, x.n, x.fs)
        /\ Loose(h, off, len, v, x)
        /\ bad = {} => x.rc = "ok"
    BY <2>1, WriteShows
  <2> HIDE DEF x
  <2>4. Wrote(disk, h, off, len, v, x.rc, x.n, c.fs)
    BY <2>1, <2>3, CloseShows
  <2>5. c = Ret(c.fs, c.rc)
    BY ReleaseHonest
  <2>6. r = [c EXCEPT !.rc = x.rc, !.n = x.n]
    BY <2>2 DEF CloseWritten
  <2> HIDE DEF c
  <2>7. r.fs = c.fs /\ r.rc = x.rc /\ r.n = x.n /\ r.data = <<>>
    BY <2>5, <2>6 DEF Ret
  <2> QED
    BY <2>3, <2>4, <2>7 DEF h
<1> QED
  BY <1>1, <1>2, OpenSays

LEMMA ShowsShapes ==
    ASSUME PromiseInv, NEW i \in File, NEW g, NEW off, NEW n, NEW v, NEW X,
           Shows(disk, g, i, off, n, v, X), disk.inode[i].kind = "reg"
    PROVE  /\ Shapes(g) /\ Beside(disk, g, i) /\ g.inode[i].kind = "reg"
           /\ \A j \in File : disk.inode[j].kind = "reg" => g.inode[j].kind = "reg"
  BY DEF PromiseInv, Shapes, Shows, Beside, LinkShape

LEMMA WritePromise ==
    ASSUME PromiseInv, NEW i \in File, NEW a \in Handle, NEW off \in Page,
           NEW len \in 1 .. MaxPages, NEW v \in Value, NEW bad, Write(a, i, off, len, v, bad)
    PROVE  Shapes(disk') /\ OpenRegular' /\ Contents!Next
<1> DEFINE r == op_write(disk, i, off, len, v, readonly, bad)
           h == ext2fs_file_open2(disk, i)
           old == disk.inode[i]
           new == disk'.inode[i]
           Y == off .. off + len - 1
<1>1. /\ disk \in Disk /\ Good(disk) /\ old.kind = "reg" /\ Shapes(disk)
      /\ Done("write", r, bad) /\ UNCHANGED fh /\ off + len <= MaxPages
  BY DEF PromiseInv, FilesInv, Good, OpenRegular, Write, OpenOn
<1>2. \/ r.fs = disk /\ r.rc # "ok"
      \/ Wrote(disk, h, off, len, v, r.rc, r.n, r.fs) /\ r.data = <<>>
  BY <1>1, WriteSays
<1>3. h.inode = old /\ h.file = i
  BY DEF ext2fs_file_open2
<1>4. disk' = r.fs
  BY <1>1 DEF Done
<1>5. /\ old.size \in 0 .. MaxPages /\ Tight(old) /\ off \in Nat /\ len \in Nat
      /\ Texts[i] = Row(disk, i)
  BY <1>1, RegularText, TextsSay, BoundAssumption DEF Disk, Inode, Shapes, Page
<1> HIDE DEF r, h
<1>6. CASE r.fs = disk /\ r.rc # "ok"
  BY <1>1, <1>4, <1>6, RegularStay, NothingSo
<1>7. CASE Wrote(disk, h, off, len, v, r.rc, r.n, r.fs) /\ r.data = <<>> /\ r.rc = "ok"
  <2>1. /\ r.n \in 0 .. len /\ Shows(disk, disk', i, off, r.n, v, {})
        /\ new.size = End(old, off, r.n) /\ disk' \in Disk
    BY <1>3, <1>4, <1>7 DEF Wrote, Good
  <2>2. /\ Shapes(disk') /\ Beside(disk, disk', i) /\ new.kind = "reg"
        /\ \A j \in File : disk.inode[j].kind = "reg" => disk'.inode[j].kind = "reg"
    BY <1>1, <2>1, ShowsShapes
  <2>3. r.n \in Nat /\ off + r.n <= MaxPages
    BY <1>1, <1>5, <2>1, BoundAssumption
  <2>4. TextIn(disk', i) = Row(disk', i)
    BY <2>2, RegularText
  <2>5. PICK n, t, u : n = r.n /\ t = Texts[i] /\ u = Over(t, off, n, v)
    OBVIOUS
  <2>6. TextIn(disk', i) = u
    <3>1. /\ n \in Nat /\ off + n <= MaxPages /\ Shows(disk, disk', i, off, n, v, {})
          /\ new.size = End(old, off, n)
          /\ t = Row(disk, i)
      BY <1>5, <2>1, <2>3, <2>5
    <3>2. Row(disk', i) = Over(t, off, n, v)
      BY <1>5, <3>1, OverlaySays
    <3> QED
      BY <2>4, <2>5, <3>2
  <2>7. Contents!Becomes(i, "reg", Contents!Overlay(Texts[i], off, n, v))
    <3>1. Contents!Overlay(Texts[i], off, n, v) = u
      BY <2>5 DEF Contents!Overlay, Over
    <3>2. /\ [j \in File |-> disk'.inode[j].kind]
                = [[j \in File |-> disk.inode[j].kind] EXCEPT ![i] = "reg"]
          /\ Texts' = [Texts EXCEPT ![i] = u]
      BY <1>1, <2>2, <2>6, BecomesSo
    <3> QED
      BY <3>1, <3>2 DEF Contents!Becomes
  <2>8. Contents!Answer("write", "ok", n, <<>>)
    BY <1>1, <1>7, <2>5, AnswerSo
  <2>9. Contents!Write(i, off, len, v)
    BY <1>1, <2>1, <2>5, <2>7, <2>8 DEF Contents!Write
  <2> QED
    BY <1>1, <2>2, <2>9, RegularStay DEF Contents!Next, Page
<1>8. CASE Wrote(disk, h, off, len, v, r.rc, r.n, r.fs) /\ r.data = <<>> /\ r.rc # "ok"
  <2>1. /\ r.n = 0 /\ Shows(disk, disk', i, off, 0, v, Y) /\ disk' \in Disk
        /\ old.size <= new.size /\ new.size <= End(old, off, len)
    BY <1>3, <1>4, <1>8 DEF Wrote, Good
  <2>2. /\ Shapes(disk') /\ Beside(disk, disk', i) /\ new.kind = "reg"
        /\ \A j \in File : disk.inode[j].kind = "reg" => disk'.inode[j].kind = "reg"
    BY <1>1, <2>1, ShowsShapes
  <2>3. /\ Texts'[i] = TextIn(disk', i)
        /\ Texts'[i] = [p \in 0 .. new.size - 1 |-> View(disk', i, p)]
    BY <2>2, RegularText, TextsSayNext DEF Row
  <2>4. new.size \in 0 .. MaxPages
    BY <2>1 DEF Disk, Inode
  <2>5. Contents!Becomes(i, "reg", Texts'[i])
    <3>1. PICK t : t = TextIn(disk', i)
      OBVIOUS
    <3>2. /\ [j \in File |-> disk'.inode[j].kind]
                = [[j \in File |-> disk.inode[j].kind] EXCEPT ![i] = "reg"]
          /\ Texts' = [Texts EXCEPT ![i] = t]
      BY <1>1, <2>2, <3>1, BecomesSo
    <3> QED
      BY <2>3, <3>1, <3>2 DEF Contents!Becomes
  <2>6. Contents!Answer("write", "error", 0, <<>>)
    BY <1>1, <1>8, <2>1, AnswerSo
  <2>7. /\ DOMAIN Texts[i] \subseteq DOMAIN Texts'[i]
        /\ DOMAIN Texts'[i] \subseteq DOMAIN Texts[i] \cup 0 .. off + len - 1
        /\ \A p \in DOMAIN Texts'[i] \ Y :
            Texts'[i][p] = IF p \in DOMAIN Texts[i] THEN Texts[i][p] ELSE Zero
    <3> DEFINE N == old.size
               M == new.size
    <3>1. M <= IF N < off + len THEN off + len ELSE N
      BY <2>1 DEF End
    <3>2. \A p \in Page : N <= p => View(disk, i, p) = Zero
      BY <1>5 DEF Tight, View, PageOf
    <3>3. \A p \in Page \ Y : View(disk', i, p) = View(disk, i, p)
      <4>1. \A p \in Page \ Y : p \notin off .. off + 0 - 1
        BY <1>5
      <4> QED
        BY <2>1, <4>1 DEF Shows
    <3>4. /\ N \in 0 .. MaxPages /\ M \in 0 .. MaxPages /\ N <= M /\ MaxPages \in Nat
          /\ DOMAIN Texts[i] = 0 .. N - 1 /\ DOMAIN Texts'[i] = 0 .. M - 1
      BY <1>5, <2>1, <2>3, <2>4, BoundAssumption DEF Row
    <3> HIDE DEF N, M
    <3>5. 0 .. M - 1 \subseteq Page /\ 0 .. N - 1 \subseteq 0 .. M - 1
          /\ 0 .. M - 1 \subseteq (0 .. N - 1) \cup (0 .. off + len - 1)
          /\ \A p \in 0 .. M - 1 : p \notin 0 .. N - 1 => N <= p
      BY <1>5, <3>1, <3>4 DEF Page
    <3>6. /\ \A p \in 0 .. M - 1 : Texts'[i][p] = View(disk', i, p)
          /\ \A p \in 0 .. N - 1 : Texts[i][p] = View(disk, i, p)
      BY <1>5, <2>3 DEF N, M, Row
    <3> HIDE DEF Y
    <3> QED
      BY <3>2, <3>3, <3>4, <3>5, <3>6
  <2>8. Contents!BrokenWrite(i, off, len)
    BY <1>1, <2>5, <2>6, <2>7 DEF Contents!BrokenWrite
  <2> QED
    BY <1>1, <2>2, <2>8, RegularStay DEF Contents!Next, Page
<1> QED
  BY <1>2, <1>6, <1>7, <1>8

LEMMA TruncatePromise ==
    ASSUME PromiseInv, NEW i \in File, NEW size \in 0 .. MaxPages, NEW bad,
           Truncate(i, size, bad)
    PROVE  Shapes(disk') /\ OpenRegular' /\ Contents!Next
<1> DEFINE o == do_open(disk, i, readonly, bad)
           h == ext2fs_file_open2(disk, i)
           s == ext2fs_file_set_size2(disk, h, size)
           r == op_truncate(disk, i, size, readonly, bad)
           old == disk.inode[i]
           new == disk'.inode[i]
<1>1. /\ disk \in Disk /\ Good(disk) /\ old.kind = "reg" /\ Shapes(disk)
      /\ Done("truncate", r, bad) /\ UNCHANGED fh
  BY DEF PromiseInv, FilesInv, Good, Truncate, Is
<1>2. h.inode = old /\ h.file = i /\ h.buf = <<>> /\ Current(disk, h)
  BY <1>1, OpenCurrent DEF ext2fs_file_open2
<1>3. Resized(disk, h, size, s.fs, s.h) /\ s.fs \in Disk
  BY <1>1, <1>2, SetSizeSays, SetSizeGood DEF Leads, Good
<1>4. \/ r.fs = disk /\ r.rc # "ok"
      \/ r.fs = s.fs /\ r.n = 0 /\ r.data = <<>>
  <2>1. CASE o.h = NoHandle
    BY <2>1 DEF op_truncate, Ret
  <2>2. CASE o.h # NoHandle
    <3>1. o.h = h
      BY <2>2, OpenSays
    <3>2. s.h.buf = <<>>
      BY <1>2, <1>3 DEF Resized
    <3>3. do_release(disk, h, bad) = Ret(disk, "ok") /\ do_release(s.fs, s.h, bad) = Ret(s.fs, "ok")
      BY <1>2, <3>2, CloseClean
    <3>4. r \in {[Ret(disk, "ok") EXCEPT !.rc = "EIO"], [Ret(s.fs, "ok") EXCEPT !.rc = "EIO"],
                 Ret(s.fs, "ok")}
      BY <2>2, <3>1, <3>3 DEF op_truncate
    <3> HIDE DEF r, s
    <3> QED
      BY <3>4 DEF Ret
  <2> QED
    BY <2>1, <2>2
<1>5. disk' = r.fs
  BY <1>1 DEF Done
<1> HIDE DEF r
<1>6. CASE r.fs = disk /\ r.rc # "ok"
  BY <1>1, <1>5, <1>6, RegularStay, NothingSo
<1>7. CASE r.fs = s.fs /\ r.n = 0 /\ r.data = <<>>
  <2>1. /\ new.kind = "reg" /\ new.size = size /\ disk'.content = disk.content
        /\ \A j \in File \ {i} : disk'.inode[j] = disk.inode[j]
        /\ \A p \in Page : new.map[p] = IF p < size THEN old.map[p] ELSE NoBlock
    BY <1>1, <1>2, <1>3, <1>5, <1>7 DEF Resized
  <2>2. Beside(disk, disk', i)
    BY <2>1 DEF Beside, View, PageOf
  <2>3. Tight(new)
    BY <2>1, BoundAssumption DEF Tight, Page
  <2>4. Shapes(disk')
    BY <1>1, <2>1, <2>3 DEF Shapes, LinkShape
  <2>5. OpenRegular'
    BY <1>1, <2>1, RegularStay
  <2>6. Texts[i] = [p \in 0 .. old.size - 1 |-> View(disk, i, p)]
    BY <1>1, RegularText, TextsSay DEF Row
  <2>7. TextIn(disk', i) = [p \in 0 .. size - 1 |-> View(disk', i, p)]
    BY <2>1, RegularText DEF Row
  <2>8. TextIn(disk', i) = Contents!Cut(Texts[i], size)
    <3> DEFINE N == old.size
    <3>1. N \in 0 .. MaxPages /\ MaxPages \in Nat
      BY <1>1, BoundAssumption DEF Disk, Inode
    <3>2. \A p \in Page : N <= p => View(disk, i, p) = Zero
      BY <1>1 DEF Shapes, Tight, View, PageOf
    <3>3. DOMAIN Texts[i] = 0 .. N - 1 /\ \A p \in 0 .. N - 1 : Texts[i][p] = View(disk, i, p)
      BY <2>6
    <3> HIDE DEF N
    <3>4. /\ 0 .. size - 1 \subseteq Page /\ \A p \in 0 .. size - 1 : p < size
          /\ \A p \in 0 .. size - 1 : p \notin 0 .. N - 1 => N <= p
      BY <3>1 DEF Page
    <3>5. \A p \in 0 .. size - 1 : View(disk', i, p) = View(disk, i, p)
      BY <2>1, <3>4 DEF View, PageOf
    <3>6. \A p \in 0 .. size - 1 :
            View(disk', i, p) = IF p \in DOMAIN Texts[i] THEN Texts[i][p] ELSE Zero
      BY <3>2, <3>3, <3>4, <3>5
    <3> QED
      BY <2>7, <3>6 DEF Contents!Cut
  <2>9. Contents!Becomes(i, "reg", Contents!Cut(Texts[i], size))
    BY <1>1, <2>1, <2>2, <2>8, BecomesSo, Zenon DEF Contents!Becomes
  <2>10. Contents!Answer("truncate", IF r.rc = "ok" THEN "ok" ELSE "error", 0, <<>>)
    BY <1>1, <1>7, AnswerSo
  <2>11. Contents!Truncate(i, size)
    BY <1>1, <2>9, <2>10 DEF Contents!Truncate
  <2> QED
    BY <2>4, <2>5, <2>11 DEF Contents!Next
<1> QED
  BY <1>4, <1>6, <1>7

\* A long target: the link that fails keeps one page, in a block, or none.
LEMMA TargetSays ==
    ASSUME NEW f, Good(f), Shapes(f), NEW i \in File, NEW v \in Value, NEW bad,
           f.inode[i] = NewInode("lnk", Zero),
           NEW r, r = CloseTarget(do_write(f, ext2fs_file_open2(f, i), 0, 1, v, bad), bad)
    PROVE  /\ r.n = 0 /\ r.data = <<>> /\ r.rc \in {"ok", "EIO"}
           /\ Good(r.fs) /\ Shapes(r.fs) /\ Beside(f, r.fs, i) /\ r.fs.inode[i].kind = "lnk"
           /\ r.fs.inode[i].short = Zero
           /\ r.rc = "ok" => r.fs.inode[i].size = 1 /\ View(r.fs, i, 0) = v
           /\ bad = {} /\ r.rc # "ok" => FreeBlocks(f) = {}
<1> DEFINE h == ext2fs_file_open2(f, i)
           w == do_write(f, h, 0, 1, v, bad)
           c == do_release(w.fs, w.h, bad)
           new == r.fs.inode[i]
<1>1. /\ Current(f, h) /\ h.file = i /\ h.inode = f.inode[i] /\ Tight(h.inode)
      /\ h.inode.kind = "lnk" /\ h.inode.size = 0 /\ h.inode.short = Zero
      /\ \A p \in Page : h.inode.map[p] = NoBlock
  BY OpenCurrent DEF Good, Shapes, ext2fs_file_open2, NewInode
<1>2. 0 \in Page /\ 1 \in 1 .. MaxPages /\ 0 + 1 <= MaxPages
  BY BoundAssumption DEF Page
<1> HIDE DEF h
<1>3. /\ Wrote(f, h, 0, 1, v, w.rc, w.n, w.fs)
      /\ Loose(h, 0, 1, v, w)
      /\ bad = {} =>
            /\ w.rc = "ok" /\ LargestFit(f, h.inode, 0, 1, w.n)
            /\ w.n = 1 => w.h.buf = <<>>
  BY <1>1, <1>2, WriteShows
<1>4. r = IF w.n # 1 THEN [Ret(w.fs, "EIO") EXCEPT !.lost = 1] ELSE c
  BY DEF CloseTarget, h
<1> HIDE DEF w
<1>5. Wrote(f, h, 0, 1, v, w.rc, w.n, c.fs)
  BY <1>1, <1>2, <1>3, CloseShows
<1>6. c = Ret(c.fs, c.rc) /\ c.rc \in {"ok", "EIO"}
  BY ReleaseHonest
<1>7. bad = {} /\ w.n = 1 => c.rc = "ok"
  <2>1. w.h.buf = <<>> => c = Ret(w.fs, "ok")
    BY CloseClean
  <2> QED
    BY <1>3, <2>1 DEF Ret
<1> HIDE DEF c
<1>8. /\ r.n = 0 /\ r.data = <<>> /\ r.rc \in {"ok", "EIO"}
      /\ Wrote(f, h, 0, 1, v, w.rc, w.n, r.fs)
      /\ r.rc = "ok" => w.n = 1
      /\ bad = {} /\ r.rc # "ok" => w.n # 1
  BY <1>3, <1>4, <1>5, <1>6, <1>7 DEF Ret
<1>9. w.n = 1 => w.rc = "ok"
  BY <1>3 DEF Wrote
<1>10. End(h.inode, 0, 1) = 1 /\ End(h.inode, 0, 0) = 0
  BY <1>1 DEF End
<1>11. \E n, X : Shows(f, r.fs, i, 0, n, v, X)
  BY <1>1, <1>8 DEF Wrote
<1>12. /\ Good(r.fs) /\ Beside(f, r.fs, i) /\ Tight(new)
       /\ new.kind = "lnk" /\ new.short = Zero
       /\ \A j \in File \ {i} : r.fs.inode[j] = f.inode[j]
  BY <1>1, <1>8, <1>11 DEF Wrote, Shows, Beside
<1>13. w.n = 1 => new.size = 1 /\ View(r.fs, i, 0) = v
  <2>1. 0 \in 0 .. 0 + 1 - 1
    OBVIOUS
  <2> QED
    BY <1>1, <1>2, <1>8, <1>9, <1>10, <2>1 DEF Wrote, Shows
<1>14. new.size \in {0, 1} /\ (new.size = 1 => new.map[0] # NoBlock)
  <2>1. CASE w.n = 1
    BY <1>13, <2>1, ValueAssumption DEF View, PageOf
  <2>2. CASE w.n # 1
    <3>1. CASE w.rc = "ok"
      <4>1. w.n \in 0 .. 1 /\ new.size = End(h.inode, 0, w.n)
        BY <1>1, <1>8, <3>1 DEF Wrote
      <4>2. w.n = 0
        BY <2>2, <4>1
      <4> QED
        BY <1>10, <4>1, <4>2
    <3>2. CASE w.rc # "ok"
      <4>1. /\ 0 <= new.size /\ new.size <= 1
            /\ 0 < new.size => new.map[0] # NoBlock
        BY <1>1, <1>8, <1>10, <3>2 DEF Wrote
      <4>2. new.size \in Nat
        BY <1>1, <1>12 DEF Good, Disk, Inode, Current, FileHandle
      <4> QED
        BY <4>1, <4>2
    <3> QED
      BY <3>1, <3>2
  <2> QED
    BY <2>1, <2>2
<1>15. Shapes(r.fs)
  BY <1>12, <1>14 DEF Shapes, LinkShape
<1>16. bad = {} /\ w.n # 1 => FreeBlocks(f) = {}
  <2> SUFFICES ASSUME bad = {}, w.n # 1, NEW b \in FreeBlocks(f) PROVE FALSE
    OBVIOUS
  <2>1. w.n = 0 /\ Placements(f, h.inode, 0, 0 + 1) = {}
    <3>1. w.n \in 0 .. 1 /\ (w.n = 1 \/ Placements(f, h.inode, 0, w.n + 1) = {})
      BY <1>3 DEF LargestFit
    <3> QED
      BY <3>1
  <2>2. {p \in 0 .. 0 + (0 + 1) - 1 : h.inode.map[p] = NoBlock} = {0}
    <3>1. 0 .. 0 + (0 + 1) - 1 = {0}
      OBVIOUS
    <3> QED
      BY <1>1, <1>2, <3>1
  <2> DEFINE got == [p \in {0} |-> b]
  <2>3. got \in [{0} -> FreeBlocks(f)] /\ IsInjective(got)
    BY DEF IsInjective
  <2> QED
    BY <2>1, <2>2, <2>3 DEF Placements, Injection
<1> QED
  BY <1>8, <1>12, <1>13, <1>15, <1>16

LEMMA SymlinkPromise ==
    ASSUME PromiseInv, NEW i \in File, NEW v \in Value, NEW long \in BOOLEAN, NEW bad,
           Symlink(i, v, long, bad)
    PROVE  Shapes(disk') /\ OpenRegular' /\ Contents!Next
<1> DEFINE made == [disk EXCEPT !.inode[i] = NewInode("lnk", IF long THEN Zero ELSE v)]
           o == do_open(made, i, readonly, bad)
           h == ext2fs_file_open2(made, i)
           r == op_symlink(disk, i, v, long, readonly, bad)
           new == disk'.inode[i]
<1>1. /\ disk \in Disk /\ Good(disk) /\ disk.inode[i].kind = "none" /\ Shapes(disk)
      /\ Done("symlink", r, bad) /\ UNCHANGED fh
  BY DEF PromiseInv, FilesInv, Good, Symlink, Is
<1>2. (IF long THEN Zero ELSE v) \in Datum /\ v # Zero
  BY ValueAssumption DEF Datum
<1>3. Good(made) /\ made \in Disk
  BY <1>1, <1>2, MadeGood DEF Leads, Good
<1>4. /\ made.inode[i] = NewInode("lnk", IF long THEN Zero ELSE v)
      /\ made.content = disk.content
      /\ \A j \in File \ {i} : made.inode[j] = disk.inode[j]
  BY <1>1 DEF Disk
<1>5. /\ ~ long => r = Ret(made, "ok")
      /\ long => \/ r = [Ret(made, "EIO") EXCEPT !.lost = o.lost]
                 \/ r = CloseTarget(do_write(made, h, 0, 1, v, bad), bad)
  <2>1. o.h = NoHandle \/ o.h = h
    BY OpenSays
  <2> QED
    BY <2>1 DEF op_symlink
<1> HIDE DEF made
<1>6. Shapes(made) /\ Beside(disk, made, i)
  BY <1>1, <1>4, NewShape DEF Shapes, Beside, View, PageOf
<1>7. /\ made.inode[i].kind = "lnk" /\ made.inode[i].size = 0
      /\ made.inode[i].short = IF long THEN Zero ELSE v
      /\ Blocks(made.inode[i]) = {}
  BY <1>4 DEF NewInode, Blocks
<1>8. disk' = r.fs
  BY <1>1 DEF Done
<1> DEFINE Stays == /\ r.n = 0 /\ r.data = <<>> /\ Shapes(r.fs) /\ Beside(disk, r.fs, i)
                    /\ r.fs.inode[i].kind = "lnk"
           Holds == TextIn(r.fs, i) = [p \in {0} |-> v]
           Fails == r.rc # "ok" /\ DOMAIN TextIn(r.fs, i) \subseteq {0}
<1>9. Stays /\ (Holds \/ Fails) /\ (r.rc = "ok" <=> ~ Fails)
  <2>1. CASE ~ long
    <3>1. r = Ret(made, "ok")
      BY <1>5, <2>1
    <3>2. TextIn(made, i) = [p \in {0} |-> v]
      BY <1>2, <1>7, <2>1 DEF TextIn
    <3> HIDE DEF r
    <3> QED
      BY <1>6, <1>7, <3>1, <3>2 DEF Ret
  <2>2. CASE long /\ r = [Ret(made, "EIO") EXCEPT !.lost = o.lost]
    <3>1. TextIn(made, i) = <<>>
      BY <1>7, <2>2, NoText
    <3> HIDE DEF r, o
    <3>2. r.fs = made /\ r.rc = "EIO" /\ r.n = 0 /\ r.data = <<>>
      BY <2>2 DEF Ret
    <3>3. DOMAIN <<>> = {}
      OBVIOUS
    <3> QED
      BY <1>6, <1>7, <3>1, <3>2, <3>3
  <2>3. CASE long /\ r = CloseTarget(do_write(made, h, 0, 1, v, bad), bad)
    <3>1. made.inode[i] = NewInode("lnk", Zero)
      BY <1>4, <2>3
    <3> HIDE DEF r
    <3>2. /\ r.n = 0 /\ r.data = <<>> /\ r.rc \in {"ok", "EIO"}
          /\ Shapes(r.fs) /\ Beside(made, r.fs, i) /\ r.fs.inode[i].kind = "lnk"
          /\ r.fs.inode[i].short = Zero
          /\ r.rc = "ok" => r.fs.inode[i].size = 1 /\ View(r.fs, i, 0) = v
      BY <1>3, <1>6, <2>3, <3>1, TargetSays
    <3>3. Beside(disk, r.fs, i)
      BY <1>6, <3>2 DEF Beside
    <3>4. TextIn(r.fs, i) = [p \in 0 .. r.fs.inode[i].size - 1 |-> View(r.fs, i, p)]
      BY <3>2 DEF TextIn, Row
    <3>5. r.fs.inode[i].size \in {0, 1}
      BY <3>2 DEF Shapes, LinkShape
    <3>6. 0 .. 0 - 1 = {} /\ 0 .. 1 - 1 = {0}
      OBVIOUS
    <3>7. r.rc = "ok" => Holds
      BY <3>2, <3>4, <3>6
    <3>8. DOMAIN TextIn(r.fs, i) \subseteq {0}
      BY <3>4, <3>5, <3>6
    <3> HIDE DEF Holds
    <3> QED
      BY <3>2, <3>3, <3>7, <3>8
  <2> QED
    BY <1>5, <2>1, <2>2, <2>3
<1> HIDE DEF r
<1>10. Shapes(disk') /\ OpenRegular'
  <2>1. \A j \in File : disk.inode[j].kind = "reg" => disk'.inode[j].kind = "reg"
    BY <1>1, <1>8, <1>9 DEF Beside
  <2> QED
    BY <1>1, <1>8, <1>9, <2>1, RegularStay
<1>11. PICK t : t = TextIn(disk', i)
  OBVIOUS
<1>12. Contents!Becomes(i, "lnk", t)
  <2>1. Beside(disk, disk', i) /\ disk'.inode[i].kind = "lnk"
    BY <1>8, <1>9
  <2> QED
    BY <1>1, <1>11, <2>1, BecomesSo DEF Contents!Becomes
<1>13. PICK rc : /\ rc = IF r.rc = "ok" THEN "ok" ELSE "error"
                 /\ Contents!Answer("symlink", rc, 0, <<>>)
  <2>1. Done("symlink", r, bad) /\ r.n = 0 /\ r.data = <<>>
    BY <1>1, <1>9
  <2>2. PICK rc : rc = IF r.rc = "ok" THEN "ok" ELSE "error"
    OBVIOUS
  <2>3. Contents!Answer("symlink", rc, r.n, r.data)
    BY <2>1, <2>2, AnswerSo
  <2> QED
    BY <2>1, <2>2, <2>3
<1>14. ret'.op = "symlink"
  BY <1>1 DEF Done
<1>15. CASE r.rc = "ok"
  <2>1. t = [p \in {0} |-> v]
    BY <1>8, <1>9, <1>11, <1>15
  <2>2. Contents!Overlay(<<>>, 0, 1, v) = t
    <3>1. DOMAIN <<>> \cup 0 .. 0 + 1 - 1 = {0}
      OBVIOUS
    <3>2. [p \in {0} |-> IF p >= 0 /\ p < 0 + 1 THEN v
                          ELSE IF p \in DOMAIN <<>> THEN <<>>[p] ELSE Zero] = [p \in {0} |-> v]
      OBVIOUS
    <3> QED
      BY <2>1, <3>1, <3>2, Zenon DEF Contents!Overlay
  <2>3. Contents!Symlink(i, v)
    BY <1>1, <1>12, <1>13, <1>14, <1>15, <2>2 DEF Contents!Symlink
  <2> QED
    BY <1>10, <2>3 DEF Contents!Next
<1>16. CASE r.rc # "ok"
  <2>1. Texts'[i] = t
    BY <1>11, TextsSayNext
  <2>2. DOMAIN t \subseteq {0}
    BY <1>8, <1>9, <1>11, <1>16
  <2>3. Contents!Answer("symlink", "error", 0, <<>>)
    BY <1>13, <1>16
  <2>4. Contents!Becomes(i, "lnk", Texts'[i]) /\ DOMAIN Texts'[i] \subseteq {0}
    BY <1>12, <2>1, <2>2 DEF Contents!Becomes
  <2>5. disk.inode[i].kind = "none"
    BY <1>1
  <2>6. Contents!Symlink(i, v)
    <3>1. [op |-> ret.op, rc |-> IF ret.rc = "ok" THEN "ok" ELSE "error",
           n |-> ret.n, data |-> ret.data]'.op = "symlink"
      BY <1>14
    <3>2. [j \in File |-> disk.inode[j].kind][i] = "none"
      BY <2>5
    <3> QED
      BY <2>3, <2>4, <3>1, <3>2, Zenon DEF Contents!Symlink
  <2> QED
    BY <1>10, <2>6 DEF Contents!Next
<1> QED
  BY <1>15, <1>16

LEMMA UnlinkPromise ==
    ASSUME PromiseInv, NEW i \in File, Unlink(i)
    PROVE  Shapes(disk') /\ OpenRegular' /\ Contents!Next
<1> DEFINE r == op_unlink(disk, i)
<1>1. /\ disk \in Disk /\ disk.inode[i].kind # "none" /\ Shapes(disk)
      /\ Done("unlink", r, {}) /\ UNCHANGED fh
      /\ \A a \in Handle : ~ OpenOn(a, i)
  BY DEF PromiseInv, FilesInv, Good, Unlink, Is
<1>2. /\ r.fs.inode[i] = NewInode("none", Zero) /\ r.fs.content = disk.content
      /\ \A j \in File \ {i} : r.fs.inode[j] = disk.inode[j]
      /\ r.rc = "ok" /\ r.n = 0 /\ r.data = <<>>
  BY <1>1 DEF op_unlink, Ret, Disk
<1>3. disk' = r.fs
  BY <1>1 DEF Done
<1> HIDE DEF r
<1>4. Shapes(disk') /\ Beside(disk, disk', i)
  BY <1>1, <1>2, <1>3, NewShape DEF Shapes, Beside, View, PageOf
<1>5. TextIn(disk', i) = <<>> /\ disk'.inode[i].kind = "none"
  BY <1>2, <1>3, NoText DEF NewInode
<1>6. OpenRegular'
  <2>1. \A a \in Handle : fh[a] # NoHandle => fh[a].file \in File \ {i}
    BY <1>1 DEF OpenOn, PromiseInv, FilesInv, Handles, FileHandle
  <2> QED
    BY <1>1, <1>2, <1>3, <2>1 DEF PromiseInv, OpenRegular
<1>7. Contents!Becomes(i, "none", <<>>)
  BY <1>1, <1>4, <1>5, BecomesSo, Zenon DEF Contents!Becomes
<1>8. Contents!Answer("unlink", "ok", 0, <<>>)
  <2>1. Done("unlink", r, {}) /\ r.n = 0 /\ r.data = <<>>
    BY <1>1, <1>2
  <2>2. "ok" = IF r.rc = "ok" THEN "ok" ELSE "error"
    BY <1>2
  <2>3. Contents!Answer("unlink", "ok", r.n, r.data)
    BY <2>1, <2>2, AnswerSo
  <2> QED
    BY <2>1, <2>3
<1>9. Contents!Unlink(i)
  BY <1>1, <1>7, <1>8 DEF Contents!Unlink
<1> QED
  BY <1>4, <1>6, <1>9 DEF Contents!Next

LEMMA DoneSo ==
    ASSUME NEW op \in {"flush", "release"}, NEW bad, Done(op, Ret(disk, "ok"), bad)
    PROVE  disk' = disk /\ ret'.rc = "ok" /\ Contents!Next
<1>1. PICK r : r = Ret(disk, "ok")
  OBVIOUS
<1>2. r.fs = disk /\ r.rc = "ok"
  BY <1>1 DEF Ret
<1>3. Done(op, r, bad)
  BY <1>1
<1>4. disk' = disk /\ ret'.rc = "ok"
  BY <1>2, <1>3 DEF Done
<1> QED
  BY <1>2, <1>3, <1>4, NothingSo

LEMMA FlushPromise ==
    ASSUME PromiseInv, NEW a \in Handle, op_flush(a)
    PROVE  Shapes(disk') /\ OpenRegular' /\ Contents!Next /\ ret'.rc = "ok"
<1>1. fh[a] # NoHandle /\ fh[a].buf = <<>> /\ fh \in [Handle -> FileHandle \cup {NoHandle}]
  BY DEF op_flush, PromiseInv, OpenRegular, FilesInv, Handles
<1>2. Done("flush", Ret(disk, "ok"), {}) /\ fh' = fh
  BY <1>1 DEF op_flush, ext2fs_file_flush
<1>3. disk' = disk /\ ret'.rc = "ok" /\ Contents!Next
  BY <1>2, DoneSo
<1> QED
  BY <1>2, <1>3, RegularStay DEF PromiseInv

LEMMA ReleasePromise ==
    ASSUME PromiseInv, NEW a \in Handle, op_release(a)
    PROVE  Shapes(disk') /\ OpenRegular' /\ Contents!Next /\ ret'.rc = "ok"
<1>1. /\ fh[a] # NoHandle /\ fh[a].buf = <<>> /\ fh \in [Handle -> FileHandle \cup {NoHandle}]
      /\ fh' = [fh EXCEPT ![a] = NoHandle]
  BY DEF op_release, PromiseInv, OpenRegular, FilesInv, Handles
<1>2. Done("release", Ret(disk, "ok"), {})
  BY <1>1, CloseClean DEF op_release
<1>3. disk' = disk /\ ret'.rc = "ok" /\ Contents!Next
  BY <1>2, DoneSo
<1>4. OpenRegular'
  BY <1>1, <1>3 DEF PromiseInv, OpenRegular
<1> QED
  BY <1>3, <1>4 DEF PromiseInv

LEMMA MountPromise ==
    ASSUME PromiseInv, NEW ro, Mount(ro)
    PROVE  Shapes(disk') /\ OpenRegular' /\ Contents!Next
<1>1. disk' = disk /\ fh' = fh /\ ret'.op = "mount"
  BY DEF Mount
<1>2. UNCHANGED <<[j \in File |-> disk.inode[j].kind], Texts>>
  BY <1>1, SameSo
<1>3. Contents!Nothing
  BY <1>1, <1>2 DEF Contents!Nothing
<1> QED
  BY <1>1, <1>3, RegularStay DEF PromiseInv, Contents!Next

LEMMA PromiseInit == Init => PromiseInv /\ Contents!Init
<1> SUFFICES ASSUME Init PROVE PromiseInv /\ Contents!Init
  OBVIOUS
<1>1. /\ disk.inode = [i \in File |-> NewInode("none", Zero)]
      /\ \A a \in Handle : fh[a] = NoHandle
      /\ ret = [op |-> "mount", rc |-> "ok", n |-> 0, data |-> <<>>, lost |-> 0, clean |-> TRUE]
  BY DEF Init
<1>2. PromiseInv
  BY <1>1, FilesInit, NewShape DEF PromiseInv, Shapes, OpenRegular
<1>3. [i \in File |-> disk.inode[i].kind] = [i \in File |-> "none"]
  BY <1>1 DEF NewInode
<1>4. Texts = [i \in File |-> <<>>]
  <2>1. \A i \in File : TextIn(disk, i) = <<>>
    BY <1>1, NoText DEF NewInode
  <2> QED
    BY <2>1, TextsSay
<1> QED
  BY <1>1, <1>2, <1>3, <1>4 DEF Contents!Init

LEMMA PromiseStep ==
    ASSUME Extents = FALSE, PromiseInv, [Next]_vars
    PROVE  PromiseInv' /\ [Contents!Next]_(Contents!vars)
<1>1. FilesInv'
  BY FilesStep DEF PromiseInv
<1>2. CASE UNCHANGED vars
  <2>1. disk' = disk /\ fh' = fh /\ ret' = ret
    BY <1>2 DEF vars
  <2>2. Shapes(disk') /\ OpenRegular'
    BY <2>1, RegularStay DEF PromiseInv
  <2>3. UNCHANGED <<[j \in File |-> disk.inode[j].kind], Texts>>
    BY <2>1, SameSo
  <2> QED
    BY <1>1, <2>1, <2>2, <2>3 DEF PromiseInv, Shapes, Contents!vars
<1>3. ASSUME NEW i \in File, NEW bad, Request(i, bad)
      PROVE  Shapes(disk') /\ OpenRegular' /\ Contents!Next
  <2>1. ASSUME NEW a \in Handle, Open(a, i, bad) \/ Create(a, i, bad)
        PROVE  Shapes(disk') /\ OpenRegular' /\ Contents!Next
    BY <2>1, PromiseInv, OpenPromise, CreatePromise
  <2>2. ASSUME NEW a \in Handle, NEW off \in Page, NEW len \in 1 .. MaxPages,
               Read(a, i, off, len, bad)
        PROVE  Shapes(disk') /\ OpenRegular' /\ Contents!Next
    BY <2>2, PromiseInv, ReadPromise
  <2>3. ASSUME NEW a \in Handle, NEW off \in Page, NEW len \in 1 .. MaxPages, NEW v \in Value,
               Write(a, i, off, len, v, bad)
        PROVE  Shapes(disk') /\ OpenRegular' /\ Contents!Next
    BY <2>3, PromiseInv, WritePromise
  <2>4. ASSUME NEW size \in 0 .. MaxPages, Truncate(i, size, bad)
        PROVE  Shapes(disk') /\ OpenRegular' /\ Contents!Next
    BY <2>4, PromiseInv, TruncatePromise
  <2>5. ASSUME NEW v \in Value, NEW long \in BOOLEAN, Symlink(i, v, long, bad)
        PROVE  Shapes(disk') /\ OpenRegular' /\ Contents!Next
    BY <2>5, PromiseInv, SymlinkPromise
  <2>6. ASSUME Readlink(i, bad) PROVE Shapes(disk') /\ OpenRegular' /\ Contents!Next
    BY <2>6, PromiseInv, ReadlinkPromise
  <2> QED
    BY <1>3, <2>1, <2>2, <2>3, <2>4, <2>5, <2>6 DEF Request
<1>4. CASE Next
  <2>1. ASSUME NEW i \in File, Unlink(i) PROVE Shapes(disk') /\ OpenRegular' /\ Contents!Next
    BY <2>1, PromiseInv, UnlinkPromise
  <2>2. ASSUME NEW a \in Handle, op_flush(a) \/ op_release(a)
        PROVE  Shapes(disk') /\ OpenRegular' /\ Contents!Next
    BY <2>2, PromiseInv, FlushPromise, ReleasePromise
  <2>3. ASSUME NEW ro \in BOOLEAN, Mount(ro)
        PROVE  Shapes(disk') /\ OpenRegular' /\ Contents!Next
    BY <2>3, PromiseInv, MountPromise
  <2>4. Shapes(disk') /\ OpenRegular' /\ Contents!Next
    BY <1>3, <1>4, <2>1, <2>2, <2>3 DEF Next
  <2> QED
    BY <1>1, <2>4 DEF PromiseInv, Shapes
<1> QED
  BY <1>2, <1>4

\* A read returns the last write, a write says how many of its pages are there,
\* a file has the length truncate or the last write gave it, a link keeps its
\* target, and a request that fails spoils its own pages at most: whichever of
\* the open files the requests come through, whatever was truncated, removed
\* and written to the same blocks since, and whichever calls fail together.
\* Without extents: with them readlink returns something else
\* (ReadlinkReturnsTarget).
THEOREM FilesAsPromised ==
    ASSUME Extents = FALSE
    PROVE  Spec => ImplementsPosixFile
<1>1. PromiseInv /\ [Next]_vars => PromiseInv' /\ [Contents!Next]_(Contents!vars)
  BY PromiseStep
<1> QED
  BY <1>1, PromiseInit, PTL DEF Spec, ImplementsPosixFile, Contents!Spec

-----------------------------------------------------------------------------
(* Requests none of whose calls fails *)

Serves ==
    ret'.clean =>
        \/ ret'.rc = "ok"
        \/ ret'.op = "symlink" /\ ret'.rc = "EIO" /\ FreeBlocks(disk) = {}

LEMMA ServesSo ==
    ASSUME NEW op, NEW r, NEW bad, Done(op, r, bad),
           bad = {} => r.rc = "ok" \/ (op = "symlink" /\ r.rc = "EIO" /\ FreeBlocks(disk) = {})
    PROVE  Serves
<1>1. ret'.clean = (bad = {}) /\ ret'.rc = r.rc /\ ret'.op = op
  BY DEF Done
<1> QED
  BY <1>1 DEF Serves

LEMMA OpenServes ==
    ASSUME NEW f, Good(f), NEW i \in File, f.inode[i].kind # "none", NEW ro, NEW bad, bad = {}
    PROVE  /\ do_open(f, i, ro, bad).h = ext2fs_file_open2(f, i)
           /\ do_open(f, i, ro, bad).h # NoHandle
<1>1. do_open(f, i, ro, bad).h = ext2fs_file_open2(f, i)
  BY OpenSays
<1>2. Current(f, ext2fs_file_open2(f, i))
  BY OpenCurrent DEF Good
<1> QED
  BY <1>1, <1>2, HandleAssumption DEF Current

LEMMA OpenedServes ==
    ASSUME NEW op, NEW a, NEW f, Good(f), NEW i \in File, f.inode[i].kind # "none", NEW rc,
           NEW bad, Opened(op, a, f, i, rc, bad)
    PROVE  Serves
<1> DEFINE o == do_open(f, i, readonly, bad)
           r == [Ret(f, IF o.h = NoHandle THEN rc ELSE "ok") EXCEPT !.lost = o.lost]
<1>1. Done(op, r, bad)
  BY DEF Opened
<1>2. bad = {} => o.h # NoHandle
  BY OpenServes
<1> HIDE DEF o
<1>3. bad = {} => r.rc = "ok"
  BY <1>2 DEF Ret
<1> HIDE DEF r
<1> QED
  BY <1>1, <1>3, ServesSo

LEMMA RequestServes ==
    ASSUME Extents = FALSE, PromiseInv, NEW i \in File, NEW bad, Request(i, bad)
    PROVE  Serves
<1>1. Good(disk) /\ disk \in Disk /\ Shapes(disk)
  BY DEF PromiseInv, FilesInv, Good
<1>2. ASSUME NEW a \in Handle, Open(a, i, bad) PROVE Serves
  BY <1>1, <1>2, OpenedServes DEF Open, Is
<1>3. ASSUME NEW a \in Handle, Create(a, i, bad) PROVE Serves
  <2> DEFINE made == [disk EXCEPT !.inode[i] = NewInode("reg", Zero)]
  <2>1. disk.inode[i].kind = "none" /\ Zero \in Datum
    BY <1>3 DEF Create, Is, Datum
  <2>2. Good(made) /\ made.inode[i].kind # "none"
    BY <1>1, <2>1, MadeGood DEF Leads
  <2>3. Opened("create", a, made, i, "EIO", bad)
    BY <1>3 DEF Create
  <2> HIDE DEF made
  <2> QED
    BY <2>2, <2>3, OpenedServes
<1>4. ASSUME NEW a \in Handle, NEW off \in Page, NEW len \in 1 .. MaxPages,
             Read(a, i, off, len, bad)
      PROVE  Serves
  <2> DEFINE r == op_read(disk, i, off, len, readonly, bad)
             o == do_open(disk, i, readonly, bad)
             c == do_release(disk, o.h, bad)
  <2>1. disk.inode[i].kind # "none" /\ Done("read", r, bad)
    BY <1>4 DEF Read, OpenOn, PromiseInv, OpenRegular
  <2>2. bad = {} => o.h # NoHandle
    BY <1>1, <2>1, OpenServes
  <2>3. c = Ret(c.fs, c.rc)
    BY ReleaseHonest
  <2>4. bad = {} => \E d : r = [c EXCEPT !.rc = "ok", !.data = d]
    BY <2>2 DEF op_read
  <2> HIDE DEF c, r
  <2>5. bad = {} => r.rc = "ok"
    BY <2>3, <2>4 DEF Ret
  <2> QED
    BY <2>1, <2>5, ServesSo
<1>5. ASSUME NEW a \in Handle, NEW off \in Page, NEW len \in 1 .. MaxPages, NEW v \in Value,
             Write(a, i, off, len, v, bad)
      PROVE  Serves
  <2> DEFINE r == op_write(disk, i, off, len, v, readonly, bad)
  <2>1. /\ off + len <= MaxPages /\ disk.inode[i].kind # "none"
        /\ Done("write", r, bad)
    BY <1>5 DEF Write, OpenOn, PromiseInv, OpenRegular
  <2>2. bad = {} => r.rc = "ok"
    BY <1>1, <2>1, WriteSays
  <2> HIDE DEF r
  <2> QED
    BY <2>1, <2>2, ServesSo
<1>6. ASSUME NEW size \in 0 .. MaxPages, Truncate(i, size, bad) PROVE Serves
  <2> DEFINE r == op_truncate(disk, i, size, readonly, bad)
             h == ext2fs_file_open2(disk, i)
             s == ext2fs_file_set_size2(disk, h, size)
  <2>1. disk.inode[i].kind # "none" /\ Done("truncate", r, bad)
    BY <1>6 DEF Truncate, Is
  <2>2. h.buf = <<>> /\ Current(disk, h)
    BY <1>1, OpenCurrent DEF ext2fs_file_open2
  <2>3. s.h.buf = <<>>
    BY <1>1, <2>2, SetSizeSays DEF Resized
  <2>4. bad = {} => r = do_release(s.fs, s.h, bad)
    BY <1>1, <2>1, OpenServes DEF op_truncate
  <2> HIDE DEF r, s
  <2>5. bad = {} => r = Ret(s.fs, "ok")
    BY <2>3, <2>4, CloseClean
  <2>6. bad = {} => r.rc = "ok"
    BY <2>5 DEF Ret
  <2> QED
    BY <2>1, <2>6, ServesSo
<1>7. ASSUME NEW v \in Value, NEW long \in BOOLEAN, Symlink(i, v, long, bad) PROVE Serves
  <2> DEFINE made == [disk EXCEPT !.inode[i] = NewInode("lnk", IF long THEN Zero ELSE v)]
             r == op_symlink(disk, i, v, long, readonly, bad)
             h == ext2fs_file_open2(made, i)
  <2>1. disk.inode[i].kind = "none" /\ Done("symlink", r, bad)
    BY <1>7 DEF Symlink, Is
  <2>2. (IF long THEN Zero ELSE v) \in Datum
    BY DEF Datum
  <2>3. Good(made)
    BY <1>1, <2>1, <2>2, MadeGood DEF Leads
  <2>4. /\ made.inode[i] = NewInode("lnk", IF long THEN Zero ELSE v)
        /\ \A j \in File \ {i} : made.inode[j] = disk.inode[j]
        /\ FreeBlocks(made) = FreeBlocks(disk)
    BY <1>1 DEF Disk, FreeBlocks
  <2>5. /\ ~ long => r = Ret(made, "ok")
        /\ long /\ bad = {} => r = CloseTarget(do_write(made, h, 0, 1, v, bad), bad)
    <3>1. made.inode[i].kind # "none"
      BY <2>4 DEF NewInode
    <3>2. bad = {} => do_open(made, i, readonly, bad).h = h /\ h # NoHandle
      BY <2>3, <3>1, OpenServes
    <3> QED
      BY <3>2 DEF op_symlink
  <2> HIDE DEF made
  <2>6. Shapes(made)
    BY <1>1, <2>4, NewShape DEF Shapes
  <2> HIDE DEF r
  <2>7. ~ long => r.rc = "ok"
    BY <2>5 DEF Ret
  <2>8. long /\ bad = {} => r.rc = "ok" \/ (r.rc = "EIO" /\ FreeBlocks(disk) = {})
    <3> SUFFICES ASSUME long, bad = {}
                 PROVE  r.rc = "ok" \/ (r.rc = "EIO" /\ FreeBlocks(disk) = {})
      OBVIOUS
    <3>1. made.inode[i] = NewInode("lnk", Zero)
      BY <2>4
    <3>2. r.rc \in {"ok", "EIO"} /\ (r.rc # "ok" => FreeBlocks(made) = {})
      BY <2>3, <2>5, <2>6, <3>1, TargetSays
    <3> QED
      BY <2>4, <3>2
  <2> QED
    BY <2>1, <2>7, <2>8, ServesSo
<1>8. ASSUME Readlink(i, bad) PROVE Serves
  <2> DEFINE r == op_readlink(disk, i, bad)
             t == disk.inode[i]
  <2>1. t.kind = "lnk" /\ Done("readlink", r, bad)
    BY <1>8 DEF Readlink, Is
  <2>2. 0 \in Page /\ Page \subseteq Nat
    BY BoundAssumption DEF Page
  <2>3. Blocks(t) # {} => t.map[0] \in Block
    <3> SUFFICES ASSUME Blocks(t) # {} PROVE t.map[0] \in Block
      OBVIOUS
    <3>1. /\ t.size \in {0, 1} /\ (t.size = 1 => t.map[0] # NoBlock)
          /\ \A p \in Page : t.size <= p => t.map[p] = NoBlock
      BY <1>1, <2>1 DEF Shapes, LinkShape, Tight
    <3>2. t.map[0] \in Block \cup {NoBlock}
      BY <1>1, <2>2 DEF Disk, Inode
    <3> HIDE DEF t
    <3>3. t.size # 0
      BY <2>2, <3>1 DEF Blocks
    <3> QED
      BY <3>1, <3>2, <3>3
  <2>4. bad = {} => r.rc = "ok"
    BY <2>3 DEF op_readlink, Ret
  <2> HIDE DEF r
  <2> QED
    BY <2>1, <2>4, ServesSo
<1> QED
  BY <1>2, <1>3, <1>4, <1>5, <1>6, <1>7, <1>8 DEF Request

LEMMA ServesStep ==
    ASSUME Extents = FALSE, PromiseInv, [Next]_vars
    PROVE  [Serves]_vars
<1>1. ASSUME NEW i \in File, Unlink(i) PROVE ret'.rc = "ok"
  BY <1>1 DEF Unlink, Done, op_unlink, Ret
<1>2. ASSUME NEW ro, Mount(ro) PROVE ret'.rc = "ok"
  BY <1>2 DEF Mount
<1> QED
  BY <1>1, <1>2, RequestServes, FlushPromise, ReleasePromise DEF Next, Serves

\* While no call of the library fails, no handler does, but for the link whose
\* target finds no room, whatever is open, however full the disk is, and in
\* every order of requests.  Without extents: with them a readlink may fail.
THEOREM CleanRequestsServed ==
    ASSUME Extents = FALSE
    PROVE  Spec => CleanServes
<1>1. PromiseInv /\ [Next]_vars => PromiseInv' /\ [Serves]_vars
  BY PromiseStep, ServesStep
<1> QED
  BY <1>1, PromiseInit, PTL DEF Spec, CleanServes, Serves
=============================================================================
