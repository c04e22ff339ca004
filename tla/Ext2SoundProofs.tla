-------------------------- MODULE Ext2SoundProofs --------------------------
(***************************************************************************)
(* Sound is an invariant of the daemon when only the safe call sites fail. *)
(*                                                                         *)
(* Sound alone is not kept by the steps a handler is made of: between      *)
(* ext2fs_link and the write of the inode a file has one name more than    *)
(* its count allows.  Good(f, e) is the strengthening: sound, but for one  *)
(* name too many of inode e, and no directory with two entries of a name.  *)
(***************************************************************************)
EXTENDS Ext2TypeProofs, FiniteSetTheorems

\* The names inode i may have.
Cap(f, i) ==
    IF i \notin Live(f) \/ i = Root THEN 0
    ELSE IF IsDir(f, i) THEN 1 ELSE f.inode[i].links

Disjoint(f) ==
    \A i \in Live(f) :
        /\ f.inode[i].blk \subseteq f.bmap
        /\ \A j \in Live(f) : i # j => f.inode[i].blk \cap f.inode[j].blk = {}

\* No directory has an entry twice.
Once(f) == \A d \in Dirs(f), n \in Name : \A b, c \in Holding(f, d, n) : b = c

\* No directory of g has an entry that it does not have in f.
FewerEntries(f, g) ==
    \A d \in Dirs(g), n \in Name :
        \/ Holding(g, d, n) = {}
        \/ d \in Dirs(f) /\ Holding(g, d, n) \subseteq Holding(f, d, n)

Good(f, e) ==
    /\ f \in FileSystem
    /\ Root \in Dirs(f)
    /\ Disjoint(f)
    /\ Once(f)
    /\ \A b \in DirBlocks(f), n \in Name : f.data[b][n] \in Live(f) \cup {NoIno, e}
    /\ \A i \in Ino :
        Cardinality(Refs(f, i)) <= Cap(f, i) + (IF i = e THEN 1 ELSE 0)
    /\ FreeUnlinked(f)

\* Directory d has an entry n that leads to i.
Holds(f, d, n, i) ==
    /\ d \in Dirs(f)
    /\ \E b \in f.inode[d].blk : f.data[b][n] = i

FiniteNames == IsFiniteSet(Block) /\ IsFiniteSet(Name)

-----------------------------------------------------------------------------
(* Names of an inode *)

LEMMA BlocksTyped ==
    ASSUME NEW f \in FileSystem
    PROVE  /\ DirBlocks(f) \subseteq Block
           /\ \A d \in Ino : f.inode[d].blk \subseteq Block
           /\ Dirs(f) \subseteq Live(f)
           /\ Live(f) \subseteq Ino
  BY DEF DirBlocks, Dirs, Live, FileSystem, Inode

LEMMA OnceKept ==
    ASSUME NEW f, NEW g, Once(f), FewerEntries(f, g)
    PROVE  Once(g)
  BY DEF Once, FewerEntries

\* A name that a lookup does not find is nowhere in the directory.
LEMMA Absent ==
    ASSUME NEW f, NEW d, NEW n, ext2fs_namei(f, d, n) = NoIno
    PROVE  Holding(f, d, n) = {}
<1> DEFINE b == CHOOSE c \in Holding(f, d, n) : TRUE
<1> SUFFICES ASSUME Holding(f, d, n) # {} PROVE FALSE
  OBVIOUS
<1>1. b \in Holding(f, d, n)
  OBVIOUS
<1>2. ext2fs_namei(f, d, n) = f.data[b][n]
  BY DEF ext2fs_namei
<1> HIDE DEF b
<1> QED
  BY <1>1, <1>2 DEF Holding

LEMMA RefsFinite ==
    ASSUME FiniteNames, NEW f \in FileSystem, NEW i
    PROVE  IsFiniteSet(Refs(f, i)) /\ Cardinality(Refs(f, i)) \in Nat
<1>1. IsFiniteSet(Block \X Name)
  BY FS_Product DEF FiniteNames
<1>2. Refs(f, i) \in SUBSET (Block \X Name)
  BY BlocksTyped DEF Refs
<1> QED
  BY <1>1, <1>2, FS_Subset, FS_CardinalityType

LEMMA FewerRefs ==
    ASSUME FiniteNames, NEW f \in FileSystem, NEW g \in FileSystem, NEW i,
           Refs(g, i) \subseteq Refs(f, i)
    PROVE  Cardinality(Refs(g, i)) <= Cardinality(Refs(f, i))
  BY RefsFinite, FS_Subset

LEMMA NoRefs ==
    ASSUME FiniteNames, NEW f \in FileSystem, NEW i
    PROVE  Cardinality(Refs(f, i)) = 0 <=> Refs(f, i) = {}
  BY RefsFinite, FS_EmptySet

\* Fewer directory blocks with what they held, and maybe blocks without an
\* entry: nobody has a new name.
LEMMA RefsShrink ==
    ASSUME NEW f, NEW g, NEW i \in Ino,
           \A b \in DirBlocks(g), n \in Name :
               \/ g.data[b][n] = NoIno
               \/ b \in DirBlocks(f) /\ g.data[b][n] = f.data[b][n]
    PROVE  Refs(g, i) \subseteq Refs(f, i)
  BY RootAssumption DEF Refs

LEMMA SetEntryFields ==
    ASSUME NEW f \in FileSystem, NEW b \in Block, NEW n \in Name,
           NEW i \in Ino \cup {NoIno}
    PROVE  LET g == SetEntry(f, b, n, i) IN
           /\ g.inode = f.inode /\ g.imap = f.imap /\ g.bmap = f.bmap
           /\ Live(g) = Live(f) /\ Dirs(g) = Dirs(f) /\ DirBlocks(g) = DirBlocks(f)
           /\ g.data[b][n] = i
           /\ \A c \in Block, m \in Name :
                <<c, m>> # <<b, n>> => g.data[c][m] = f.data[c][m]
<1> DEFINE g == SetEntry(f, b, n, i)
<1>1. g.inode = f.inode /\ g.imap = f.imap /\ g.bmap = f.bmap
  BY DEF SetEntry, FileSystem
<1>2. g.data = [f.data EXCEPT ![b][n] = i]
  BY DEF SetEntry, FileSystem
<1>3. f.data \in [Block -> [Name -> Ino \cup {NoIno}]]
  BY DEF FileSystem
<1> HIDE DEF g
<1>4. g.data[b][n] = i
  BY <1>2, <1>3
<1>5. \A c \in Block, m \in Name :
        <<c, m>> # <<b, n>> => g.data[c][m] = f.data[c][m]
  BY <1>2, <1>3
<1>6. Live(g) = Live(f)
  BY <1>1 DEF Live
<1>7. Dirs(g) = Dirs(f)
  BY <1>1, <1>6 DEF Dirs
<1>8. DirBlocks(g) = DirBlocks(f)
  BY <1>1, <1>7 DEF DirBlocks
<1> QED
  BY <1>1, <1>4, <1>5, <1>6, <1>7, <1>8 DEF g

\* An entry written to a free slot is one name more for its inode.
LEMMA AddRef ==
    ASSUME FiniteNames, NEW f \in FileSystem, NEW b \in DirBlocks(f), NEW n \in Name,
           NEW i \in Ino, f.data[b][n] = NoIno
    PROVE  LET g == SetEntry(f, b, n, i) IN
           /\ Refs(g, i) = Refs(f, i) \cup {<<b, n>>}
           /\ Cardinality(Refs(g, i)) = Cardinality(Refs(f, i)) + 1
           /\ \A j \in Ino : j # i => Refs(g, j) = Refs(f, j)
<1> DEFINE g == SetEntry(f, b, n, i)
<1>0. b \in Block
  BY BlocksTyped
<1>1. /\ DirBlocks(g) = DirBlocks(f) /\ g.data[b][n] = i
      /\ \A c \in Block, m \in Name :
           <<c, m>> # <<b, n>> => g.data[c][m] = f.data[c][m]
  BY <1>0, SetEntryFields
<1>2. DirBlocks(f) \subseteq Block
  BY BlocksTyped
<1> HIDE DEF g
<1>3. Refs(g, i) = Refs(f, i) \cup {<<b, n>>}
  BY <1>1, <1>2 DEF Refs
<1>4. \A j \in Ino : j # i => Refs(g, j) = Refs(f, j)
  <2> SUFFICES ASSUME NEW j \in Ino, j # i PROVE Refs(g, j) = Refs(f, j)
    OBVIOUS
  <2>1. \A s \in DirBlocks(f) \X Name : g.data[s[1]][s[2]] = j <=> f.data[s[1]][s[2]] = j
    BY <1>1, <1>2, RootAssumption
  <2> QED
    BY <1>1, <2>1 DEF Refs
<1>5. <<b, n>> \notin Refs(f, i)
  BY RootAssumption DEF Refs
<1>6. Cardinality(Refs(g, i)) = Cardinality(Refs(f, i)) + 1
  BY <1>3, <1>5, RefsFinite, FS_AddElement
<1> QED
  BY <1>3, <1>4, <1>6 DEF g

\* An entry cleared is one name less.
LEMMA CutRef ==
    ASSUME FiniteNames, NEW f \in FileSystem, NEW b \in DirBlocks(f), NEW n \in Name,
           NEW i \in Ino, f.data[b][n] = i
    PROVE  LET g == SetEntry(f, b, n, NoIno) IN
           /\ Cardinality(Refs(g, i)) = Cardinality(Refs(f, i)) - 1
           /\ \A j \in Ino : Refs(g, j) \subseteq Refs(f, j)
<1> DEFINE g == SetEntry(f, b, n, NoIno)
<1>0. b \in Block
  BY BlocksTyped
<1>1. /\ DirBlocks(g) = DirBlocks(f) /\ g.data[b][n] = NoIno
      /\ \A c \in Block, m \in Name :
           <<c, m>> # <<b, n>> => g.data[c][m] = f.data[c][m]
  BY <1>0, SetEntryFields
<1>2. DirBlocks(f) \subseteq Block
  BY BlocksTyped
<1> HIDE DEF g
<1>3. Refs(g, i) = Refs(f, i) \ {<<b, n>>}
  BY <1>1, <1>2, RootAssumption DEF Refs
<1>4. \A j \in Ino : Refs(g, j) \subseteq Refs(f, j)
  BY <1>1, <1>2, RootAssumption DEF Refs
<1>5. <<b, n>> \in Refs(f, i)
  BY DEF Refs
<1>6. IsFiniteSet(Refs(f, i))
  BY RefsFinite
<1>7. Cardinality(Refs(f, i) \ {<<b, n>>}) = Cardinality(Refs(f, i)) - 1
  BY <1>5, <1>6, FS_RemoveElement
<1> QED
  BY <1>3, <1>4, <1>7 DEF g

-----------------------------------------------------------------------------
(* The library's writes *)

LEMMA GoodTyped ==
    ASSUME NEW f, NEW e, Good(f, e)
    PROVE  f \in FileSystem
  BY DEF Good

\* An inode with no more names than its count allows is no exception.
LEMMA Settle ==
    ASSUME NEW f, NEW e \in Live(f), Good(f, e),
           Cardinality(Refs(f, e)) <= Cap(f, e)
    PROVE  Good(f, NoIno)
<1>1. \A i \in Ino : i # NoIno
  BY RootAssumption
<1>2. \A i \in Ino :
        Cardinality(Refs(f, i)) <= Cap(f, i) + (IF i = NoIno THEN 1 ELSE 0)
  <2> SUFFICES ASSUME NEW i \in Ino
               PROVE  Cardinality(Refs(f, i)) <= Cap(f, i) + (IF i = NoIno THEN 1 ELSE 0)
    OBVIOUS
  <2>1. Cap(f, i) \in Nat
    BY WidthAssumption DEF Good, Cap, FileSystem, Inode
  <2> QED
    BY <1>1, <2>1 DEF Good
<1> QED
  BY <1>2 DEF Good

LEMMA HoldsRef ==
    ASSUME NEW f, NEW d, NEW n \in Name, NEW i, Holds(f, d, n, i)
    PROVE  Refs(f, i) # {}
<1>1. PICK b \in f.inode[d].blk : f.data[b][n] = i
  BY DEF Holds
<1>2. b \in DirBlocks(f)
  BY <1>1 DEF Holds, DirBlocks
<1>3. <<b, n>> \in Refs(f, i)
  BY <1>1, <1>2 DEF Refs
<1> QED
  BY <1>3

LEMMA LookupHolds ==
    ASSUME FiniteNames, NEW f, Good(f, NoIno), NEW d \in Dirs(f), NEW n \in Name,
           ext2fs_namei(f, d, n) # NoIno
    PROVE  LET i == ext2fs_namei(f, d, n) IN
           Holds(f, d, n, i) /\ i \in Live(f) /\ i # Root /\ i \in Ino
<1> DEFINE b == CHOOSE c \in Holding(f, d, n) : TRUE
           i == ext2fs_namei(f, d, n)
<1>0. f \in FileSystem
  BY DEF Good
<1>1. b \in f.inode[d].blk /\ i = f.data[b][n]
  BY DEF ext2fs_namei, Holding
<1> HIDE DEF b, i
<1>2. b \in DirBlocks(f)
  BY <1>1 DEF DirBlocks
<1>3. i \in Live(f)
  BY <1>1, <1>2 DEF Good, i
<1>4. i \in Ino
  BY <1>0, <1>3, BlocksTyped
<1>5. i # Root
  <2> SUFFICES ASSUME i = Root PROVE FALSE
    OBVIOUS
  <2>1. <<b, n>> \in Refs(f, i)
    BY <1>1, <1>2 DEF Refs
  <2>2. Cardinality(Refs(f, i)) <= 0
    BY <1>4, RootAssumption DEF Good, Cap
  <2>3. Cardinality(Refs(f, i)) = 0
    BY <1>0, <2>2, RefsFinite
  <2> QED
    BY <1>0, <2>1, <2>3, NoRefs
<1>6. Holds(f, d, n, i)
  BY <1>1 DEF Holds
<1> QED
  BY <1>3, <1>4, <1>5, <1>6 DEF i

\* ext2fs_link: one name more, nothing else.
LEMMA LinkGood ==
    ASSUME FiniteNames, NEW f, Good(f, NoIno), NEW d \in Dirs(f), NEW n \in Name,
           NEW i \in Ino, Room(f, d, n) # {}, Holding(f, d, n) = {}
    PROVE  LET g == ext2fs_link(f, d, n, i) IN
           /\ Good(g, i)
           /\ g.inode = f.inode /\ g.imap = f.imap /\ g.bmap = f.bmap
           /\ Live(g) = Live(f) /\ Dirs(g) = Dirs(f)
           /\ Cardinality(Refs(g, i)) = Cardinality(Refs(f, i)) + 1
           /\ \A c \in Dirs(f), m \in Name, j \in Ino :
                Holds(f, c, m, j) => Holds(g, c, m, j)
           /\ Holds(g, d, n, i)
<1> DEFINE b == CHOOSE c \in Room(f, d, n) : TRUE
           g == SetEntry(f, b, n, i)
<1>0. f \in FileSystem
  BY DEF Good
<1>1. b \in f.inode[d].blk /\ f.data[b][n] = NoIno
  BY DEF Room
<1> HIDE DEF b
<1>2. b \in DirBlocks(f) /\ b \in Block
  BY <1>0, <1>1, BlocksTyped DEF DirBlocks
<1>3. /\ g.inode = f.inode /\ g.imap = f.imap /\ g.bmap = f.bmap
      /\ Live(g) = Live(f) /\ Dirs(g) = Dirs(f) /\ DirBlocks(g) = DirBlocks(f)
      /\ g.data[b][n] = i
      /\ \A c \in Block, m \in Name :
           <<c, m>> # <<b, n>> => g.data[c][m] = f.data[c][m]
  BY <1>0, <1>2, SetEntryFields
<1>4. /\ Cardinality(Refs(g, i)) = Cardinality(Refs(f, i)) + 1
      /\ \A j \in Ino : j # i => Refs(g, j) = Refs(f, j)
  BY <1>0, <1>1, <1>2, AddRef
<1>5. g \in FileSystem
  BY <1>0, SetEntryTyped
<1> HIDE DEF g
<1>6. Good(g, i)
  <2>1. Root \in Dirs(g) /\ Disjoint(g)
    BY <1>3 DEF Good, Disjoint
  <2>2. \A c \in DirBlocks(g), m \in Name : g.data[c][m] \in Live(g) \cup {NoIno, i}
    <3> SUFFICES ASSUME NEW c \in DirBlocks(f), NEW m \in Name
                 PROVE  g.data[c][m] \in Live(g) \cup {NoIno, i}
      BY <1>3
    <3>1. c \in Block
      BY <1>0, BlocksTyped
    <3>2. CASE c = b /\ m = n
      BY <1>3, <3>2
    <3>3. CASE ~ (c = b /\ m = n)
      <4>1. g.data[c][m] = f.data[c][m]
        BY <1>3, <3>1, <3>3
      <4> QED
        BY <1>3, <4>1 DEF Good
    <3> QED
      BY <3>2, <3>3
  <2>3. \A j \in Ino : Cap(g, j) = Cap(f, j) /\ Cap(f, j) \in Nat
    BY <1>0, <1>3, WidthAssumption DEF Cap, IsDir, FileSystem, Inode
  <2>4. ASSUME NEW j \in Ino
        PROVE  Cardinality(Refs(g, j)) <= Cap(g, j) + (IF j = i THEN 1 ELSE 0)
    <3>1. Cardinality(Refs(f, j)) <= Cap(f, j) + (IF j = NoIno THEN 1 ELSE 0)
      BY DEF Good
    <3>2. Cardinality(Refs(f, j)) <= Cap(f, j)
      BY <2>3, <3>1, RootAssumption
    <3>3. Cardinality(Refs(f, j)) \in Nat
      BY <1>0, RefsFinite
    <3> QED
      BY <1>4, <2>3, <3>2, <3>3
  <2>5. Once(g)
    <3> SUFFICES ASSUME NEW c \in Dirs(f), NEW m \in Name,
                        NEW x \in Holding(g, c, m), NEW y \in Holding(g, c, m)
                 PROVE  x = y
      BY <1>3 DEF Once
    <3>1. /\ x \in f.inode[c].blk /\ x \in Block /\ g.data[x][m] # NoIno
          /\ y \in f.inode[c].blk /\ y \in Block /\ g.data[y][m] # NoIno
      BY <1>0, <1>3, BlocksTyped DEF Holding
    <3>2. CASE m = n /\ c = d
      <4>1. \A z \in f.inode[d].blk : z \in Block /\ z # b => g.data[z][n] = NoIno
        BY <1>3 DEF Holding
      <4> QED
        BY <3>1, <3>2, <4>1
    <3>3. CASE m # n \/ c # d
      <4>1. m # n \/ b \notin f.inode[c].blk
        <5>1. c # d => f.inode[c].blk \cap f.inode[d].blk = {}
          BY <1>0, BlocksTyped DEF Good, Disjoint
        <5> QED
          BY <1>1, <3>3, <5>1
      <4>2. x \in Holding(f, c, m) /\ y \in Holding(f, c, m)
        BY <1>3, <3>1, <4>1 DEF Holding
      <4> QED
        BY <4>2 DEF Good, Once
    <3> QED
      BY <3>2, <3>3
  <2>6. FreeUnlinked(g)
    BY <1>3 DEF Good, FreeUnlinked
  <2> QED
    BY <1>5, <2>1, <2>2, <2>4, <2>5, <2>6 DEF Good
<1>7. \A c \in Dirs(f), m \in Name, j \in Ino : Holds(f, c, m, j) => Holds(g, c, m, j)
  <2> SUFFICES ASSUME NEW c \in Dirs(f), NEW m \in Name, NEW j \in Ino,
                      Holds(f, c, m, j)
               PROVE  Holds(g, c, m, j)
    OBVIOUS
  <2>1. PICK a \in f.inode[c].blk : f.data[a][m] = j
    BY DEF Holds
  <2>2. a \in Block
    BY <1>0, <2>1, BlocksTyped
  <2>3. <<a, m>> # <<b, n>>
    BY <1>1, <2>1, RootAssumption
  <2>4. g.data[a][m] = j
    BY <1>3, <2>1, <2>2, <2>3
  <2> QED
    BY <1>3, <2>1, <2>4 DEF Holds
<1>8. Holds(g, d, n, i)
  BY <1>1, <1>3 DEF Holds
<1> QED
  BY <1>3, <1>4, <1>6, <1>7, <1>8 DEF ext2fs_link, g, b

\* ext2fs_unlink: one name less, and with it the exception for its inode.
LEMMA UnlinkGood ==
    ASSUME FiniteNames, NEW f, NEW e, Good(f, e), NEW d, NEW n \in Name,
           NEW i \in Live(f), e \in {i, NoIno}, Holds(f, d, n, i)
    PROVE  LET g == ext2fs_unlink(f, d, n, i) IN
           /\ Good(g, NoIno)
           /\ g.inode = f.inode /\ g.imap = f.imap /\ g.bmap = f.bmap
           /\ Live(g) = Live(f) /\ Dirs(g) = Dirs(f)
           /\ Cardinality(Refs(g, i)) = Cardinality(Refs(f, i)) - 1
           /\ \A c \in Dirs(f), m \in Name, j \in Ino :
                j # i /\ Holds(f, c, m, j) => Holds(g, c, m, j)
           /\ \A c \in Dirs(f), m \in Name, j \in Ino :
                (c # d \/ m # n) /\ Holds(f, c, m, j) => Holds(g, c, m, j)
           /\ Holding(g, d, n) = {}
<1> DEFINE b == CHOOSE c \in Holding(f, d, n) : f.data[c][n] = i
           g == SetEntry(f, b, n, NoIno)
<1>0. f \in FileSystem /\ i \in Ino
  BY BlocksTyped DEF Good
<1>1. b \in f.inode[d].blk /\ f.data[b][n] = i /\ d \in Dirs(f)
  <2>1. \E c \in Holding(f, d, n) : f.data[c][n] = i
    BY <1>0, RootAssumption DEF Holds, Holding
  <2> QED
    BY <2>1 DEF Holds, Holding
<1> HIDE DEF b
<1>2. b \in DirBlocks(f) /\ b \in Block
  BY <1>0, <1>1, BlocksTyped DEF DirBlocks
<1>3. /\ g.inode = f.inode /\ g.imap = f.imap /\ g.bmap = f.bmap
      /\ Live(g) = Live(f) /\ Dirs(g) = Dirs(f) /\ DirBlocks(g) = DirBlocks(f)
      /\ g.data[b][n] = NoIno
      /\ \A c \in Block, m \in Name :
           <<c, m>> # <<b, n>> => g.data[c][m] = f.data[c][m]
  BY <1>0, <1>2, SetEntryFields
<1>4. /\ Cardinality(Refs(g, i)) = Cardinality(Refs(f, i)) - 1
      /\ \A j \in Ino : Refs(g, j) \subseteq Refs(f, j)
  BY <1>0, <1>1, <1>2, CutRef
<1>5. g \in FileSystem
  BY <1>0, SetEntryTyped
<1> HIDE DEF g
<1>6. FewerEntries(f, g)
  <2> SUFFICES ASSUME NEW c \in Dirs(f), NEW m \in Name, NEW x \in Holding(g, c, m)
               PROVE  x \in Holding(f, c, m)
    BY <1>3 DEF FewerEntries
  <2>1. x \in f.inode[c].blk /\ x \in Block /\ g.data[x][m] # NoIno
    BY <1>0, <1>3, BlocksTyped DEF Holding
  <2> QED
    BY <1>3, <2>1 DEF Holding
<1>7. Holding(g, d, n) = {}
  <2> SUFFICES ASSUME NEW x \in Holding(g, d, n) PROVE FALSE
    OBVIOUS
  <2>1. x \in Holding(f, d, n) /\ g.data[x][n] # NoIno
    BY <1>1, <1>3, <1>6 DEF FewerEntries, Holding
  <2>2. b \in Holding(f, d, n)
    BY <1>0, <1>1, RootAssumption DEF Holding
  <2>3. x = b
    BY <1>1, <2>1, <2>2 DEF Good, Once
  <2> QED
    BY <1>3, <2>1, <2>3
<1>8. Good(g, NoIno)
  <2>1. Root \in Dirs(g) /\ Disjoint(g)
    BY <1>3 DEF Good, Disjoint
  <2>2. \A c \in DirBlocks(g), m \in Name : g.data[c][m] \in Live(g) \cup {NoIno, NoIno}
    <3> SUFFICES ASSUME NEW c \in DirBlocks(f), NEW m \in Name
                 PROVE  g.data[c][m] \in Live(g) \cup {NoIno}
      BY <1>3
    <3>1. c \in Block
      BY <1>0, BlocksTyped
    <3>2. CASE c = b /\ m = n
      BY <1>3, <3>2
    <3>3. CASE ~ (c = b /\ m = n)
      <4>1. g.data[c][m] = f.data[c][m]
        BY <1>3, <3>1, <3>3
      <4> QED
        BY <1>3, <4>1 DEF Good
    <3> QED
      BY <3>2, <3>3
  <2>3. \A j \in Ino : Cap(g, j) = Cap(f, j) /\ Cap(f, j) \in Nat
    BY <1>0, <1>3, WidthAssumption DEF Cap, IsDir, FileSystem, Inode
  <2>4. ASSUME NEW j \in Ino
        PROVE  Cardinality(Refs(g, j)) <= Cap(g, j) + (IF j = NoIno THEN 1 ELSE 0)
    <3>1. Cardinality(Refs(f, j)) <= Cap(f, j) + (IF j = e THEN 1 ELSE 0)
      BY DEF Good
    <3>2. Cardinality(Refs(f, j)) \in Nat /\ Cardinality(Refs(g, j)) \in Nat
      BY <1>0, <1>5, RefsFinite
    <3>3. Cardinality(Refs(g, j)) <= Cardinality(Refs(f, j))
      BY <1>0, <1>4, <1>5, FewerRefs
    <3> QED
      BY <1>4, <2>3, <3>1, <3>2, <3>3, RootAssumption
  <2>5. Once(g)
    BY <1>6, OnceKept DEF Good
  <2>6. FreeUnlinked(g)
    BY <1>3 DEF Good, FreeUnlinked
  <2> QED
    BY <1>5, <2>1, <2>2, <2>4, <2>5, <2>6 DEF Good
<1>9. \A c \in Dirs(f), m \in Name, j \in Ino :
        (j # i \/ c # d \/ m # n) /\ Holds(f, c, m, j) => Holds(g, c, m, j)
  <2> SUFFICES ASSUME NEW c \in Dirs(f), NEW m \in Name, NEW j \in Ino,
                      j # i \/ c # d \/ m # n, Holds(f, c, m, j)
               PROVE  Holds(g, c, m, j)
    OBVIOUS
  <2>1. PICK a \in f.inode[c].blk : f.data[a][m] = j
    BY DEF Holds
  <2>2. a \in Block
    BY <1>0, <2>1, BlocksTyped
  <2>3. <<a, m>> # <<b, n>>
    <3>1. c # d => f.inode[c].blk \cap f.inode[d].blk = {}
      BY <1>0, <1>1, BlocksTyped DEF Good, Disjoint
    <3> QED
      BY <1>1, <2>1, <3>1
  <2>4. g.data[a][m] = j
    BY <1>3, <2>1, <2>2, <2>3
  <2> QED
    BY <1>3, <2>1, <2>4 DEF Holds
<1> QED
  BY <1>3, <1>4, <1>7, <1>8, <1>9 DEF ext2fs_unlink, g, b

LEMMA ExpandFields ==
    ASSUME NEW f \in FileSystem, NEW d \in Live(f), FreeBlocks(f) # {}
    PROVE  LET g == ext2fs_expand_dir(f, d)
               b == ext2fs_new_block(f)
           IN
           /\ g.imap = f.imap /\ g.bmap = f.bmap \cup {b}
           /\ \A j \in Ino : /\ g.inode[j].kind = f.inode[j].kind
                             /\ g.inode[j].links = f.inode[j].links
                             /\ j # d => g.inode[j] = f.inode[j]
           /\ g.inode[d].blk = f.inode[d].blk \cup {b}
           /\ \A n \in Name : g.data[b][n] = NoIno
           /\ \A c \in Block : c # b => g.data[c] = f.data[c]
<1> DEFINE b == ext2fs_new_block(f)
           g == ext2fs_expand_dir(f, d)
<1>1. b \in Block
  BY NewBlockTyped
<1>2. d \in Ino
  BY BlocksTyped
<1>3. g = [f EXCEPT !.inode[d].blk = @ \cup {b},
                    !.data[b]      = [n \in Name |-> NoIno],
                    !.bmap         = @ \cup {b}]
  BY DEF ext2fs_expand_dir
<1> HIDE DEF b, g
<1>4. /\ g.imap = f.imap /\ g.bmap = f.bmap \cup {b}
      /\ g.inode = [f.inode EXCEPT ![d].blk = @ \cup {b}]
      /\ g.data = [f.data EXCEPT ![b] = [n \in Name |-> NoIno]]
  BY <1>3 DEF FileSystem
<1>5. /\ f.inode \in [Ino -> Inode]
      /\ f.data \in [Block -> [Name -> Ino \cup {NoIno}]]
  BY DEF FileSystem
<1>6. g.inode[d] = [f.inode[d] EXCEPT !.blk = @ \cup {b}]
  BY <1>2, <1>4, <1>5
<1>7. f.inode[d] \in Inode
  BY <1>2, <1>5
<1>8. /\ g.inode[d].kind = f.inode[d].kind /\ g.inode[d].links = f.inode[d].links
      /\ g.inode[d].blk = f.inode[d].blk \cup {b}
  BY <1>6, <1>7 DEF Inode
<1>9. \A j \in Ino : j # d => g.inode[j] = f.inode[j]
  BY <1>4, <1>5
<1> QED
  BY <1>1, <1>4, <1>5, <1>8, <1>9 DEF b, g

\* ext2fs_expand_dir, and ext2fs_file_write beyond the end: a block that
\* nobody has, and no name more or less.
LEMMA ExpandGood ==
    ASSUME FiniteNames, NEW f, NEW e, Good(f, e), NEW d \in Live(f),
           FreeBlocks(f) # {}
    PROVE  LET g == ext2fs_expand_dir(f, d) IN
           /\ Good(g, e)
           /\ g.imap = f.imap
           /\ Live(g) = Live(f) /\ Dirs(g) = Dirs(f)
           /\ \A j \in Ino : /\ g.inode[j].kind = f.inode[j].kind
                             /\ g.inode[j].links = f.inode[j].links
                             /\ f.inode[j].blk \subseteq g.inode[j].blk
                             /\ j # d => g.inode[j] = f.inode[j]
                             /\ Refs(g, j) \subseteq Refs(f, j)
           /\ \A c \in Dirs(f), m \in Name, j \in Ino :
                Holds(f, c, m, j) => Holds(g, c, m, j)
           /\ \A n \in Name : d \in Dirs(f) => Room(g, d, n) # {}
           /\ FewerEntries(f, g)
<1> DEFINE b == ext2fs_new_block(f)
           g == ext2fs_expand_dir(f, d)
<1>0. f \in FileSystem /\ d \in Ino
  BY BlocksTyped DEF Good
<1>1. b \in Block /\ b \notin f.bmap
  BY <1>0, NewBlockTyped
<1>2. g \in FileSystem
  BY <1>0, ExpandTyped
<1>3. /\ g.imap = f.imap /\ g.bmap = f.bmap \cup {b}
      /\ \A j \in Ino : /\ g.inode[j].kind = f.inode[j].kind
                        /\ g.inode[j].links = f.inode[j].links
                        /\ j # d => g.inode[j] = f.inode[j]
      /\ g.inode[d].blk = f.inode[d].blk \cup {b}
      /\ \A n \in Name : g.data[b][n] = NoIno
      /\ \A c \in Block : c # b => g.data[c] = f.data[c]
  BY <1>0, ExpandFields
<1> HIDE DEF b, g
<1>4. Live(g) = Live(f)
  BY <1>0, <1>3 DEF Live, FileSystem
<1>5. Dirs(g) = Dirs(f)
  BY <1>0, <1>3, <1>4, BlocksTyped DEF Dirs
<1>6. \A c \in DirBlocks(f) : c \in Block /\ c # b
  BY <1>0, <1>1, BlocksTyped DEF Good, Disjoint, DirBlocks
<1>7. \A c \in DirBlocks(g) : c = b \/ c \in DirBlocks(f)
  <2> SUFFICES ASSUME NEW k \in Dirs(f), NEW c \in g.inode[k].blk
               PROVE  c = b \/ c \in DirBlocks(f)
    BY <1>5 DEF DirBlocks
  <2>1. k \in Ino
    BY <1>0, BlocksTyped
  <2>2. c = b \/ c \in f.inode[k].blk
    BY <1>3, <2>1
  <2> QED
    BY <2>2 DEF DirBlocks
<1>8. \A c \in DirBlocks(g), n \in Name :
        \/ g.data[c][n] = NoIno
        \/ c \in DirBlocks(f) /\ g.data[c][n] = f.data[c][n]
  BY <1>3, <1>6, <1>7
<1>9. \A j \in Ino : Refs(g, j) \subseteq Refs(f, j)
  BY <1>8, RefsShrink
<1>10. Disjoint(g)
  <2>1. \A j \in Live(f) : j \in Ino /\ f.inode[j].blk \subseteq f.bmap
    BY <1>0, BlocksTyped DEF Good, Disjoint
  <2>2. \A j, k \in Live(f) : j # k => f.inode[j].blk \cap f.inode[k].blk = {}
    BY DEF Good, Disjoint
  <2>3. ASSUME NEW j \in Live(f)
        PROVE  g.inode[j].blk \subseteq g.bmap
    BY <1>3, <2>1
  <2>4. ASSUME NEW j \in Live(f), NEW k \in Live(f), j # k
        PROVE  g.inode[j].blk \cap g.inode[k].blk = {}
    <3>1. j \in Ino /\ k \in Ino /\ b \notin f.inode[j].blk /\ b \notin f.inode[k].blk
      BY <1>1, <2>1
    <3>2. f.inode[j].blk \cap f.inode[k].blk = {}
      BY <2>2, <2>4
    <3>3. CASE j = d
      BY <1>3, <2>4, <3>1, <3>2, <3>3
    <3>4. CASE k = d
      BY <1>3, <2>4, <3>1, <3>2, <3>4
    <3>5. CASE j # d /\ k # d
      BY <1>3, <3>1, <3>2, <3>5
    <3> QED
      BY <3>3, <3>4, <3>5
  <2> QED
    BY <1>4, <2>3, <2>4 DEF Disjoint
<1>11. \A c \in DirBlocks(g), m \in Name : g.data[c][m] \in Live(g) \cup {NoIno, e}
  BY <1>4, <1>8 DEF Good
<1>12. ASSUME NEW j \in Ino
       PROVE  Cardinality(Refs(g, j)) <= Cap(g, j) + (IF j = e THEN 1 ELSE 0)
  <2>1. Cap(g, j) = Cap(f, j) /\ Cap(f, j) \in Nat
    BY <1>0, <1>3, <1>4, WidthAssumption DEF Cap, IsDir, FileSystem, Inode
  <2>2. Cardinality(Refs(f, j)) <= Cap(f, j) + (IF j = e THEN 1 ELSE 0)
    BY DEF Good
  <2>3. Cardinality(Refs(g, j)) <= Cardinality(Refs(f, j))
    BY <1>0, <1>2, <1>9, FewerRefs
  <2>4. Cardinality(Refs(f, j)) \in Nat /\ Cardinality(Refs(g, j)) \in Nat
    BY <1>0, <1>2, RefsFinite
  <2> QED
    BY <2>1, <2>2, <2>3, <2>4
<1>13. FewerEntries(f, g)
  <2> SUFFICES ASSUME NEW c \in Dirs(f), NEW m \in Name, NEW x \in Holding(g, c, m)
               PROVE  x \in Holding(f, c, m)
    BY <1>5 DEF FewerEntries
  <2>1. c \in Ino /\ x \in g.inode[c].blk /\ g.data[x][m] # NoIno
    BY <1>0, BlocksTyped DEF Holding
  <2>2. x # b /\ x \in f.inode[c].blk
    BY <1>3, <2>1
  <2>3. x \in Block
    BY <1>0, <2>1, <2>2, BlocksTyped
  <2> QED
    BY <1>3, <2>1, <2>2, <2>3 DEF Holding
<1>14. Once(g)
  BY <1>13, OnceKept DEF Good
<1>19. FreeUnlinked(g)
  BY <1>3 DEF Good, FreeUnlinked
<1>15. Good(g, e)
  BY <1>2, <1>5, <1>10, <1>11, <1>12, <1>14, <1>19 DEF Good
<1>16. \A j \in Ino : f.inode[j].blk \subseteq g.inode[j].blk
  BY <1>3
<1>17. \A c \in Dirs(f), m \in Name, j \in Ino : Holds(f, c, m, j) => Holds(g, c, m, j)
  <2> SUFFICES ASSUME NEW c \in Dirs(f), NEW m \in Name, NEW j \in Ino,
                      Holds(f, c, m, j)
               PROVE  Holds(g, c, m, j)
    OBVIOUS
  <2>1. PICK a \in f.inode[c].blk : f.data[a][m] = j
    BY DEF Holds
  <2>2. a \in DirBlocks(f) /\ c \in Ino
    BY <1>0, <2>1, BlocksTyped DEF DirBlocks
  <2>3. g.data[a][m] = j
    BY <1>3, <1>6, <2>1, <2>2
  <2> QED
    BY <1>5, <1>16, <2>1, <2>2, <2>3 DEF Holds
<1>18. \A n \in Name : Room(g, d, n) # {}
  <2> SUFFICES ASSUME NEW n \in Name PROVE b \in Room(g, d, n)
    OBVIOUS
  <2>1. Entries(g, b) = {}
    BY <1>3 DEF Entries
  <2>2. Cardinality(Entries(g, b)) < SlotsPerBlock
    BY <2>1, FS_EmptySet, SlotsAssumption
  <2> QED
    BY <1>3, <2>2 DEF Room
<1> QED
  BY <1>3, <1>4, <1>5, <1>9, <1>13, <1>15, <1>16, <1>17, <1>18 DEF g

\* ext2fs_write_inode of a copy that may be older than the inode: no kind
\* changes, no block is gained, and the count covers the names.
LEMMA WriteGood ==
    ASSUME FiniteNames, NEW f, NEW e, Good(f, e), NEW i \in Live(f), NEW r \in Inode,
           r.kind = f.inode[i].kind, r.links >= 1, r.blk \subseteq f.inode[i].blk,
           IsDir(f, i) \/ Cardinality(Refs(f, i)) <= r.links + (IF i = e THEN 1 ELSE 0)
    PROVE  LET g == ext2fs_write_inode(f, i, r) IN
           /\ Good(g, e)
           /\ g.imap = f.imap /\ g.bmap = f.bmap /\ g.data = f.data
           /\ Live(g) = Live(f) /\ Dirs(g) = Dirs(f)
           /\ g.inode[i] = r
           /\ \A j \in Ino : /\ j # i => g.inode[j] = f.inode[j]
                             /\ Refs(g, j) \subseteq Refs(f, j)
           /\ \A c \in Dirs(f), m \in Name, j \in Ino :
                Holds(f, c, m, j) /\ (c = i => r.blk = f.inode[i].blk)
                    => Holds(g, c, m, j)
           /\ FewerEntries(f, g)
<1> DEFINE g == ext2fs_write_inode(f, i, r)
<1>0. f \in FileSystem /\ i \in Ino
  BY BlocksTyped DEF Good
<1>1. g \in FileSystem
  BY <1>0, WriteInodeTyped
<1>2. /\ g.imap = f.imap /\ g.bmap = f.bmap /\ g.data = f.data
      /\ g.inode = [f.inode EXCEPT ![i] = r]
  BY <1>0 DEF ext2fs_write_inode, FileSystem
<1>3. g.inode[i] = r /\ \A j \in Ino : j # i => g.inode[j] = f.inode[j]
  BY <1>0, <1>2 DEF FileSystem
<1> HIDE DEF g
<1>4. Live(g) = Live(f)
  BY <1>0, <1>2, <1>3 DEF Live, FileSystem, Inode
<1>5. Dirs(g) = Dirs(f)
  BY <1>0, <1>3, <1>4, BlocksTyped DEF Dirs
<1>6. \A j \in Ino : g.inode[j].blk \subseteq f.inode[j].blk
  BY <1>3
<1>7. DirBlocks(g) \subseteq DirBlocks(f)
  BY <1>0, <1>5, <1>6, BlocksTyped DEF DirBlocks
<1>8. \A j \in Ino : Refs(g, j) \subseteq Refs(f, j)
  BY <1>2, <1>7, RefsShrink
<1>9. Disjoint(g)
  BY <1>0, <1>2, <1>4, <1>6, BlocksTyped DEF Good, Disjoint
<1>10. \A c \in DirBlocks(g), m \in Name : g.data[c][m] \in Live(g) \cup {NoIno, e}
  BY <1>2, <1>4, <1>7 DEF Good
<1>11. ASSUME NEW j \in Ino
       PROVE  Cardinality(Refs(g, j)) <= Cap(g, j) + (IF j = e THEN 1 ELSE 0)
  <2>1. Cardinality(Refs(f, j)) <= Cap(f, j) + (IF j = e THEN 1 ELSE 0)
    BY DEF Good
  <2>2. Cardinality(Refs(g, j)) <= Cardinality(Refs(f, j))
    BY <1>0, <1>1, <1>8, FewerRefs
  <2>3. Cardinality(Refs(f, j)) \in Nat /\ Cardinality(Refs(g, j)) \in Nat
    BY <1>0, <1>1, RefsFinite
  <2>4. CASE j # i
    <3>1. Cap(g, j) = Cap(f, j) /\ Cap(f, j) \in Nat
      BY <1>0, <1>3, <1>4, <2>4, WidthAssumption DEF Cap, IsDir, FileSystem, Inode
    <3> QED
      BY <2>1, <2>2, <2>3, <3>1
  <2>5. CASE j = i /\ (IsDir(f, i) \/ i = Root)
    <3>1. Cap(g, j) = Cap(f, j) /\ Cap(f, j) \in Nat
      BY <1>0, <1>3, <1>4, <2>5, WidthAssumption DEF Good, Dirs, Cap, IsDir, FileSystem, Inode
    <3> QED
      BY <2>1, <2>2, <2>3, <3>1
  <2>6. CASE j = i /\ ~ IsDir(f, i) /\ i # Root
    <3>1. Cap(g, j) = r.links /\ r.links \in Nat
      BY <1>3, <1>4, <2>6, WidthAssumption DEF Cap, IsDir, Inode
    <3> QED
      BY <2>2, <2>3, <2>6, <3>1
  <2> QED
    BY <2>4, <2>5, <2>6
<1>12. FewerEntries(f, g)
  BY <1>0, <1>2, <1>5, <1>6, BlocksTyped DEF FewerEntries, Holding
<1>13. Once(g)
  BY <1>12, OnceKept DEF Good
<1>16. FreeUnlinked(g)
  <2>1. i \in f.imap
    BY DEF Live
  <2> QED
    BY <1>2, <1>3, <2>1 DEF Good, FreeUnlinked
<1>14. Good(g, e)
  BY <1>1, <1>5, <1>9, <1>10, <1>11, <1>13, <1>16 DEF Good
<1>15. \A c \in Dirs(f), m \in Name, j \in Ino :
         Holds(f, c, m, j) /\ (c = i => r.blk = f.inode[i].blk) => Holds(g, c, m, j)
  <2>1. \A c \in Dirs(f) : c \in Ino
    BY <1>0, BlocksTyped
  <2> QED
    BY <1>2, <1>3, <1>5, <2>1 DEF Holds
<1> QED
  BY <1>2, <1>3, <1>4, <1>5, <1>8, <1>14, <1>15, <1>12 DEF g

\* do_killfilebyinode of an inode that has no name left.
LEMMA KillGood ==
    ASSUME FiniteNames, NEW f, Good(f, NoIno), NEW i \in Live(f), i # Root,
           Refs(f, i) = {}, NEW r \in Inode, r.blk = f.inode[i].blk, NEW bad
    PROVE  LET k == do_killfilebyinode(f, i, r, bad) IN
           /\ Good(k.fs, NoIno)
           /\ k.rc # "ok" => k.fs = f
           /\ k.rc = "ok" =>
                /\ k.fs.data = f.data
                /\ Live(k.fs) = Live(f) \ {i} /\ Dirs(k.fs) = Dirs(f) \ {i}
                /\ \A j \in Ino : /\ j # i => k.fs.inode[j] = f.inode[j]
                                  /\ Refs(k.fs, j) \subseteq Refs(f, j)
                /\ \A c \in Dirs(f), m \in Name, j \in Ino :
                     c # i /\ Holds(f, c, m, j) => Holds(k.fs, c, m, j)
                /\ FewerEntries(f, k.fs)
<1> DEFINE k    == do_killfilebyinode(f, i, r, bad)
           dead == [r EXCEPT !.links = 0]
           gone == IF "kill.blocks" \in bad THEN {} ELSE r.blk
           g    == [f EXCEPT !.inode[i] = dead,
                             !.bmap     = @ \ gone,
                             !.imap     = @ \ {i}]
<1>0. f \in FileSystem /\ i \in Ino
  BY BlocksTyped DEF Good
<1>1. CASE "kill.inode" \in bad
  BY <1>1 DEF do_killfilebyinode, Ret
<1>2. CASE "kill.inode" \notin bad
  <2>1. k = Ret(g, "ok")
    BY <1>2 DEF do_killfilebyinode
  <2>2. g \in FileSystem
    BY <1>0, <2>1, KillTyped DEF Ret, Result
  <2>3. gone \subseteq f.inode[i].blk
    OBVIOUS
  <2>4. dead.links = 0
    BY DEF Inode
  <2> HIDE DEF k, dead, gone
  <2>5. /\ g.inode = [f.inode EXCEPT ![i] = dead] /\ g.data = f.data
        /\ g.bmap = f.bmap \ gone /\ g.imap = f.imap \ {i}
    BY <1>0 DEF FileSystem
  <2> HIDE DEF g
  <2>6. g.inode[i] = dead /\ \A j \in Ino : j # i => g.inode[j] = f.inode[j]
    BY <1>0, <2>5 DEF FileSystem
  <2>7. Live(g) = Live(f) \ {i}
    BY <1>0, <2>5, <2>6 DEF Live, FileSystem
  <2>8. Dirs(g) = Dirs(f) \ {i}
    BY <1>0, <2>6, <2>7, BlocksTyped DEF Dirs
  <2>9. DirBlocks(g) \subseteq DirBlocks(f)
    BY <1>0, <2>6, <2>8, BlocksTyped DEF DirBlocks
  <2>10. \A j \in Ino : Refs(g, j) \subseteq Refs(f, j)
    BY <2>5, <2>9, RefsShrink
  <2>11. Disjoint(g)
    <3>1. \A j \in Live(g) : j \in Live(f) /\ j # i /\ g.inode[j] = f.inode[j]
      BY <1>0, <2>6, <2>7, BlocksTyped
    <3>2. \A j \in Live(g) : /\ f.inode[j].blk \subseteq f.bmap
                            /\ f.inode[j].blk \cap f.inode[i].blk = {}
      BY <3>1 DEF Good, Disjoint
    <3>3. \A j \in Live(g) : g.inode[j].blk \subseteq g.bmap
      BY <2>3, <2>5, <3>1, <3>2
    <3> QED
      BY <3>1, <3>3 DEF Good, Disjoint
  <2>12. \A c \in DirBlocks(g), m \in Name : g.data[c][m] \in Live(g) \cup {NoIno, NoIno}
    <3> SUFFICES ASSUME NEW c \in DirBlocks(g), NEW m \in Name
                 PROVE  g.data[c][m] \in Live(g) \cup {NoIno}
      OBVIOUS
    <3>1. f.data[c][m] \in Live(f) \cup {NoIno}
      BY <2>9 DEF Good
    <3>2. f.data[c][m] # i
      <4> SUFFICES ASSUME f.data[c][m] = i PROVE FALSE
        OBVIOUS
      <4>1. <<c, m>> \in Refs(f, i)
        BY <2>9 DEF Refs
      <4> QED
        BY <4>1
    <3> QED
      BY <2>5, <2>7, <3>1, <3>2
  <2>13. ASSUME NEW j \in Ino
         PROVE  Cardinality(Refs(g, j)) <= Cap(g, j) + (IF j = NoIno THEN 1 ELSE 0)
    <3>1. Cardinality(Refs(f, j)) <= Cap(f, j) + (IF j = NoIno THEN 1 ELSE 0)
      BY DEF Good
    <3>2. Cardinality(Refs(g, j)) <= Cardinality(Refs(f, j))
      BY <1>0, <2>2, <2>10, FewerRefs
    <3>3. Cardinality(Refs(f, j)) \in Nat /\ Cardinality(Refs(g, j)) \in Nat
      BY <1>0, <2>2, RefsFinite
    <3>4. CASE j # i
      <4>1. Cap(g, j) = Cap(f, j) /\ Cap(f, j) \in Nat
        BY <1>0, <2>6, <2>7, <3>4, WidthAssumption DEF Cap, IsDir, FileSystem, Inode
      <4> QED
        BY <3>1, <3>2, <3>3, <4>1
    <3>5. CASE j = i
      <4>1. Cardinality(Refs(g, j)) = 0
        BY <1>0, <3>2, <3>3, <3>5, NoRefs
      <4>2. Cap(g, j) = 0
        BY <2>7, <3>5 DEF Cap
      <4> QED
        BY <4>1, <4>2
    <3> QED
      BY <3>4, <3>5
  <2>14. FewerEntries(f, g)
    <3>1. \A c \in Dirs(g) : c \in Dirs(f) /\ g.inode[c] = f.inode[c]
      BY <1>0, <2>6, <2>8, BlocksTyped
    <3> QED
      BY <2>5, <3>1 DEF FewerEntries, Holding
  <2>15. Once(g)
    BY <2>14, OnceKept DEF Good
  <2>19. FreeUnlinked(g)
    BY <2>4, <2>5, <2>6 DEF Good, FreeUnlinked
  <2>16. Good(g, NoIno)
    BY <2>2, <2>8, <2>11, <2>12, <2>13, <2>15, <2>19 DEF Good
  <2>17. \A c \in Dirs(f), m \in Name, j \in Ino :
           c # i /\ Holds(f, c, m, j) => Holds(g, c, m, j)
    <3>1. \A c \in Dirs(f) : c \in Ino
      BY <1>0, BlocksTyped
    <3> QED
      BY <2>5, <2>6, <2>8, <3>1 DEF Holds
  <2>18. k.fs = g /\ k.rc = "ok"
    BY <2>1 DEF Ret
  <2> QED
    BY <2>5, <2>6, <2>7, <2>8, <2>10, <2>16, <2>17, <2>18, <2>14 DEF k
<1> QED
  BY <1>1, <1>2 DEF k

\* An inode written back as it was read.
LEMMA WriteSame ==
    ASSUME NEW f \in FileSystem, NEW i \in Ino, f.inode[i].links >= 1, NEW site, NEW bad
    PROVE  do_writeinode(f, i, f.inode[i], site, bad).fs = f
<1>1. ext2fs_write_inode(f, i, f.inode[i]) = f
  BY DEF ext2fs_write_inode, FileSystem
<1>2. ~ (f.inode[i].links < 1)
  BY WidthAssumption DEF FileSystem, Inode
<1> QED
  BY <1>1, <1>2 DEF do_writeinode, Ret

LEMMA DoWrite ==
    ASSUME NEW f, NEW i, NEW r \in Inode, r.links >= 1, NEW site, NEW bad
    PROVE  do_writeinode(f, i, r, site, bad) =
             IF site \in bad THEN Ret(f, "EIO") ELSE Ret(ext2fs_write_inode(f, i, r), "ok")
<1>1. ~ (r.links < 1)
  BY WidthAssumption DEF Inode
<1> QED
  BY <1>1 DEF do_writeinode

LEMMA LiveLinks ==
    ASSUME NEW f \in FileSystem, NEW i \in Live(f)
    PROVE  i \in Ino /\ f.inode[i] \in Inode /\ f.inode[i].links \in Nat
           /\ f.inode[i].links >= 1
  BY WidthAssumption DEF Live, FileSystem, Inode

\* A new inode that is not a directory comes to the one name it already has.
LEMMA BirthGood ==
    ASSUME FiniteNames, NEW f, NEW e \in Ino, Good(f, e), e \notin f.imap,
           NEW kind \in Kind \ {"dir"}, Cardinality(Refs(f, e)) <= 1
    PROVE  LET g == ext2fs_write_inode(ext2fs_inode_alloc(f, e), e,
                        [kind |-> kind, links |-> 1, blk |-> {}]) IN
           Good(g, NoIno) /\ Live(g) = Live(f) \cup {e} /\ Dirs(g) = Dirs(f)
<1> DEFINE r == [kind |-> kind, links |-> 1, blk |-> {}]
           a == ext2fs_inode_alloc(f, e)
           g == ext2fs_write_inode(a, e, r)
<1>0. f \in FileSystem
  BY DEF Good
<1>1. r \in Inode
  BY WidthAssumption DEF Inode
<1>2. g \in FileSystem
  BY <1>0, <1>1, AllocTyped, WriteInodeTyped
<1>3. /\ g.imap = f.imap \cup {e} /\ g.bmap = f.bmap /\ g.data = f.data
      /\ g.inode = [f.inode EXCEPT ![e] = r]
  BY <1>0 DEF ext2fs_write_inode, ext2fs_inode_alloc, FileSystem
<1>4. r.kind # "dir" /\ r.links = 1 /\ r.blk = {}
  OBVIOUS
<1> HIDE DEF r, a, g
<1>5. g.inode[e] = r /\ \A j \in Ino : j # e => g.inode[j] = f.inode[j]
  BY <1>0, <1>3 DEF FileSystem
<1>6. Live(g) = Live(f) \cup {e} /\ e \notin Live(f)
  BY <1>0, <1>3, <1>4, <1>5 DEF Live, FileSystem
<1>7. Dirs(g) = Dirs(f)
  BY <1>0, <1>4, <1>5, <1>6, BlocksTyped DEF Dirs
<1>8. DirBlocks(g) = DirBlocks(f)
  <2>1. \A d \in Dirs(f) : g.inode[d] = f.inode[d]
    BY <1>0, <1>5, <1>6, BlocksTyped
  <2> QED
    BY <1>7, <2>1 DEF DirBlocks
<1>9. Once(g)
  <2>1. \A d \in Dirs(f) : g.inode[d] = f.inode[d]
    BY <1>0, <1>5, <1>6, BlocksTyped
  <2>2. FewerEntries(f, g)
    BY <1>3, <1>7, <2>1 DEF FewerEntries, Holding
  <2> QED
    BY <2>2, OnceKept DEF Good
<1>10. \A j : Refs(g, j) = Refs(f, j)
  BY <1>3, <1>8 DEF Refs
<1>11. Disjoint(g)
  <2>1. \A j \in Live(f) : g.inode[j] = f.inode[j]
    BY <1>0, <1>5, <1>6, BlocksTyped
  <2> QED
    BY <1>3, <1>4, <1>5, <1>6, <2>1 DEF Good, Disjoint
<1>12. \A c \in DirBlocks(g), m \in Name : g.data[c][m] \in Live(g) \cup {NoIno, NoIno}
  BY <1>3, <1>6, <1>8 DEF Good
<1>13. ASSUME NEW j \in Ino
       PROVE  Cardinality(Refs(g, j)) <= Cap(g, j) + (IF j = NoIno THEN 1 ELSE 0)
  <2>1. Cardinality(Refs(f, j)) <= Cap(f, j) + (IF j = e THEN 1 ELSE 0)
    BY DEF Good
  <2>2. Cardinality(Refs(f, j)) \in Nat
    BY <1>0, RefsFinite
  <2>3. CASE j = e
    <3>1. e # Root
      BY <1>6 DEF Good, Dirs
    <3>2. Cap(g, j) = 1
      BY <1>4, <1>5, <1>6, <2>3, <3>1 DEF Cap, IsDir
    <3> QED
      BY <1>10, <2>2, <2>3, <3>2, RootAssumption
  <2>4. CASE j # e
    <3>1. Cap(g, j) = Cap(f, j) /\ Cap(f, j) \in Nat
      BY <1>0, <1>5, <1>6, <2>4, WidthAssumption DEF Cap, IsDir, FileSystem, Inode
    <3> QED
      BY <1>10, <2>1, <2>2, <2>4, <3>1, RootAssumption
  <2> QED
    BY <2>3, <2>4
<1>14. FreeUnlinked(g)
  BY <1>3, <1>5 DEF Good, FreeUnlinked
<1> QED
  BY <1>2, <1>6, <1>7, <1>11, <1>12, <1>13, <1>14, <1>9 DEF Good, g, a, r

\* A new directory, before it has a name: one block, nothing in it.
NewDir(f, d, i, b) ==
    [f EXCEPT
        !.inode[i]  = [kind |-> "dir", links |-> 2, blk |-> {b}],
        !.data[b]   = [m \in Name |-> NoIno],
        !.dotdot[i] = d,
        !.imap      = @ \cup {i},
        !.bmap      = @ \cup {b}]

LEMMA NewDirGood ==
    ASSUME FiniteNames, NEW f, Good(f, NoIno), NEW i \in Ino, i \notin f.imap,
           NEW d \in Dirs(f), NEW b \in Block, b \notin f.bmap
    PROVE  LET g == NewDir(f, d, i, b)
           IN  /\ Good(g, NoIno)
               /\ Live(g) = Live(f) \cup {i} /\ Dirs(g) = Dirs(f) \cup {i}
               /\ \A j \in Ino : j # i => g.inode[j] = f.inode[j]
               /\ g.inode[i].kind = "dir" /\ g.inode[i].links = 2
               /\ Refs(g, i) = {}
               /\ \A n \in Name : Room(g, d, n) = Room(f, d, n)
               /\ FewerEntries(f, g)
<1> DEFINE r == [kind |-> "dir", links |-> 2, blk |-> {b}]
           g == NewDir(f, d, i, b)
<1>0. f \in FileSystem /\ d \in Ino
  BY BlocksTyped DEF Good
<1>1. r \in Inode
  BY WidthAssumption DEF Inode, Kind
<1>2. r.kind = "dir" /\ r.links = 2 /\ r.blk = {b}
  OBVIOUS
<1> HIDE DEF r
<1>3. g \in FileSystem
  <2>1. [m \in Name |-> NoIno] \in [Name -> Ino \cup {NoIno}]
    OBVIOUS
  <2> QED
    BY <1>0, <1>1, <2>1 DEF FileSystem, NewDir, r
<1>4. /\ g.imap = f.imap \cup {i} /\ g.bmap = f.bmap \cup {b}
      /\ g.inode = [f.inode EXCEPT ![i] = r]
      /\ g.data = [f.data EXCEPT ![b] = [m \in Name |-> NoIno]]
  BY <1>0 DEF FileSystem, NewDir, r
<1> HIDE DEF g
<1>5. g.inode[i] = r /\ \A j \in Ino : j # i => g.inode[j] = f.inode[j]
  BY <1>0, <1>4 DEF FileSystem
<1>6. /\ \A m \in Name : g.data[b][m] = NoIno
      /\ \A c \in Block : c # b => g.data[c] = f.data[c]
  BY <1>0, <1>4 DEF FileSystem
<1>7. Live(g) = Live(f) \cup {i} /\ i \notin Live(f)
  BY <1>0, <1>2, <1>4, <1>5 DEF Live, FileSystem
<1>8. Dirs(g) = Dirs(f) \cup {i}
  BY <1>0, <1>2, <1>5, <1>7, BlocksTyped DEF Dirs
<1>9. \A d2 \in Live(f) : g.inode[d2] = f.inode[d2] /\ d2 \in Ino
  BY <1>0, <1>5, <1>7, BlocksTyped
<1>10. DirBlocks(g) = DirBlocks(f) \cup {b}
  BY <1>0, <1>2, <1>5, <1>8, <1>9, BlocksTyped DEF DirBlocks
<1>11. \A c \in DirBlocks(f) : c \in Block /\ c # b
  BY <1>0, BlocksTyped DEF Good, Disjoint, DirBlocks
<1>12. \A c \in DirBlocks(g), n \in Name :
         \/ g.data[c][n] = NoIno
         \/ c \in DirBlocks(f) /\ g.data[c][n] = f.data[c][n]
  BY <1>6, <1>10, <1>11
<1>13. \A j \in Ino : Refs(g, j) \subseteq Refs(f, j)
  BY <1>12, RefsShrink
<1>14. Disjoint(g)
  <2>1. \A j \in Live(f) : f.inode[j].blk \subseteq f.bmap /\ b \notin f.inode[j].blk
    BY DEF Good, Disjoint
  <2>2. \A j, k \in Live(f) : j # k => f.inode[j].blk \cap f.inode[k].blk = {}
    BY DEF Good, Disjoint
  <2> QED
    BY <1>2, <1>4, <1>5, <1>7, <1>9, <2>1, <2>2 DEF Disjoint
<1>15. \A c \in DirBlocks(g), m \in Name : g.data[c][m] \in Live(g) \cup {NoIno, NoIno}
  BY <1>7, <1>12 DEF Good
<1>16. Cap(f, i) = 0
  BY <1>7 DEF Cap
<1>17. Refs(f, i) = {}
  <2>1. Cardinality(Refs(f, i)) <= 0
    BY <1>16, RootAssumption DEF Good
  <2>2. Cardinality(Refs(f, i)) = 0
    BY <1>0, <2>1, RefsFinite
  <2> QED
    BY <1>0, <2>2, NoRefs
<1>18. ASSUME NEW j \in Ino
       PROVE  Cardinality(Refs(g, j)) <= Cap(g, j) + (IF j = NoIno THEN 1 ELSE 0)
  <2>1. Cardinality(Refs(f, j)) <= Cap(f, j) + (IF j = NoIno THEN 1 ELSE 0)
    BY DEF Good
  <2>2. Cardinality(Refs(g, j)) <= Cardinality(Refs(f, j))
    BY <1>0, <1>3, <1>13, FewerRefs
  <2>3. Cardinality(Refs(f, j)) \in Nat /\ Cardinality(Refs(g, j)) \in Nat
    BY <1>0, <1>3, RefsFinite
  <2>4. Cap(f, j) \in Nat /\ Cap(g, j) \in Nat
    BY <1>0, <1>3, WidthAssumption DEF Cap, IsDir, FileSystem, Inode
  <2>5. Cap(f, j) <= Cap(g, j)
    <3>1. CASE j = i
      BY <1>16, <2>4, <3>1
    <3>2. CASE j # i
      BY <1>5, <1>7, <2>4, <3>2 DEF Cap, IsDir
    <3> QED
      BY <3>1, <3>2
  <2> QED
    BY <2>1, <2>2, <2>3, <2>4, <2>5
<1>19. FewerEntries(f, g)
  <2> SUFFICES ASSUME NEW c \in Dirs(g), NEW m \in Name, NEW x \in Holding(g, c, m)
               PROVE  c \in Dirs(f) /\ x \in Holding(f, c, m)
    BY DEF FewerEntries
  <2>1. x \in g.inode[c].blk /\ g.data[x][m] # NoIno
    BY DEF Holding
  <2>2. c # i
    BY <1>2, <1>5, <1>6, <2>1
  <2>3. c \in Dirs(f) /\ g.inode[c] = f.inode[c]
    BY <1>8, <1>9, <2>2 DEF Dirs
  <2>4. x \in DirBlocks(f)
    BY <2>1, <2>3 DEF DirBlocks
  <2>5. g.data[x] = f.data[x]
    BY <1>6, <1>11, <2>4
  <2> QED
    BY <2>1, <2>3, <2>5 DEF Holding
<1>20. Once(g)
  BY <1>19, OnceKept DEF Good
<1>24. FreeUnlinked(g)
  BY <1>4, <1>5 DEF Good, FreeUnlinked
<1>21. Good(g, NoIno)
  BY <1>3, <1>8, <1>14, <1>15, <1>18, <1>20, <1>24 DEF Good
<1>22. Refs(g, i) = {}
  BY <1>13, <1>17
<1>23. ASSUME NEW n \in Name PROVE Room(g, d, n) = Room(f, d, n)
  <2>1. g.inode[d] = f.inode[d]
    BY <1>9 DEF Dirs
  <2>2. \A c \in f.inode[d].blk : g.data[c] = f.data[c]
    BY <1>6, <1>11 DEF DirBlocks
  <2> QED
    BY <2>1, <2>2 DEF Room, Entries
<1> QED
  BY <1>2, <1>5, <1>7, <1>8, <1>21, <1>22, <1>23, <1>19 DEF g, r
=============================================================================
