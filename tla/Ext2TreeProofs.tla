-------------------------- MODULE Ext2TreeProofs ---------------------------
(***************************************************************************)
(* What Ext2Daemon is to the program that uses the mount: the tree of      *)
(* names, the link counts and ".." beside it, and the bitmaps.             *)
(*                                                                         *)
(* What shows of a file system f is Kinds(f), Named(f) and Counts(f).  The *)
(* first sections follow the calls of the library and the handlers built   *)
(* from them, one lemma each, and say what a handler that succeeds makes   *)
(* of what shows: Made, DirMade, Linked, Dropped, DirDropped, Swept and    *)
(* Moved.  Did gathers them by request, and Tells relates them to the      *)
(* reply.  From Tells follow the theorems about replies and bitmaps.  The  *)
(* invariant TreeInv on what shows, kept by each of the seven effects,     *)
(* gives the theorems about link counts, "..", the tree, and that the      *)
(* daemon implements PosixTree.                                            *)
(*                                                                         *)
(* Assumptions: FiniteDisk (finitely many inodes and names) and, for what  *)
(* a failing call can break, NoFailure.                                    *)
(***************************************************************************)
EXTENDS Ext2HandlerProofs, WellFoundedInduction

-----------------------------------------------------------------------------
(* What of a file system shows: the names, the kinds, the link counts *)

Named(f) == [d \in Ino |-> [n \in Name |->
                IF d \in Dirs(f) THEN ext2fs_namei(f, d, n) ELSE NoIno]]
Kinds(f) == [i \in Ino |-> IF i \in Live(f) THEN f.inode[i].kind ELSE "none"]
Counts(f) == [i \in Ino |-> IF i \in Live(f) THEN f.inode[i].links ELSE 0]

\* The bitmaps hold what is in use and nothing else.
Used(f) == UNION {f.inode[i].blk : i \in Live(f)}
Accounted(f) == f.imap = Live(f) /\ f.bmap = Used(f)

\* What the steps of a handler keep between them, though link counts are wrong
\* for a while.
Shape(f) == f \in FileSystem /\ Disjoint(f) /\ Once(f)

Held(f, d, n) == IF d \in Dirs(f) THEN Holding(f, d, n) ELSE {}

LEMMA GoodShape ==
    ASSUME NEW f, NEW e, Good(f, e)
    PROVE  Shape(f)
  BY DEF Good, Shape

LEMMA NamedTyped ==
    ASSUME NEW f \in FileSystem
    PROVE  Named(f) \in [Ino -> [Name -> Ino \cup {NoIno}]]
  BY NameiTyped DEF Named

\* A name shows what the one block that holds it says.
LEMMA NamedAt ==
    ASSUME NEW f, NEW d \in Ino, NEW n \in Name
    PROVE  /\ Held(f, d, n) = {} => Named(f)[d][n] = NoIno
           /\ \A b : Held(f, d, n) = {b} => Named(f)[d][n] = f.data[b][n]
<1>1. Named(f)[d][n] = IF d \in Dirs(f) THEN ext2fs_namei(f, d, n) ELSE NoIno
  BY DEF Named
<1>2. ASSUME Held(f, d, n) = {} PROVE Named(f)[d][n] = NoIno
  BY <1>1, <1>2 DEF Held, ext2fs_namei
<1>3. ASSUME NEW b, Held(f, d, n) = {b} PROVE Named(f)[d][n] = f.data[b][n]
  <2>1. d \in Dirs(f) /\ Holding(f, d, n) = {b}
    BY <1>3 DEF Held
  <2>2. (CHOOSE c \in Holding(f, d, n) : TRUE) = b
    BY <2>1
  <2> QED
    BY <1>1, <2>1, <2>2 DEF ext2fs_namei
<1> QED
  BY <1>2, <1>3

\* A name is held once.
LEMMA HeldOne ==
    ASSUME NEW f, Once(f), NEW d, NEW n \in Name, NEW b \in Held(f, d, n)
    PROVE  Held(f, d, n) = {b} /\ d \in Dirs(f)
  BY DEF Once, Held

\* Once, from the other side: some block holds all there is of a name.
LEMMA OnceHeld ==
    ASSUME NEW f, \A d \in Dirs(f), n \in Name : \E b : Held(f, d, n) \subseteq {b}
    PROVE  Once(f)
<1> SUFFICES ASSUME NEW d \in Dirs(f), NEW n \in Name,
                    NEW b \in Holding(f, d, n), NEW c \in Holding(f, d, n)
             PROVE  b = c
  BY DEF Once
<1> QED
  BY DEF Held

LEMMA NamedPoint ==
    ASSUME NEW f, NEW g, NEW d \in Ino, NEW n \in Name,
           Held(g, d, n) = Held(f, d, n),
           \A b \in Held(f, d, n) : g.data[b][n] = f.data[b][n]
    PROVE  Named(g)[d][n] = Named(f)[d][n]
<1>1. CASE Held(f, d, n) = {}
  BY <1>1, NamedAt
<1>2. CASE Held(f, d, n) # {}
  <2>1. d \in Dirs(f) /\ d \in Dirs(g) /\ Holding(g, d, n) = Holding(f, d, n)
    BY <1>2 DEF Held
  <2>2. (CHOOSE b \in Holding(f, d, n) : TRUE) \in Holding(f, d, n)
    BY <1>2, <2>1 DEF Held
  <2>3. ext2fs_namei(g, d, n) = ext2fs_namei(f, d, n)
    BY <1>2, <2>1, <2>2 DEF ext2fs_namei, Held
  <2> QED
    BY <2>1, <2>3 DEF Named
<1> QED
  BY <1>1, <1>2

\* Files whose directories hold the same entries show the same names.
LEMMA NamedSame ==
    ASSUME NEW f, NEW g,
           \A d \in Ino, n \in Name :
               /\ Held(g, d, n) = Held(f, d, n)
               /\ \A b \in Held(f, d, n) : g.data[b][n] = f.data[b][n]
    PROVE  Named(g) = Named(f)
<1>1. \A d \in Ino, n \in Name : Named(g)[d][n] = Named(f)[d][n]
  BY NamedPoint
<1> QED
  BY <1>1 DEF Named

\* The names when n of directory d is i.
Put(N, d, n, i) == [N EXCEPT ![d][n] = i]

\* No other name differs.
ElseSame(f, g, d, n) ==
    \A e \in Ino, m \in Name :
        <<e, m>> # <<d, n>> => Named(g)[e][m] = Named(f)[e][m]

\* One name differs: the rest is Put.
LEMMA NamedSet ==
    ASSUME NEW f, NEW g, NEW d \in Ino, NEW n \in Name, ElseSame(f, g, d, n)
    PROVE  Named(g) = Put(Named(f), d, n, Named(g)[d][n])
<1> DEFINE N == [Named(f) EXCEPT ![d][n] = Named(g)[d][n]]
<1>1. \A e \in Ino, m \in Name : Named(g)[e][m] = N[e][m]
  BY DEF Named, ElseSame
<1>2. \A e \in Ino : Named(g)[e] = N[e]
  <2> SUFFICES ASSUME NEW e \in Ino PROVE Named(g)[e] = N[e]
    OBVIOUS
  <2>1. \A m \in Name : Named(g)[e][m] = N[e][m]
    BY <1>1
  <2> QED
    BY <2>1 DEF Named
<1> QED
  BY <1>2 DEF Named, Put

\* Whoever looks at kinds, counts and bitmaps sees no difference.
Alike(f, g) ==
    /\ Live(g) = Live(f) /\ Dirs(g) = Dirs(f)
    /\ Kinds(g) = Kinds(f) /\ Counts(g) = Counts(f) /\ g.dotdot = f.dotdot
    /\ Accounted(f) => Accounted(g)

\* SetEntry touches neither inodes nor bitmaps.
LEMMA SetEntryAlike ==
    ASSUME NEW f \in FileSystem, NEW b \in Block, NEW n \in Name,
           NEW i \in Ino \cup {NoIno}
    PROVE  Alike(f, SetEntry(f, b, n, i))
<1> DEFINE g == SetEntry(f, b, n, i)
<1>1. /\ g.inode = f.inode /\ g.imap = f.imap /\ g.bmap = f.bmap
      /\ Live(g) = Live(f) /\ Dirs(g) = Dirs(f)
  BY SetEntryFields
<1>2. g.dotdot = f.dotdot
  BY DEF SetEntry, FileSystem
<1> HIDE DEF g
<1>3. Kinds(g) = Kinds(f) /\ Counts(g) = Counts(f)
  BY <1>1 DEF Kinds, Counts
<1>4. Used(g) = Used(f)
  BY <1>1 DEF Used
<1>5. Alike(f, g)
  BY <1>1, <1>2, <1>3, <1>4 DEF Alike, Accounted
<1> QED
  BY <1>5 DEF g

\* A slot of a directory belongs to it alone, so writing it changes one name.
LEMMA SlotAlone ==
    ASSUME NEW f, Shape(f), NEW d \in Dirs(f), NEW n \in Name,
           NEW b \in f.inode[d].blk, NEW i \in Ino \cup {NoIno},
           NEW e \in Ino, NEW m \in Name, <<e, m>> # <<d, n>>
    PROVE  LET g == SetEntry(f, b, n, i) IN
           /\ Held(g, e, m) = Held(f, e, m)
           /\ \A c \in Held(f, e, m) : g.data[c][m] = f.data[c][m]
<1> DEFINE g == SetEntry(f, b, n, i)
<1>1. f \in FileSystem /\ b \in Block /\ d \in Live(f)
  BY BlocksTyped DEF Shape
<1>2. /\ g.inode = f.inode /\ Dirs(g) = Dirs(f)
      /\ \A c \in Block, k \in Name : <<c, k>> # <<b, n>> => g.data[c][k] = f.data[c][k]
  BY <1>1, SetEntryFields
<1> HIDE DEF g
<1>3. CASE e \notin Dirs(f)
  BY <1>2, <1>3 DEF Held, g
<1>4. CASE e \in Dirs(f)
  <2>1. \A c \in f.inode[e].blk : c \in Block /\ <<c, m>> # <<b, n>>
    <3> SUFFICES ASSUME NEW c \in f.inode[e].blk
                 PROVE  c \in Block /\ <<c, m>> # <<b, n>>
      OBVIOUS
    <3>1. c \in Block /\ e \in Live(f)
      BY <1>1, <1>4, BlocksTyped
    <3>2. e # d => c # b
      BY <1>1, <3>1 DEF Shape, Disjoint
    <3> QED
      BY <3>1, <3>2
  <2>2. \A c \in f.inode[e].blk : g.data[c][m] = f.data[c][m]
    BY <1>2, <2>1
  <2>3. Holding(g, e, m) = Holding(f, e, m)
    BY <1>2, <2>2 DEF Holding
  <2>4. Held(g, e, m) = Held(f, e, m)
    BY <1>2, <2>3 DEF Held
  <2>5. \A c \in Held(f, e, m) : c \in f.inode[e].blk
    BY <1>4 DEF Held, Holding
  <2> QED
    BY <2>2, <2>4, <2>5 DEF g
<1> QED
  BY <1>3, <1>4 DEF g

\* An entry written where the directory holds the name, or nowhere else.
LEMMA PutShape ==
    ASSUME NEW f, Shape(f), NEW d \in Dirs(f), NEW n \in Name,
           NEW b \in f.inode[d].blk, NEW i \in Ino \cup {NoIno},
           Holding(f, d, n) \subseteq {b}
    PROVE  LET g == SetEntry(f, b, n, i) IN
           /\ Shape(g)
           /\ Named(g) = Put(Named(f), d, n, i)
<1> DEFINE g == SetEntry(f, b, n, i)
<1>1. f \in FileSystem /\ b \in Block /\ d \in Live(f) /\ d \in Ino
  BY BlocksTyped DEF Shape
<1>2. /\ g.inode = f.inode /\ Live(g) = Live(f) /\ Dirs(g) = Dirs(f) /\ g.bmap = f.bmap
      /\ g.data[b][n] = i
      /\ \A c \in Block, k \in Name : <<c, k>> # <<b, n>> => g.data[c][k] = f.data[c][k]
  BY <1>1, SetEntryFields
<1>3. g \in FileSystem
  BY <1>1, SetEntryTyped
<1>4. \A e \in Ino, m \in Name : <<e, m>> # <<d, n>> =>
        /\ Held(g, e, m) = Held(f, e, m)
        /\ \A c \in Held(f, e, m) : g.data[c][m] = f.data[c][m]
  BY SlotAlone
<1> HIDE DEF g
<1>5. Held(g, d, n) = IF i = NoIno THEN {} ELSE {b}
  <2>1. \A c \in f.inode[d].blk \ {b} : g.data[c][n] = NoIno
    <3> SUFFICES ASSUME NEW c \in f.inode[d].blk, c # b PROVE g.data[c][n] = NoIno
      OBVIOUS
    <3>1. c \in Block /\ f.data[c][n] = NoIno
      BY <1>1, BlocksTyped DEF Holding
    <3> QED
      BY <1>2, <3>1
  <2>2. Holding(g, d, n) = IF i = NoIno THEN {} ELSE {b}
    BY <1>2, <2>1 DEF Holding
  <2> QED
    BY <1>2, <2>2 DEF Held
<1>6. Named(g)[d][n] = i
  BY <1>1, <1>2, <1>5, NamedAt
<1>7. ElseSame(f, g, d, n)
  BY <1>4, NamedPoint DEF ElseSame
<1>8. Named(g) = Put(Named(f), d, n, i)
  <2>1. Named(g) = Put(Named(f), d, n, Named(g)[d][n])
    BY <1>1, <1>7, NamedSet
  <2> QED
    BY <1>6, <2>1
<1>9. Disjoint(g)
  BY <1>2 DEF Shape, Disjoint
<1>10. Once(g)
  <2> SUFFICES ASSUME NEW e \in Dirs(g), NEW m \in Name
               PROVE  \E c : Held(g, e, m) \subseteq {c}
    BY OnceHeld
  <2>1. CASE <<e, m>> = <<d, n>>
    BY <1>5, <2>1
  <2>2. CASE <<e, m>> # <<d, n>>
    <3>1. e \in Ino
      BY <1>3, BlocksTyped
    <3>2. Held(g, e, m) = Held(f, e, m)
      BY <1>4, <2>2, <3>1
    <3>3. CASE Held(f, e, m) = {}
      BY <3>2, <3>3
    <3>4. CASE Held(f, e, m) # {}
      <4>1. PICK c : c \in Held(f, e, m)
        BY <3>4
      <4>2. Held(f, e, m) = {c}
        BY <4>1, HeldOne DEF Shape
      <4> QED
        BY <3>2, <4>2
    <3> QED
      BY <3>3, <3>4
  <2> QED
    BY <2>1, <2>2
<1> QED
  BY <1>3, <1>8, <1>9, <1>10 DEF Shape, g

\* ext2fs_link adds the name, ext2fs_unlink removes it.
LEMMA LinkShape ==
    ASSUME NEW f, Shape(f), NEW d \in Dirs(f), NEW n \in Name, NEW i \in Ino,
           Room(f, d, n) # {}, Holding(f, d, n) = {}
    PROVE  LET g == ext2fs_link(f, d, n, i) IN
           /\ Shape(g) /\ Alike(f, g) /\ g.inode = f.inode
           /\ Named(g) = Put(Named(f), d, n, i)
<1> DEFINE b == CHOOSE c \in Room(f, d, n) : TRUE
           g == SetEntry(f, b, n, i)
<1>1. b \in f.inode[d].blk
  BY DEF Room
<1>2. f \in FileSystem /\ b \in Block
  BY <1>1, BlocksTyped DEF Shape
<1>3. ext2fs_link(f, d, n, i) = g
  BY DEF ext2fs_link
<1> HIDE DEF b
<1>4. /\ Shape(g)
      /\ Named(g) = Put(Named(f), d, n, i)
  BY <1>1, PutShape
<1>5. Alike(f, g) /\ g.inode = f.inode
  BY <1>2, SetEntryAlike, SetEntryFields
<1> HIDE DEF g
<1> QED
  BY <1>3, <1>4, <1>5

\* What a lookup finds is in a block of the directory, and only in that one.
LEMMA LookupHeld ==
    ASSUME NEW f, Shape(f), NEW d \in Dirs(f), NEW n \in Name,
           ext2fs_namei(f, d, n) # NoIno
    PROVE  /\ ext2fs_namei(f, d, n) \in Ino
           /\ \E b \in f.inode[d].blk :
                /\ Holding(f, d, n) = {b}
                /\ f.data[b][n] = ext2fs_namei(f, d, n)
<1> DEFINE i == ext2fs_namei(f, d, n)
           b == CHOOSE c \in Holding(f, d, n) : TRUE
<1>1. f \in FileSystem /\ d \in Ino
  BY BlocksTyped DEF Shape
<1>2. i \in Ino
  BY <1>1, NameiTyped
<1>3. Holding(f, d, n) # {} /\ i = f.data[b][n]
  BY DEF ext2fs_namei
<1>4. b \in Holding(f, d, n)
  BY <1>3
<1> HIDE DEF b, i
<1>5. b \in Held(f, d, n)
  BY <1>4 DEF Held
<1>6. Holding(f, d, n) = {b}
  BY <1>5, HeldOne DEF Shape, Held
<1>7. b \in f.inode[d].blk
  BY <1>4 DEF Holding
<1> QED
  BY <1>2, <1>3, <1>6, <1>7 DEF i

\* ext2fs_unlink, where the name is held.
LEMMA UnlinkShape ==
    ASSUME NEW f, Shape(f), NEW d \in Dirs(f), NEW n \in Name, NEW i,
           i = ext2fs_namei(f, d, n), i # NoIno
    PROVE  LET g == ext2fs_unlink(f, d, n, i) IN
           /\ Shape(g) /\ Alike(f, g) /\ g.inode = f.inode
           /\ Named(g) = Put(Named(f), d, n, NoIno)
<1>1. PICK b \in f.inode[d].blk : Holding(f, d, n) = {b} /\ f.data[b][n] = i
  BY LookupHeld
<1> DEFINE g == SetEntry(f, b, n, NoIno)
<1>2. f \in FileSystem /\ b \in Block
  BY BlocksTyped DEF Shape
<1>3. ext2fs_unlink(f, d, n, i) = g
  <2>1. (CHOOSE c \in Holding(f, d, n) : f.data[c][n] = i) = b
    BY <1>1
  <2> QED
    BY <2>1 DEF ext2fs_unlink
<1>4. Holding(f, d, n) \subseteq {b} /\ NoIno \in Ino \cup {NoIno}
  BY <1>1
<1>5. Shape(g) /\ Named(g) = Put(Named(f), d, n, NoIno)
  BY <1>1, <1>4, PutShape
<1>6. Alike(f, g) /\ g.inode = f.inode
  BY <1>2, <1>4, SetEntryAlike, SetEntryFields
<1> HIDE DEF g
<1> QED
  BY <1>3, <1>5, <1>6

-----------------------------------------------------------------------------
(* The other steps of a handler *)

\* The table F when the entry of i is x.
With(F, i, x) == [F EXCEPT ![i] = x]

\* Every directory holds the entries it held.
SameEntries(f, g) ==
    \A d \in Ino, n \in Name :
        /\ Held(g, d, n) = Held(f, d, n)
        /\ \A b \in Held(f, d, n) : g.data[b][n] = f.data[b][n]

\* A step that keeps the entries of all directories keeps the names.
LEMMA EntriesKept ==
    ASSUME NEW f, NEW g \in FileSystem, Once(f), SameEntries(f, g)
    PROVE  Once(g) /\ Named(g) = Named(f)
<1>1. Named(g) = Named(f)
  BY NamedSame DEF SameEntries
<1>2. Once(g)
  <2> SUFFICES ASSUME NEW d \in Dirs(g), NEW n \in Name
               PROVE  \E c : Held(g, d, n) \subseteq {c}
    BY OnceHeld
  <2>1. d \in Ino
    BY BlocksTyped
  <2>2. Held(g, d, n) = Held(f, d, n)
    BY <2>1 DEF SameEntries
  <2>3. CASE Held(f, d, n) = {}
    BY <2>2, <2>3
  <2>4. CASE Held(f, d, n) # {}
    <3>1. PICK c : c \in Held(f, d, n)
      BY <2>4
    <3>2. Held(f, d, n) = {c}
      BY <3>1, HeldOne
    <3> QED
      BY <2>2, <3>2
  <2> QED
    BY <2>3, <2>4
<1> QED
  BY <1>1, <1>2

\* One more block, empty, for a directory or a file.
LEMMA ExpandShape ==
    ASSUME NEW f, Shape(f), NEW d \in Live(f), FreeBlocks(f) # {}
    PROVE  LET g == ext2fs_expand_dir(f, d) IN
           /\ Shape(g) /\ Alike(f, g)
           /\ Named(g) = Named(f)
           /\ \A j \in Ino : /\ g.inode[j].kind = f.inode[j].kind
                             /\ g.inode[j].links = f.inode[j].links
                             /\ j # d => g.inode[j] = f.inode[j]
           /\ \A n \in Name : Room(g, d, n) # {}
<1> DEFINE g == ext2fs_expand_dir(f, d)
           b == ext2fs_new_block(f)
<1>0. f \in FileSystem /\ d \in Ino
  BY BlocksTyped DEF Shape
<1>1. /\ g.imap = f.imap /\ g.bmap = f.bmap \cup {b}
      /\ \A j \in Ino : /\ g.inode[j].kind = f.inode[j].kind
                        /\ g.inode[j].links = f.inode[j].links
                        /\ j # d => g.inode[j] = f.inode[j]
      /\ g.inode[d].blk = f.inode[d].blk \cup {b}
      /\ \A n \in Name : g.data[b][n] = NoIno
      /\ \A c \in Block : c # b => g.data[c] = f.data[c]
  BY <1>0, ExpandFields
<1>2. g \in FileSystem
  BY <1>0, ExpandTyped
<1>3. b \in Block /\ b \notin f.bmap
  BY <1>0, NewBlockTyped
<1>4. g.dotdot = f.dotdot
  BY DEF ext2fs_expand_dir, FileSystem
<1> HIDE DEF g, b
<1>5. Live(g) = Live(f) /\ Dirs(g) = Dirs(f)
  <2>1. \A j \in f.imap : j \in Ino
    BY <1>0 DEF FileSystem
  <2>2. Live(g) = Live(f)
    BY <1>1, <2>1 DEF Live
  <2>3. \A j \in Live(f) : j \in Ino
    BY <1>0, BlocksTyped
  <2> QED
    BY <1>1, <2>2, <2>3 DEF Dirs
<1>6. \A j \in Live(f) : j \in Ino /\ f.inode[j].blk \subseteq f.bmap
                         /\ f.inode[j].blk \subseteq Block
  BY <1>0, BlocksTyped DEF Shape, Disjoint
<1>7. SameEntries(f, g)
  <2> SUFFICES ASSUME NEW e \in Ino, NEW n \in Name
               PROVE  /\ Held(g, e, n) = Held(f, e, n)
                      /\ \A c \in Held(f, e, n) : g.data[c][n] = f.data[c][n]
    BY DEF SameEntries
  <2>1. CASE e \notin Dirs(f)
    BY <1>5, <2>1 DEF Held
  <2>2. CASE e \in Dirs(f)
    <3>1. e \in Live(f)
      BY <2>2 DEF Dirs
    <3>2. \A c \in f.inode[e].blk : g.data[c][n] = f.data[c][n]
      <4> SUFFICES ASSUME NEW c \in f.inode[e].blk PROVE g.data[c][n] = f.data[c][n]
        OBVIOUS
      <4>1. c \in Block /\ c # b
        BY <1>3, <1>6, <3>1
      <4> QED
        BY <1>1, <4>1
    <3>3. g.inode[e].blk = f.inode[e].blk \/ g.inode[e].blk = f.inode[e].blk \cup {b}
      BY <1>1
    <3>4. Holding(g, e, n) = Holding(f, e, n)
      BY <1>1, <3>2, <3>3 DEF Holding
    <3>5. \A c \in Holding(f, e, n) : c \in f.inode[e].blk
      BY DEF Holding
    <3> QED
      BY <1>5, <2>2, <3>2, <3>4, <3>5 DEF Held
  <2> QED
    BY <2>1, <2>2
<1>8. Once(g) /\ Named(g) = Named(f)
  BY <1>2, <1>7, EntriesKept DEF Shape
<1>9. Disjoint(g)
  <2>1. \A j \in Live(f) : j # d => g.inode[j].blk = f.inode[j].blk
    BY <1>1, <1>6
  <2>2. \A i, j \in Live(f) : i # j => f.inode[i].blk \cap f.inode[j].blk = {}
    BY DEF Shape, Disjoint
  <2>3. \A j \in Live(g) : g.inode[j].blk \subseteq g.bmap
    BY <1>1, <1>5, <1>6, <2>1
  <2>4. ASSUME NEW i \in Live(g), NEW j \in Live(g), i # j
        PROVE  g.inode[i].blk \cap g.inode[j].blk = {}
    <3>1. i \in Live(f) /\ j \in Live(f)
      BY <1>5
    <3>2. f.inode[i].blk \cap f.inode[j].blk = {}
      BY <2>2, <2>4, <3>1
    <3>3. b \notin f.inode[i].blk /\ b \notin f.inode[j].blk
      BY <1>3, <1>6, <3>1
    <3>4. i # d \/ j # d
      BY <2>4
    <3> QED
      BY <1>1, <2>1, <3>1, <3>2, <3>3, <3>4
  <2> QED
    BY <2>3, <2>4 DEF Disjoint
<1>10. Kinds(g) = Kinds(f) /\ Counts(g) = Counts(f)
  BY <1>1, <1>5 DEF Kinds, Counts
<1>11. Used(g) = Used(f) \cup {b}
  <2>1. \A j \in Live(f) : j # d => g.inode[j].blk = f.inode[j].blk
    BY <1>1, <1>6
  <2> QED
    BY <1>1, <1>5, <2>1 DEF Used
<1>12. Alike(f, g)
  BY <1>1, <1>4, <1>5, <1>10, <1>11 DEF Alike, Accounted
<1>13. ASSUME NEW n \in Name PROVE Room(g, d, n) # {}
  <2>1. Entries(g, b) = {}
    BY <1>1 DEF Entries
  <2>2. Cardinality(Entries(g, b)) = 0
    BY <2>1, FS_EmptySet
  <2>3. b \in g.inode[d].blk /\ g.data[b][n] = NoIno
    BY <1>1
  <2>4. 0 < SlotsPerBlock
    BY SlotsAssumption
  <2>5. b \in Room(g, d, n)
    BY <2>2, <2>3, <2>4 DEF Room
  <2> QED
    BY <2>5
<1> QED
  BY <1>1, <1>2, <1>8, <1>9, <1>12, <1>13 DEF Shape, g

\* A block more for a file or a directory shows nowhere.
LEMMA GrowShape ==
    ASSUME NEW f, Shape(f), NEW i \in Live(f), FreeBlocks(f) # {}
    PROVE  LET g == ext2fs_file_grow(f, i) IN
           /\ Shape(g) /\ Alike(f, g)
           /\ Named(g) = Named(f)
<1>1. ext2fs_file_grow(f, i) = ext2fs_expand_dir(f, i)
  BY DEF ext2fs_file_grow, ext2fs_expand_dir
<1> QED
  BY <1>1, ExpandShape

\* An inode written back: of what shows, its link count.
LEMMA WriteShape ==
    ASSUME NEW f, Shape(f), NEW i \in Live(f), NEW r \in Inode,
           r.kind = f.inode[i].kind, r.links >= 1, r.blk = f.inode[i].blk
    PROVE  LET g == ext2fs_write_inode(f, i, r) IN
           /\ Shape(g) /\ Live(g) = Live(f) /\ Dirs(g) = Dirs(f)
           /\ Named(g) = Named(f) /\ Kinds(g) = Kinds(f)
           /\ Counts(g) = With(Counts(f), i, r.links)
           /\ g.dotdot = f.dotdot
           /\ Accounted(f) => Accounted(g)
           /\ g.inode[i] = r
           /\ \A j \in Ino : j # i => g.inode[j] = f.inode[j]
<1> DEFINE g == ext2fs_write_inode(f, i, r)
<1>0. f \in FileSystem /\ i \in Ino
  BY BlocksTyped DEF Shape
<1>1. /\ g.imap = f.imap /\ g.bmap = f.bmap /\ g.data = f.data /\ g.dotdot = f.dotdot
      /\ g.inode[i] = r
      /\ \A j \in Ino : j # i => g.inode[j] = f.inode[j]
  BY <1>0 DEF ext2fs_write_inode, FileSystem
<1>2. g \in FileSystem
  BY <1>0, WriteInodeTyped
<1> HIDE DEF g
<1>3. /\ \A j \in Ino : g.inode[j].kind = f.inode[j].kind /\ g.inode[j].blk = f.inode[j].blk
      /\ \A j \in Ino : g.inode[j].links > 0 <=> f.inode[j].links > 0
  <2> SUFFICES ASSUME NEW j \in Ino
               PROVE  /\ g.inode[j].kind = f.inode[j].kind /\ g.inode[j].blk = f.inode[j].blk
                      /\ g.inode[j].links > 0 <=> f.inode[j].links > 0
    OBVIOUS
  <2>1. CASE j # i
    BY <1>1, <2>1
  <2>2. CASE j = i
    <3>1. r.links > 0 /\ f.inode[i].links > 0
      BY <1>0, WidthAssumption DEF Live, Inode
    <3> QED
      BY <1>1, <2>2, <3>1
  <2> QED
    BY <2>1, <2>2
<1>4. Live(g) = Live(f) /\ Dirs(g) = Dirs(f)
  <2>1. \A j \in f.imap : j \in Ino
    BY <1>0 DEF FileSystem
  <2>2. Live(g) = Live(f)
    BY <1>1, <1>3, <2>1 DEF Live
  <2>3. \A j \in Live(f) : j \in Ino
    BY <1>0, BlocksTyped
  <2> QED
    BY <1>3, <2>2, <2>3 DEF Dirs
<1>5. \A j \in Live(f) : j \in Ino /\ g.inode[j].blk = f.inode[j].blk
  BY <1>0, <1>3, BlocksTyped
<1>6. SameEntries(f, g)
  BY <1>1, <1>3, <1>4 DEF SameEntries, Held, Holding
<1>7. Once(g) /\ Named(g) = Named(f)
  BY <1>2, <1>6, EntriesKept DEF Shape
<1>8. Disjoint(g)
  BY <1>1, <1>4, <1>5 DEF Shape, Disjoint
<1>9. Kinds(g) = Kinds(f)
  BY <1>3, <1>4 DEF Kinds
<1>10. Counts(g) = With(Counts(f), i, r.links)
  BY <1>0, <1>1, <1>4 DEF Counts, With
<1>11. Used(g) = Used(f)
  BY <1>4, <1>5 DEF Used
<1>12. Accounted(f) => Accounted(g)
  BY <1>1, <1>4, <1>11 DEF Accounted
<1> QED
  BY <1>1, <1>2, <1>4, <1>7, <1>8, <1>9, <1>10, <1>12 DEF Shape, g

\* A file that gives back its blocks.
LEMMA ClearShape ==
    ASSUME NEW f, Shape(f), NEW i \in Live(f), ~ IsDir(f, i)
    PROVE  LET g == ext2fs_file_clear(f, i) IN
           /\ Shape(g) /\ Alike(f, g)
           /\ Named(g) = Named(f)
<1> DEFINE g == ext2fs_file_clear(f, i)
<1>0. f \in FileSystem /\ i \in Ino
  BY BlocksTyped DEF Shape
<1>1. /\ g.imap = f.imap /\ g.bmap = f.bmap \ f.inode[i].blk
      /\ g.data = f.data /\ g.dotdot = f.dotdot
      /\ g.inode[i] = [f.inode[i] EXCEPT !.blk = {}]
      /\ \A j \in Ino : j # i => g.inode[j] = f.inode[j]
  BY <1>0 DEF ext2fs_file_clear, FileSystem
<1>2. g \in FileSystem
  BY <1>0, ClearTyped
<1>a. f.inode[i] \in Inode
  BY <1>0 DEF FileSystem
<1> HIDE DEF g
<1>b. g.inode[i].blk = {} /\ g.inode[i].kind = f.inode[i].kind
      /\ g.inode[i].links = f.inode[i].links
  BY <1>1, <1>a DEF Inode
<1>3. \A j \in Ino : /\ g.inode[j].kind = f.inode[j].kind
                     /\ g.inode[j].links = f.inode[j].links
                     /\ j # i => g.inode[j].blk = f.inode[j].blk
  BY <1>1, <1>b
<1>4. Live(g) = Live(f) /\ Dirs(g) = Dirs(f)
  <2>1. \A j \in f.imap : j \in Ino
    BY <1>0 DEF FileSystem
  <2>2. Live(g) = Live(f)
    BY <1>1, <1>3, <2>1 DEF Live
  <2>3. \A j \in Live(f) : j \in Ino
    BY <1>0, BlocksTyped
  <2> QED
    BY <1>3, <2>2, <2>3 DEF Dirs
<1>5. \A j \in Live(f) :
        /\ j \in Ino /\ f.inode[j].blk \subseteq f.bmap
        /\ j # i => /\ g.inode[j].blk = f.inode[j].blk
                    /\ f.inode[j].blk \cap f.inode[i].blk = {}
  BY <1>0, <1>3, BlocksTyped DEF Shape, Disjoint
<1>6. SameEntries(f, g)
  <2>1. i \notin Dirs(f)
    BY DEF Dirs, IsDir
  <2> QED
    BY <1>1, <1>3, <1>4, <2>1 DEF SameEntries, Held, Holding
<1>7. Once(g) /\ Named(g) = Named(f)
  BY <1>2, <1>6, EntriesKept DEF Shape
<1>8. Disjoint(g)
  <2>1. ASSUME NEW j \in Live(g) PROVE g.inode[j].blk \subseteq g.bmap
    <3>1. CASE j = i
      BY <1>b, <3>1
    <3>2. CASE j # i
      <4>1. /\ g.inode[j].blk = f.inode[j].blk /\ f.inode[j].blk \subseteq f.bmap
            /\ f.inode[j].blk \cap f.inode[i].blk = {}
        BY <1>4, <1>5, <3>2
      <4> QED
        BY <1>1, <4>1
    <3> QED
      BY <3>1, <3>2
  <2>2. ASSUME NEW j \in Live(g), NEW k \in Live(g), j # k
        PROVE  g.inode[j].blk \cap g.inode[k].blk = {}
    <3>1. f.inode[j].blk \cap f.inode[k].blk = {}
      BY <1>4, <2>2 DEF Shape, Disjoint
    <3>2. CASE j # i /\ k # i
      BY <1>4, <1>5, <3>1, <3>2
    <3>3. CASE j = i \/ k = i
      BY <1>b, <3>3
    <3> QED
      BY <3>2, <3>3
  <2> QED
    BY <2>1, <2>2 DEF Disjoint
<1>9. Kinds(g) = Kinds(f) /\ Counts(g) = Counts(f)
  BY <1>3, <1>4 DEF Kinds, Counts
<1>10. Used(g) = Used(f) \ f.inode[i].blk
  <2>1. ASSUME NEW c \in Used(g) PROVE c \in Used(f) /\ c \notin f.inode[i].blk
    <3>1. PICK j \in Live(g) : c \in g.inode[j].blk
      BY DEF Used
    <3>2. j # i
      BY <1>b, <3>1
    <3>3. c \in f.inode[j].blk /\ f.inode[j].blk \cap f.inode[i].blk = {}
      BY <1>4, <1>5, <3>1, <3>2
    <3> QED
      BY <1>4, <3>3 DEF Used
  <2>2. ASSUME NEW c \in Used(f), c \notin f.inode[i].blk PROVE c \in Used(g)
    <3>1. PICK j \in Live(f) : c \in f.inode[j].blk
      BY DEF Used
    <3>2. g.inode[j].blk = f.inode[j].blk
      BY <1>5, <2>2, <3>1
    <3> QED
      BY <1>4, <3>1, <3>2 DEF Used
  <2> QED
    BY <2>1, <2>2
<1>11. Alike(f, g)
  BY <1>1, <1>4, <1>9, <1>10 DEF Alike, Accounted
<1> QED
  BY <1>2, <1>7, <1>8, <1>11 DEF Shape, g

\* A new inode that is not a directory.
LEMMA BirthShape ==
    ASSUME NEW f, Shape(f), NEW e \in Ino, e \notin f.imap,
           NEW kind \in Kind \ {"dir"}
    PROVE  LET g == ext2fs_write_inode(ext2fs_inode_alloc(f, e), e,
                        [kind |-> kind, links |-> 1, blk |-> {}]) IN
           /\ Shape(g) /\ Live(g) = Live(f) \cup {e} /\ Dirs(g) = Dirs(f)
           /\ Named(g) = Named(f)
           /\ Kinds(g) = With(Kinds(f), e, kind)
           /\ Counts(g) = With(Counts(f), e, 1)
           /\ g.dotdot = f.dotdot
           /\ Accounted(f) => Accounted(g)
           /\ g.inode[e].blk = {}
<1> DEFINE r == [kind |-> kind, links |-> 1, blk |-> {}]
           a == ext2fs_inode_alloc(f, e)
           g == ext2fs_write_inode(a, e, r)
<1>0. f \in FileSystem
  BY DEF Shape
<1>a. r \in Inode
  BY WidthAssumption DEF Inode
<1>1. /\ g.imap = f.imap \cup {e} /\ g.bmap = f.bmap
      /\ g.data = f.data /\ g.dotdot = f.dotdot
      /\ g.inode[e] = r
      /\ \A j \in Ino : j # e => g.inode[j] = f.inode[j]
  BY <1>0 DEF ext2fs_write_inode, ext2fs_inode_alloc, FileSystem
<1>2. g \in FileSystem
  BY <1>0, <1>a, AllocTyped, WriteInodeTyped
<1>b. r.kind = kind /\ r.links = 1 /\ r.blk = {} /\ kind # "dir"
  OBVIOUS
<1> HIDE DEF g, r
<1>3. e \notin Live(f) /\ \A j \in Live(f) : j # e /\ j \in Ino /\ g.inode[j] = f.inode[j]
  <2>1. e \notin Live(f)
    BY DEF Live
  <2> QED
    BY <1>0, <1>1, <2>1, BlocksTyped
<1>4. Live(g) = Live(f) \cup {e}
  <2>1. \A j \in f.imap : j \in Ino /\ j # e
    BY <1>0 DEF FileSystem
  <2> QED
    BY <1>1, <1>b, <2>1 DEF Live
<1>5. Dirs(g) = Dirs(f)
  BY <1>1, <1>3, <1>4, <1>b DEF Dirs
<1>6. SameEntries(f, g)
  <2>1. \A d \in Dirs(f) : g.inode[d] = f.inode[d]
    BY <1>3 DEF Dirs
  <2> QED
    BY <1>1, <1>5, <2>1 DEF SameEntries, Held, Holding
<1>7. Once(g) /\ Named(g) = Named(f)
  BY <1>2, <1>6, EntriesKept DEF Shape
<1>8. Disjoint(g)
  <2>1. \A j \in Live(g) : g.inode[j].blk \subseteq g.bmap
    BY <1>1, <1>3, <1>4, <1>b DEF Shape, Disjoint
  <2>2. \A j, k \in Live(g) : j # k => g.inode[j].blk \cap g.inode[k].blk = {}
    BY <1>1, <1>3, <1>4, <1>b DEF Shape, Disjoint
  <2> QED
    BY <2>1, <2>2 DEF Disjoint
<1>9. Kinds(g) = With(Kinds(f), e, kind)
  BY <1>1, <1>3, <1>4, <1>b DEF Kinds, With
<1>10. Counts(g) = With(Counts(f), e, 1)
  BY <1>1, <1>3, <1>4, <1>b DEF Counts, With
<1>11. Used(g) = Used(f)
  BY <1>1, <1>3, <1>4, <1>b DEF Used
<1>12. Accounted(f) => Accounted(g)
  BY <1>1, <1>4, <1>11 DEF Accounted
<1> QED
  BY <1>1, <1>2, <1>4, <1>5, <1>7, <1>8, <1>9, <1>10, <1>12, <1>b DEF Shape, g, r

\* A new directory, with no name yet.
LEMMA NewDirShape ==
    ASSUME NEW f, Shape(f), NEW i \in Ino, i \notin f.imap, NEW d \in Ino,
           NEW b \in Block, b \notin f.bmap
    PROVE  LET g == NewDir(f, d, i, b) IN
           /\ Shape(g) /\ Live(g) = Live(f) \cup {i} /\ Dirs(g) = Dirs(f) \cup {i}
           /\ Named(g) = Named(f)
           /\ Kinds(g) = With(Kinds(f), i, "dir")
           /\ Counts(g) = With(Counts(f), i, 2)
           /\ g.dotdot = With(f.dotdot, i, d)
           /\ Accounted(f) => Accounted(g)
           /\ \A j \in Ino : j # i => g.inode[j] = f.inode[j]
           /\ \A j \in Live(f), n \in Name : Room(g, j, n) = Room(f, j, n)
<1> DEFINE r == [kind |-> "dir", links |-> 2, blk |-> {b}]
           g == NewDir(f, d, i, b)
<1>0. f \in FileSystem
  BY DEF Shape
<1>a. r \in Inode
  BY WidthAssumption DEF Inode, Kind
<1>1. /\ g.imap = f.imap \cup {i} /\ g.bmap = f.bmap \cup {b}
      /\ g.dotdot = With(f.dotdot, i, d)
      /\ g.inode[i] = r
      /\ \A j \in Ino : j # i => g.inode[j] = f.inode[j]
      /\ \A n \in Name : g.data[b][n] = NoIno
      /\ \A c \in Block : c # b => g.data[c] = f.data[c]
  BY <1>0 DEF NewDir, With, FileSystem
<1>2. g \in FileSystem
  <2>1. [m \in Name |-> NoIno] \in [Name -> Ino \cup {NoIno}]
    OBVIOUS
  <2> HIDE DEF r
  <2> QED
    BY <1>0, <1>a, <2>1 DEF FileSystem, NewDir, r
<1>b. r.kind = "dir" /\ r.links = 2 /\ r.blk = {b}
  OBVIOUS
<1> HIDE DEF g, r
<1>3. i \notin Live(f) /\ \A j \in Live(f) : j # i /\ j \in Ino /\ g.inode[j] = f.inode[j]
  <2>1. i \notin Live(f)
    BY DEF Live
  <2> QED
    BY <1>0, <1>1, <2>1, BlocksTyped
<1>4. Live(g) = Live(f) \cup {i}
  <2>1. \A j \in f.imap : j \in Ino /\ j # i
    BY <1>0 DEF FileSystem
  <2> QED
    BY <1>1, <1>b, <2>1 DEF Live
<1>5. Dirs(g) = Dirs(f) \cup {i}
  BY <1>1, <1>3, <1>4, <1>b DEF Dirs
<1>6. \A j \in Live(f) : /\ f.inode[j].blk \subseteq f.bmap
                         /\ \A c \in f.inode[j].blk : c \in Block /\ c # b
  BY <1>0, <1>3, BlocksTyped DEF Shape, Disjoint
<1>7. SameEntries(f, g)
  <2> SUFFICES ASSUME NEW e \in Ino, NEW n \in Name
               PROVE  /\ Held(g, e, n) = Held(f, e, n)
                      /\ \A c \in Held(f, e, n) : g.data[c][n] = f.data[c][n]
    BY DEF SameEntries
  <2>1. CASE e = i
    <3>1. e \notin Dirs(f)
      BY <1>3, <2>1 DEF Dirs
    <3>2. Holding(g, e, n) = {}
      BY <1>1, <1>b, <2>1 DEF Holding
    <3> QED
      BY <3>1, <3>2 DEF Held
  <2>2. CASE e # i /\ e \notin Dirs(f)
    BY <1>5, <2>2 DEF Held
  <2>3. CASE e # i /\ e \in Dirs(f)
    <3>1. e \in Live(f)
      BY <2>3 DEF Dirs
    <3>2. \A c \in f.inode[e].blk : g.data[c][n] = f.data[c][n]
      BY <1>1, <1>6, <3>1
    <3>3. g.inode[e].blk = f.inode[e].blk
      BY <1>3, <3>1
    <3>4. Holding(g, e, n) = Holding(f, e, n)
      BY <3>2, <3>3 DEF Holding
    <3>5. \A c \in Holding(f, e, n) : c \in f.inode[e].blk
      BY DEF Holding
    <3> QED
      BY <1>5, <2>3, <3>2, <3>4, <3>5 DEF Held
  <2> QED
    BY <2>1, <2>2, <2>3
<1>8. Once(g) /\ Named(g) = Named(f)
  BY <1>2, <1>7, EntriesKept DEF Shape
<1>9. Disjoint(g)
  <2>1. \A j \in Live(g) : g.inode[j].blk \subseteq g.bmap
    BY <1>1, <1>3, <1>4, <1>6, <1>b
  <2>2. ASSUME NEW j \in Live(g), NEW k \in Live(g), j # k
        PROVE  g.inode[j].blk \cap g.inode[k].blk = {}
    <3>1. CASE j \in Live(f) /\ k \in Live(f)
      <4>1. f.inode[j].blk \cap f.inode[k].blk = {}
        BY <2>2, <3>1 DEF Shape, Disjoint
      <4> QED
        BY <1>3, <3>1, <4>1
    <3>2. CASE j = i
      BY <1>1, <1>3, <1>4, <1>6, <1>b, <2>2, <3>2
    <3>3. CASE k = i
      BY <1>1, <1>3, <1>4, <1>6, <1>b, <2>2, <3>3
    <3> QED
      BY <1>4, <3>1, <3>2, <3>3
  <2> QED
    BY <2>1, <2>2 DEF Disjoint
<1>10. Kinds(g) = With(Kinds(f), i, "dir")
  BY <1>1, <1>3, <1>4, <1>b DEF Kinds, With
<1>11. Counts(g) = With(Counts(f), i, 2)
  BY <1>1, <1>3, <1>4, <1>b DEF Counts, With
<1>12. Used(g) = Used(f) \cup {b}
  BY <1>1, <1>3, <1>4, <1>b DEF Used
<1>13. Accounted(f) => Accounted(g)
  BY <1>1, <1>4, <1>12 DEF Accounted
<1>14. ASSUME NEW j \in Live(f), NEW n \in Name PROVE Room(g, j, n) = Room(f, j, n)
  <2>1. \A c \in f.inode[j].blk : g.data[c] = f.data[c]
    BY <1>1, <1>6
  <2>2. \A c \in f.inode[j].blk : Entries(g, c) = Entries(f, c)
    BY <2>1 DEF Entries
  <2>3. g.inode[j].blk = f.inode[j].blk
    BY <1>3
  <2> QED
    BY <2>1, <2>2, <2>3 DEF Room
<1> QED
  BY <1>1, <1>2, <1>4, <1>5, <1>8, <1>9, <1>10, <1>11, <1>13, <1>14 DEF Shape, g

\* A file, or an empty directory, that goes.
LEMMA KillShape ==
    ASSUME NEW f, Shape(f), NEW i \in Live(f), NEW r \in Inode,
           r.blk = f.inode[i].blk,
           \A n \in Name : Held(f, i, n) = {},
           NEW bad, "kill.inode" \notin bad
    PROVE  LET g == do_killfilebyinode(f, i, r, bad).fs IN
           /\ do_killfilebyinode(f, i, r, bad).rc = "ok"
           /\ Shape(g) /\ Live(g) = Live(f) \ {i} /\ Dirs(g) = Dirs(f) \ {i}
           /\ Named(g) = Named(f)
           /\ Kinds(g) = With(Kinds(f), i, "none")
           /\ Counts(g) = With(Counts(f), i, 0)
           /\ g.dotdot = f.dotdot
           /\ Accounted(f) /\ "kill.blocks" \notin bad => Accounted(g)
           /\ \A j \in Ino : j # i => g.inode[j] = f.inode[j]
<1> DEFINE k    == do_killfilebyinode(f, i, r, bad)
           dead == [r EXCEPT !.links = 0]
           gone == IF "kill.blocks" \in bad THEN {} ELSE r.blk
           g    == [f EXCEPT !.inode[i] = dead,
                             !.bmap     = @ \ gone,
                             !.imap     = @ \ {i}]
<1>0. f \in FileSystem /\ i \in Ino
  BY BlocksTyped DEF Shape
<1>1. k = Ret(g, "ok")
  BY DEF do_killfilebyinode
<1>2. k.fs = g /\ k.rc = "ok"
  BY <1>1 DEF Ret
<1>3. /\ g.imap = f.imap \ {i} /\ g.bmap = f.bmap \ gone
      /\ g.data = f.data /\ g.dotdot = f.dotdot
      /\ g.inode[i] = dead
      /\ \A j \in Ino : j # i => g.inode[j] = f.inode[j]
  BY <1>0 DEF FileSystem
<1>4. g \in FileSystem
  BY <1>0, <1>2, KillTyped DEF Result
<1>5. gone \subseteq f.inode[i].blk /\ ("kill.blocks" \notin bad => gone = f.inode[i].blk)
  OBVIOUS
<1> HIDE DEF g, dead, gone, k
<1>6. Live(g) = Live(f) \ {i} /\ Dirs(g) = Dirs(f) \ {i}
  <2>1. \A j \in f.imap : j \in Ino
    BY <1>0 DEF FileSystem
  <2>2. Live(g) = Live(f) \ {i}
    BY <1>3, <2>1 DEF Live
  <2>3. \A j \in Live(f) : j \in Ino
    BY <1>0, BlocksTyped
  <2> QED
    BY <1>3, <2>2, <2>3 DEF Dirs
<1>7. \A j \in Live(f) \ {i} :
        /\ j \in Ino /\ g.inode[j] = f.inode[j]
        /\ f.inode[j].blk \subseteq f.bmap
        /\ f.inode[j].blk \cap f.inode[i].blk = {}
  BY <1>0, <1>3, BlocksTyped DEF Shape, Disjoint
<1>8. SameEntries(f, g)
  <2> SUFFICES ASSUME NEW e \in Ino, NEW n \in Name
               PROVE  /\ Held(g, e, n) = Held(f, e, n)
                      /\ \A c \in Held(f, e, n) : g.data[c][n] = f.data[c][n]
    BY DEF SameEntries
  <2>1. CASE e = i
    BY <1>3, <1>6, <2>1 DEF Held
  <2>2. CASE e # i
    BY <1>3, <1>6, <2>2 DEF Held, Holding
  <2> QED
    BY <2>1, <2>2
<1>9. Once(g) /\ Named(g) = Named(f)
  BY <1>4, <1>8, EntriesKept DEF Shape
<1>10. Disjoint(g)
  <2>1. ASSUME NEW j \in Live(g) PROVE g.inode[j].blk \subseteq g.bmap
    BY <1>3, <1>5, <1>6, <1>7
  <2>2. ASSUME NEW j \in Live(g), NEW l \in Live(g), j # l
        PROVE  g.inode[j].blk \cap g.inode[l].blk = {}
    BY <1>6, <1>7, <2>2 DEF Shape, Disjoint
  <2> QED
    BY <2>1, <2>2 DEF Disjoint
<1>11. Kinds(g) = With(Kinds(f), i, "none")
  BY <1>3, <1>6, <1>7 DEF Kinds, With
<1>12. Counts(g) = With(Counts(f), i, 0)
  BY <1>3, <1>6, <1>7 DEF Counts, With
<1>13. ASSUME Accounted(f), "kill.blocks" \notin bad PROVE Accounted(g)
  <2>1. Used(g) = Used(f) \ f.inode[i].blk
    <3>1. ASSUME NEW c \in Used(g) PROVE c \in Used(f) /\ c \notin f.inode[i].blk
      <4>1. PICK j \in Live(g) : c \in g.inode[j].blk
        BY DEF Used
      <4>2. j \in Live(f) /\ c \in f.inode[j].blk /\ f.inode[j].blk \cap f.inode[i].blk = {}
        BY <1>6, <1>7, <4>1
      <4> QED
        BY <4>2 DEF Used
    <3>2. ASSUME NEW c \in Used(f), c \notin f.inode[i].blk PROVE c \in Used(g)
      <4>1. PICK j \in Live(f) : c \in f.inode[j].blk
        BY DEF Used
      <4>2. j \in Live(g) /\ c \in g.inode[j].blk
        BY <1>6, <1>7, <3>2, <4>1
      <4> QED
        BY <4>2 DEF Used
    <3> QED
      BY <3>1, <3>2
  <2> QED
    BY <1>3, <1>5, <1>6, <1>13, <2>1 DEF Accounted
<1>14. Shape(g)
  BY <1>4, <1>9, <1>10 DEF Shape
<1> QED
  BY <1>2, <1>3, <1>6, <1>9, <1>11, <1>12, <1>13, <1>14 DEF k

\* ".." of a directory: nothing else.
LEMMA DotdotShape ==
    ASSUME NEW f, Shape(f), NEW i \in Ino, NEW d \in Ino
    PROVE  LET g == do_fix_dotdot(f, i, d) IN
           /\ Shape(g) /\ Live(g) = Live(f) /\ Dirs(g) = Dirs(f)
           /\ g.inode = f.inode
           /\ Named(g) = Named(f) /\ Kinds(g) = Kinds(f) /\ Counts(g) = Counts(f)
           /\ g.dotdot = With(f.dotdot, i, d)
           /\ Accounted(f) => Accounted(g)
<1> DEFINE g == do_fix_dotdot(f, i, d)
<1>0. f \in FileSystem
  BY DEF Shape
<1>1. /\ g.imap = f.imap /\ g.bmap = f.bmap /\ g.data = f.data
      /\ g.inode = f.inode /\ g.dotdot = With(f.dotdot, i, d)
  BY <1>0 DEF do_fix_dotdot, With, FileSystem
<1>2. g \in FileSystem
  BY <1>0 DEF do_fix_dotdot, FileSystem
<1> HIDE DEF g
<1>3. Live(g) = Live(f) /\ Dirs(g) = Dirs(f)
  BY <1>1 DEF Live, Dirs
<1>4. SameEntries(f, g)
  BY <1>1, <1>3 DEF SameEntries, Held, Holding
<1>5. Once(g) /\ Named(g) = Named(f)
  BY <1>2, <1>4, EntriesKept DEF Shape
<1>6. Disjoint(g)
  BY <1>1, <1>3 DEF Shape, Disjoint
<1>7. Kinds(g) = Kinds(f) /\ Counts(g) = Counts(f)
  BY <1>1, <1>3 DEF Kinds, Counts
<1>8. Used(g) = Used(f)
  BY <1>1, <1>3 DEF Used
<1> QED
  BY <1>1, <1>2, <1>3, <1>5, <1>6, <1>7, <1>8 DEF Shape, Accounted, g

-----------------------------------------------------------------------------
(* What each handler makes of the tree *)

SameTree(f, g) ==
    /\ Named(g) = Named(f) /\ Kinds(g) = Kinds(f) /\ Counts(g) = Counts(f)
    /\ g.dotdot = f.dotdot

\* A new file i of kind k, called n in d.
Made(f, g, d, n, i, k) ==
    /\ Named(g) = Put(Named(f), d, n, i)
    /\ Kinds(g) = With(Kinds(f), i, k)
    /\ Counts(g) = With(Counts(f), i, 1)
    /\ g.dotdot = f.dotdot

\* When no call fails, a handler that does not reply "ok" changed nothing, and
\* none leaks an inode or a block.
Clean(f, r) ==
    /\ r.rc # "ok" => SameTree(f, r.fs)
    /\ Accounted(f) => Accounted(r.fs)

LEMMA Unchanged ==
    ASSUME NEW f, NEW r, r.fs = f
    PROVE  Clean(f, r) /\ SameTree(f, r.fs)
  BY DEF Clean, SameTree

\* The loop around ext2fs_link and ext2fs_expand_dir adds the name, or fails
\* and shows nothing.
LEMMA AddEntryTree ==
    ASSUME NEW f, Shape(f), NEW d \in Dirs(f), NEW n \in Name, NEW i \in Ino,
           NEW bad, Holding(f, d, n) = {}
    PROVE  LET lk == AddEntry(f, d, n, i, bad) IN
           /\ Shape(lk.fs) /\ Alike(f, lk.fs) /\ lk.fs.imap = f.imap
           /\ lk.rc = "ok" => Named(lk.fs) = Put(Named(f), d, n, i)
           /\ lk.rc # "ok" => Named(lk.fs) = Named(f)
           /\ \A j \in Ino : /\ lk.fs.inode[j].kind = f.inode[j].kind
                             /\ lk.fs.inode[j].links = f.inode[j].links
                             /\ j # d => lk.fs.inode[j] = f.inode[j]
<1> DEFINE lk   == AddEntry(f, d, n, i, bad)
           full == Room(f, d, n) = {}
           g    == IF full THEN ext2fs_expand_dir(f, d) ELSE f
           l    == ext2fs_link(g, d, n, i)
<1>0. f \in FileSystem /\ d \in Live(f) /\ d \in Ino
  BY BlocksTyped DEF Shape
<1>1. CASE full /\ (FreeBlocks(f) = {} \/ "dir.expand" \in bad)
  <2>1. lk = Ret(f, "ENOSPC")
    BY <1>1 DEF AddEntry
  <2> HIDE DEF lk
  <2>2. lk.fs = f /\ lk.rc # "ok"
    BY <2>1 DEF Ret
  <2> QED
    BY <2>2 DEF lk, Alike
<1>2. CASE ~ (full /\ (FreeBlocks(f) = {} \/ "dir.expand" \in bad))
  <2>1. /\ Shape(g) /\ Alike(f, g) /\ g.imap = f.imap
        /\ Named(g) = Named(f)
        /\ \A j \in Ino : /\ g.inode[j].kind = f.inode[j].kind
                          /\ g.inode[j].links = f.inode[j].links
                          /\ j # d => g.inode[j] = f.inode[j]
        /\ Room(g, d, n) # {}
    <3>1. CASE full
      <4>1. FreeBlocks(f) # {}
        BY <1>2, <3>1
      <4>2. g = ext2fs_expand_dir(f, d)
        BY <3>1
      <4> HIDE DEF g
      <4>3. g.imap = f.imap
        BY <1>0, <4>1, <4>2, ExpandFields
      <4> QED
        BY <1>0, <4>1, <4>2, <4>3, ExpandShape
    <3>2. CASE ~ full
      <4>1. g = f
        BY <3>2
      <4> HIDE DEF g
      <4>2. Alike(f, f)
        BY DEF Alike
      <4> QED
        BY <3>2, <4>1, <4>2
    <3> QED
      BY <3>1, <3>2
  <2>2. lk = IF "dir.link" \in bad THEN Ret(g, "EIO") ELSE Ret(l, "ok")
    BY <1>2 DEF AddEntry
  <2> HIDE DEF lk, g
  <2>3. d \in Dirs(g)
    BY <2>1 DEF Alike
  <2>4. Holding(g, d, n) = {}
    <3>1. Named(f)[d][n] = NoIno
      BY <1>0, NamedAt DEF Held
    <3>2. Named(g)[d][n] = ext2fs_namei(g, d, n)
      BY <1>0, <2>3 DEF Named
    <3> QED
      BY <2>1, <3>1, <3>2, Absent
  <2>5. /\ Shape(l) /\ Alike(g, l) /\ l.inode = g.inode
        /\ Named(l) = Put(Named(g), d, n, i)
    BY <2>1, <2>3, <2>4, LinkShape
  <2>6. l.imap = g.imap
    BY DEF ext2fs_link, SetEntry
  <2> HIDE DEF l
  <2>7. Alike(f, l)
    BY <2>1, <2>5 DEF Alike
  <2>8. CASE "dir.link" \in bad
    <3>1. lk.fs = g /\ lk.rc # "ok"
      BY <2>2, <2>8 DEF Ret
    <3> QED
      BY <2>1, <3>1 DEF lk
  <2>9. CASE "dir.link" \notin bad
    <3>1. lk.fs = l /\ lk.rc = "ok"
      BY <2>2, <2>9 DEF Ret
    <3> QED
      BY <2>1, <2>5, <2>6, <2>7, <3>1 DEF lk
  <2> QED
    BY <2>8, <2>9
<1> QED
  BY <1>1, <1>2

\* An inode read and written back as it was.
LEMMA SameWritten ==
    ASSUME NEW f \in FileSystem, NEW i \in Live(f), NEW site, NEW bad
    PROVE  /\ do_writeinode(f, i, f.inode[i], site, bad).fs = f
           /\ bad = {} => do_writeinode(f, i, f.inode[i], site, bad).rc = "ok"
<1>1. i \in Ino /\ f.inode[i] \in Inode /\ f.inode[i].links >= 1
  BY LiveLinks
<1>2. do_writeinode(f, i, f.inode[i], site, bad).fs = f
  BY <1>1, WriteSame
<1>3. ~ (f.inode[i].links < 1)
  BY <1>1, WidthAssumption DEF Inode
<1> QED
  BY <1>2, <1>3 DEF do_writeinode, Ret

\* do_open writes the inode back as it was.
LEMMA OpenTree ==
    ASSUME NEW f \in FileSystem, NEW d, NEW n, NEW bad,
           ext2fs_namei(f, d, n) \in Live(f) \cup {NoIno}
    PROVE  /\ do_open(f, d, n, bad).fs = f
           /\ bad = {} /\ ext2fs_namei(f, d, n) # NoIno => do_open(f, d, n, bad).rc = "ok"
           /\ ext2fs_namei(f, d, n) = NoIno => do_open(f, d, n, bad).rc # "ok"
<1> DEFINE i == ext2fs_namei(f, d, n)
           w == do_writeinode(f, i, f.inode[i], "open.atime", bad)
           o == do_open(f, d, n, bad)
<1>1. CASE i = NoIno \/ "readinode" \in bad
  <2>1. o = Ret(f, "ENOENT")
    BY <1>1 DEF do_open
  <2> QED
    BY <1>1, <2>1 DEF Ret
<1>2. CASE ~ (i = NoIno \/ "readinode" \in bad)
  <2>1. w.fs = f /\ (bad = {} => w.rc = "ok")
    BY <1>2, SameWritten
  <2>2. o = Ret(w.fs, IF w.rc = "ok" THEN "ok" ELSE "ENOENT")
    BY <1>2 DEF do_open
  <2> HIDE DEF w, o, i
  <2>3. o.fs = w.fs /\ o.rc = IF w.rc = "ok" THEN "ok" ELSE "ENOENT"
    BY <2>2 DEF Ret
  <2> QED
    BY <1>2, <2>1, <2>3 DEF i, o
<1> QED
  BY <1>1, <1>2

\* mknod, and the part of create and symlink that makes the file.
LEMMA DoCreateTree ==
    ASSUME NEW f, Shape(f), NEW d \in Dirs(f), NEW n \in Name,
           NEW kind \in Kind \ {"dir"}, NEW ni \in ext2fs_new_inode(f), NEW bad,
           Holding(f, d, n) = {}
    PROVE  LET c == do_create(f, d, n, kind, ni, bad) IN
           /\ c.rc = "ok" => /\ Shape(c.fs) /\ ni \in Ino \ f.imap /\ ni \in Live(c.fs)
                             /\ Made(f, c.fs, d, n, ni, kind)
                             /\ d \in Dirs(c.fs) /\ c.fs.inode[ni].blk = {}
           /\ bad = {} => Clean(f, c)
<1> DEFINE lk == AddEntry(f, d, n, ni, bad)
           g  == ext2fs_inode_alloc(lk.fs, ni)
           h  == ext2fs_write_inode(g, ni, [kind |-> kind, links |-> 1, blk |-> {}])
           w  == do_writeinode(h, d, h.inode[d], "create.parent", bad)
           c  == do_create(f, d, n, kind, ni, bad)
<1>0. f \in FileSystem /\ d \in Live(f) /\ d \in Ino
  BY BlocksTyped DEF Shape
<1>1. c = IF "readinode" \in bad THEN Ret(f, "EIO")
          ELSE IF ni = NoIno THEN Ret(f, "ENOMEM")
          ELSE IF lk.rc # "ok" THEN lk
          ELSE IF "create.write_new_inode" \in bad THEN Ret(g, "EIO")
          ELSE w
  BY DEF do_create
<1> HIDE DEF c
<1>2. CASE "readinode" \in bad \/ ni = NoIno
  <2>1. c.fs = f /\ c.rc # "ok"
    BY <1>1, <1>2 DEF Ret
  <2>2. Clean(f, c)
    BY <2>1, Unchanged
  <2> QED
    BY <2>1, <2>2 DEF c
<1>3. CASE ~ ("readinode" \in bad \/ ni = NoIno)
  <2>1. ni \in Ino \ f.imap
    BY <1>3 DEF ext2fs_new_inode, FreeInodes
  <2>2. /\ Shape(lk.fs) /\ Alike(f, lk.fs) /\ lk.fs.imap = f.imap
        /\ lk.rc = "ok" => Named(lk.fs) = Put(Named(f), d, n, ni)
        /\ lk.rc # "ok" => Named(lk.fs) = Named(f)
    BY <2>1, AddEntryTree
  <2> HIDE DEF lk
  <2>3. CASE lk.rc # "ok"
    <3>1. c = lk
      BY <1>1, <1>3, <2>3
    <3>2. Clean(f, lk)
      BY <2>2, <2>3 DEF Clean, SameTree, Alike
    <3> QED
      BY <2>3, <3>1, <3>2 DEF c
  <2>4. CASE lk.rc = "ok"
    <3>1. /\ Shape(h) /\ Live(h) = Live(lk.fs) \cup {ni} /\ Dirs(h) = Dirs(lk.fs)
          /\ Named(h) = Named(lk.fs)
          /\ Kinds(h) = With(Kinds(lk.fs), ni, kind)
          /\ Counts(h) = With(Counts(lk.fs), ni, 1)
          /\ h.dotdot = lk.fs.dotdot
          /\ Accounted(lk.fs) => Accounted(h)
          /\ h.inode[ni].blk = {}
      BY <2>1, <2>2, BirthShape
    <3> HIDE DEF h
    <3>2. d \in Dirs(h) /\ d \in Live(h) /\ h \in FileSystem
      BY <1>0, <2>2, <3>1 DEF Alike, Shape
    <3>3. w.fs = h /\ (bad = {} => w.rc = "ok")
      BY <3>2, SameWritten
    <3> HIDE DEF w
    <3>4. Made(f, h, d, n, ni, kind)
      BY <2>2, <2>4, <3>1 DEF Made, Alike
    <3>5. Accounted(f) => Accounted(h)
      BY <2>2, <3>1 DEF Alike
    <3>6. CASE "create.write_new_inode" \in bad
      <4>1. c.rc # "ok"
        BY <1>1, <1>3, <2>4, <3>6 DEF Ret
      <4> QED
        BY <3>6, <4>1 DEF c
    <3>7. CASE "create.write_new_inode" \notin bad
      <4>1. c = w
        BY <1>1, <1>3, <2>4, <3>7
      <4>2. bad = {} => Clean(f, c)
        BY <3>3, <3>5, <4>1 DEF Clean
      <4> QED
        BY <2>1, <3>1, <3>2, <3>3, <3>4, <4>1, <4>2 DEF c
    <3> QED
      BY <3>6, <3>7
  <2> QED
    BY <2>3, <2>4
<1> QED
  BY <1>2, <1>3

\* open for a name that is not there, do_create, and open for the name that
\* now is.
LEMMA OpCreateTree ==
    ASSUME NEW f, Shape(f), NEW d \in Dirs(f), NEW n \in Name,
           NEW ni \in ext2fs_new_inode(f), NEW bad,
           ext2fs_namei(f, d, n) = NoIno
    PROVE  LET c == op_create(f, d, n, ni, bad) IN
           /\ c.rc = "ok" => ni \in Ino \ f.imap /\ Made(f, c.fs, d, n, ni, "reg")
           /\ bad = {} => Clean(f, c)
<1> DEFINE first == op_open(f, d, n, bad)
           made  == do_create(f, d, n, "reg", ni, bad)
           again == op_open(made.fs, d, n, bad)
           c     == op_create(f, d, n, ni, bad)
<1>0. f \in FileSystem /\ d \in Ino /\ Holding(f, d, n) = {}
  BY BlocksTyped, Absent DEF Shape
<1>1. first.fs = f /\ first.rc # "ok"
  BY <1>0, OpenTree DEF op_open
<1>2. c = IF made.rc # "ok" THEN made
          ELSE Ret(again.fs, IF again.rc = "ok" THEN "ok" ELSE "EIO")
  BY <1>1 DEF op_create
<1>3. /\ made.rc = "ok" => /\ Shape(made.fs) /\ ni \in Ino \ f.imap
                           /\ ni \in Live(made.fs)
                           /\ Made(f, made.fs, d, n, ni, "reg")
                           /\ d \in Dirs(made.fs)
      /\ bad = {} => Clean(f, made)
  BY <1>0, DoCreateTree DEF Kind
<1> HIDE DEF c, made, first
<1>4. CASE made.rc # "ok"
  <2>1. c = made
    BY <1>2, <1>4
  <2> QED
    BY <1>3, <1>4, <2>1 DEF c
<1>5. CASE made.rc = "ok"
  <2>1. ext2fs_namei(made.fs, d, n) = ni
    <3>1. Named(made.fs)[d][n] = ext2fs_namei(made.fs, d, n)
      BY <1>0, <1>3, <1>5 DEF Named
    <3>2. Named(f) \in [Ino -> [Name -> Ino \cup {NoIno}]]
      BY <1>0, NamedTyped
    <3>3. Put(Named(f), d, n, ni)[d][n] = ni
      BY <1>0, <3>2 DEF Put
    <3> QED
      BY <1>3, <1>5, <3>1, <3>3 DEF Made
  <2>2. made.fs \in FileSystem /\ ni # NoIno
    BY <1>3, <1>5, RootAssumption DEF Shape
  <2>3. again.fs = made.fs /\ (bad = {} => again.rc = "ok")
    BY <1>3, <1>5, <2>1, <2>2, OpenTree DEF op_open
  <2> HIDE DEF again
  <2>4. c.fs = made.fs /\ (bad = {} => c.rc = "ok")
    BY <1>2, <1>5, <2>3 DEF Ret
  <2>5. bad = {} => Clean(f, c)
    BY <1>3, <2>4 DEF Clean
  <2> QED
    BY <1>3, <1>5, <2>4, <2>5 DEF c
<1> QED
  BY <1>4, <1>5

\* A long target that finds no block leaves the new name.
LEMMA OpSymlinkTree ==
    ASSUME NEW f, Shape(f), NEW d \in Dirs(f), NEW n \in Name, NEW long,
           NEW ni \in ext2fs_new_inode(f), NEW bad,
           ext2fs_namei(f, d, n) = NoIno
    PROVE  LET c == op_symlink(f, d, n, long, ni, bad) IN
           /\ c.rc = "ok" => ni \in Ino \ f.imap /\ Made(f, c.fs, d, n, ni, "lnk")
           /\ bad = {} /\ c.rc # "ok" =>
                \/ SameTree(f, c.fs)
                \/ /\ ni \in Ino \ f.imap /\ Made(f, c.fs, d, n, ni, "lnk")
                   /\ ni \in Live(c.fs) /\ c.fs.inode[ni].blk = {}
           /\ bad = {} /\ Accounted(f) => Accounted(c.fs)
<1> DEFINE made   == do_create(f, d, n, "lnk", ni, bad)
           opened == do_open(made.fs, d, n, bad)
           grown  == ext2fs_file_grow(opened.fs, ni)
           c      == op_symlink(f, d, n, long, ni, bad)
<1>0. f \in FileSystem /\ d \in Ino /\ Holding(f, d, n) = {}
  BY BlocksTyped, Absent DEF Shape
<1>2. c = IF made.rc # "ok" \/ ~ long THEN made
          ELSE IF opened.rc # "ok" THEN Ret(opened.fs, "EIO")
          ELSE IF FreeBlocks(opened.fs) = {} \/ "write.data" \in bad
               THEN Ret(opened.fs, "EIO")
          ELSE Ret(grown, IF "symlink.release" \in bad THEN "EIO" ELSE "ok")
  BY DEF op_symlink
<1>3. /\ made.rc = "ok" => /\ Shape(made.fs) /\ ni \in Ino \ f.imap
                           /\ ni \in Live(made.fs)
                           /\ Made(f, made.fs, d, n, ni, "lnk")
                           /\ d \in Dirs(made.fs) /\ made.fs.inode[ni].blk = {}
      /\ bad = {} => Clean(f, made)
  BY <1>0, DoCreateTree DEF Kind
<1> HIDE DEF c, made
<1>4. CASE made.rc # "ok" \/ ~ long
  <2>1. c = made
    BY <1>2, <1>4
  <2> QED
    BY <1>3, <2>1 DEF c, Clean
<1>5. CASE made.rc = "ok" /\ long
  <2>1. ext2fs_namei(made.fs, d, n) = ni
    <3>1. Named(made.fs)[d][n] = ext2fs_namei(made.fs, d, n)
      BY <1>0, <1>3, <1>5 DEF Named
    <3>2. Named(f) \in [Ino -> [Name -> Ino \cup {NoIno}]]
      BY <1>0, NamedTyped
    <3>3. Put(Named(f), d, n, ni)[d][n] = ni
      BY <1>0, <3>2 DEF Put
    <3> QED
      BY <1>3, <1>5, <3>1, <3>3 DEF Made
  <2>2. made.fs \in FileSystem
    BY <1>3, <1>5 DEF Shape
  <2>3. opened.fs = made.fs
    BY <1>3, <1>5, <2>1, <2>2, OpenTree
  <2> HIDE DEF opened
  <2>4. CASE opened.rc # "ok" \/ FreeBlocks(opened.fs) = {} \/ "write.data" \in bad
    <3>1. c.fs = made.fs /\ c.rc # "ok"
      BY <1>2, <1>5, <2>3, <2>4 DEF Ret
    <3> QED
      BY <1>3, <1>5, <3>1 DEF c, Clean
  <2>5. CASE ~ (opened.rc # "ok" \/ FreeBlocks(opened.fs) = {} \/ "write.data" \in bad)
    <3>1. Shape(grown) /\ Alike(made.fs, grown) /\ Named(grown) = Named(made.fs)
      BY <1>3, <1>5, <2>3, <2>5, GrowShape
    <3> HIDE DEF grown
    <3>2. c.fs = grown /\ (bad = {} => c.rc = "ok")
      BY <1>2, <1>5, <2>5 DEF Ret
    <3>3. Made(f, grown, d, n, ni, "lnk")
      BY <1>3, <1>5, <3>1 DEF Made, Alike
    <3> QED
      BY <1>3, <1>5, <3>1, <3>2, <3>3 DEF c, Clean, Alike
  <2> QED
    BY <2>4, <2>5
<1> QED
  BY <1>4, <1>5

\* do_writeinode of an inode that keeps a link.
LEMMA WriteTree ==
    ASSUME NEW f, Shape(f), NEW i \in Live(f), NEW r \in Inode,
           r.kind = f.inode[i].kind, r.links >= 1, r.blk = f.inode[i].blk,
           NEW site, NEW bad
    PROVE  LET w == do_writeinode(f, i, r, site, bad) IN
           /\ w.rc = "ok" <=> site \notin bad
           /\ Shape(w.fs) /\ Live(w.fs) = Live(f) /\ Dirs(w.fs) = Dirs(f)
           /\ Named(w.fs) = Named(f) /\ Kinds(w.fs) = Kinds(f)
           /\ w.rc = "ok" => /\ Counts(w.fs) = With(Counts(f), i, r.links)
                             /\ w.fs.inode[i] = r
           /\ w.rc # "ok" => w.fs = f
           /\ w.fs.dotdot = f.dotdot
           /\ Accounted(f) => Accounted(w.fs)
           /\ \A j \in Ino : j # i => w.fs.inode[j] = f.inode[j]
<1> DEFINE w == do_writeinode(f, i, r, site, bad)
           g == ext2fs_write_inode(f, i, r)
<1>1. ~ (r.links < 1)
  BY WidthAssumption DEF Inode
<1>2. w = IF site \in bad THEN Ret(f, "EIO") ELSE Ret(g, "ok")
  BY <1>1 DEF do_writeinode
<1>3. /\ Shape(g) /\ Live(g) = Live(f) /\ Dirs(g) = Dirs(f)
      /\ Named(g) = Named(f) /\ Kinds(g) = Kinds(f)
      /\ Counts(g) = With(Counts(f), i, r.links)
      /\ g.dotdot = f.dotdot
      /\ Accounted(f) => Accounted(g)
      /\ g.inode[i] = r
      /\ \A j \in Ino : j # i => g.inode[j] = f.inode[j]
  BY WriteShape
<1> HIDE DEF w, g
<1>4. CASE site \in bad
  <2>1. w.fs = f /\ w.rc # "ok"
    BY <1>2, <1>4 DEF Ret
  <2> QED
    BY <1>4, <2>1 DEF w
<1>5. CASE site \notin bad
  <2>1. w.fs = g /\ w.rc = "ok"
    BY <1>2, <1>5 DEF Ret
  <2> QED
    BY <1>3, <1>5, <2>1 DEF w
<1> QED
  BY <1>4, <1>5

\* A count goes up by one, or down by one but never below 1.
LEMMA CountUp ==
    ASSUME NEW r \in Inode, r.links + 1 < LinkMod
    PROVE  LET s == [r EXCEPT !.links = (@ + 1) % LinkMod] IN
           /\ s \in Inode /\ s.kind = r.kind /\ s.blk = r.blk
           /\ s.links = r.links + 1 /\ s.links >= 1
<1> DEFINE s == [r EXCEPT !.links = (@ + 1) % LinkMod]
           k == (r.links + 1) % LinkMod
<1>1. s = [r EXCEPT !.links = k]
  OBVIOUS
<1>2. s \in Inode
  BY LinksTyped
<1>3. r.links \in Nat /\ LinkMod \in Nat
  BY WidthAssumption DEF Inode
<1>4. r.links + 1 \in 0 .. LinkMod - 1
  BY <1>3
<1>5. k = r.links + 1 /\ k >= 1
  BY <1>3, <1>4
<1> HIDE DEF s, k
<1>6. s.kind = r.kind /\ s.blk = r.blk /\ s.links = k
  BY <1>1, Relinked
<1> QED
  BY <1>2, <1>5, <1>6 DEF s

LEMMA CountDown ==
    ASSUME NEW r \in Inode, r.links >= 1
    PROVE  LET s == [r EXCEPT !.links = IF @ > 1 THEN @ - 1 ELSE @] IN
           /\ s \in Inode /\ s.kind = r.kind /\ s.blk = r.blk
           /\ s.links = (IF r.links > 1 THEN r.links - 1 ELSE r.links) /\ s.links >= 1
<1> DEFINE s == [r EXCEPT !.links = IF @ > 1 THEN @ - 1 ELSE @]
           k == IF r.links > 1 THEN r.links - 1 ELSE r.links
<1>1. s = [r EXCEPT !.links = k]
  OBVIOUS
<1>2. s \in Inode
  BY LinksTyped
<1>3. r.links \in Nat
  BY WidthAssumption DEF Inode
<1>4. k >= 1
  BY <1>3
<1> HIDE DEF s
<1>5. s.kind = r.kind /\ s.blk = r.blk /\ s.links = k
  BY <1>1, Relinked
<1> QED
  BY <1>2, <1>4, <1>5 DEF s

LEMMA CountOf ==
    ASSUME NEW f \in FileSystem, NEW i \in Live(f)
    PROVE  Counts(f)[i] = f.inode[i].links /\ Kinds(f)[i] = f.inode[i].kind
           /\ i \in Ino
  BY BlocksTyped DEF Counts, Kinds

\* A new directory i, called n in d.
DirMade(f, g, d, n, i) ==
    /\ Named(g) = Put(Named(f), d, n, i)
    /\ Kinds(g) = With(Kinds(f), i, "dir")
    /\ Counts(g) = With(With(Counts(f), i, 2), d, Counts(f)[d] + 1)
    /\ g.dotdot = With(f.dotdot, i, d)

\* ext2fs_mkdir, with room in the directory.
LEMMA MkdirTree ==
    ASSUME NEW f, Shape(f), NEW d \in Dirs(f), NEW n \in Name,
           NEW i \in Ino, i \notin f.imap, FreeBlocks(f) # {}, Room(f, d, n) # {},
           f.inode[d].links + 1 < LinkMod, Holding(f, d, n) = {}
    PROVE  LET h == ext2fs_mkdir(f, d, n, i) IN
           /\ Shape(h) /\ Live(h) = Live(f) \cup {i}
           /\ DirMade(f, h, d, n, i)
           /\ Accounted(f) => Accounted(h)
<1> DEFINE b == ext2fs_new_block(f)
           g == NewDir(f, d, i, b)
           l == ext2fs_link(g, d, n, i)
           r == [l.inode[d] EXCEPT !.links = (@ + 1) % LinkMod]
           h == ext2fs_mkdir(f, d, n, i)
<1>0. f \in FileSystem /\ d \in Live(f) /\ d \in Ino
  BY BlocksTyped DEF Shape
<1>1. b \in Block /\ b \notin f.bmap
  BY <1>0, NewBlockTyped
<1>2. h = [l EXCEPT !.inode[d].links = (@ + 1) % LinkMod]
  BY DEF ext2fs_mkdir, NewDir
<1> HIDE DEF b
<1>3. /\ Shape(g) /\ Live(g) = Live(f) \cup {i} /\ Dirs(g) = Dirs(f) \cup {i}
      /\ Named(g) = Named(f)
      /\ Kinds(g) = With(Kinds(f), i, "dir")
      /\ Counts(g) = With(Counts(f), i, 2)
      /\ g.dotdot = With(f.dotdot, i, d)
      /\ Accounted(f) => Accounted(g)
      /\ \A j \in Ino : j # i => g.inode[j] = f.inode[j]
      /\ Room(g, d, n) = Room(f, d, n)
  BY <1>0, <1>1, NewDirShape
<1> HIDE DEF g, h
<1>4. Holding(g, d, n) = {}
  <2>1. Named(f)[d][n] = NoIno
    BY <1>0, NamedAt DEF Held
  <2>2. Named(g)[d][n] = ext2fs_namei(g, d, n)
    BY <1>0, <1>3 DEF Named
  <2> QED
    BY <1>3, <2>1, <2>2, Absent
<1>5. /\ Shape(l) /\ Alike(g, l) /\ l.inode = g.inode
      /\ Named(l) = Put(Named(g), d, n, i)
  BY <1>3, <1>4, LinkShape
<1> HIDE DEF l
<1>6. i # d
  BY <1>0 DEF Live
<1>7. l \in FileSystem /\ d \in Live(l) /\ l.inode[d] = f.inode[d]
  BY <1>0, <1>3, <1>5, <1>6 DEF Shape, Alike
<1>8. l.inode[d] \in Inode
  BY <1>7, LiveLinks
<1>9. /\ r \in Inode /\ r.kind = l.inode[d].kind /\ r.blk = l.inode[d].blk
      /\ r.links = f.inode[d].links + 1 /\ r.links >= 1
  BY <1>7, <1>8, CountUp
<1>10. h = ext2fs_write_inode(l, d, r)
  BY <1>0, <1>2, <1>7 DEF ext2fs_write_inode, FileSystem
<1> HIDE DEF r
<1>11. /\ Shape(h) /\ Live(h) = Live(l)
       /\ Named(h) = Named(l) /\ Kinds(h) = Kinds(l)
       /\ Counts(h) = With(Counts(l), d, r.links)
       /\ h.dotdot = l.dotdot
       /\ Accounted(l) => Accounted(h)
  BY <1>5, <1>7, <1>9, <1>10, WriteShape
<1>12. Counts(f)[d] = f.inode[d].links
  BY <1>0, CountOf
<1>13. DirMade(f, h, d, n, i)
  BY <1>3, <1>5, <1>9, <1>11, <1>12 DEF DirMade, Alike
<1>14. Live(h) = Live(f) \cup {i} /\ (Accounted(f) => Accounted(h))
  BY <1>3, <1>5, <1>11 DEF Alike
<1> QED
  BY <1>11, <1>13, <1>14 DEF h

\* op_mkdir makes the directory, or fails and shows nothing.
LEMMA OpMkdirTree ==
    ASSUME NEW f, Shape(f), NEW d \in Dirs(f), NEW n \in Name,
           NEW ni \in ext2fs_new_inode(f), NEW bad,
           LinkRoom(f, d), ext2fs_namei(f, d, n) = NoIno
    PROVE  LET m == op_mkdir(f, d, n, ni, bad) IN
           /\ m.rc = "ok" => ni \in Ino \ f.imap /\ DirMade(f, m.fs, d, n, ni)
           /\ bad = {} => Clean(f, m)
<1> DEFINE full == Room(f, d, n) = {}
           g    == IF full THEN ext2fs_expand_dir(f, d) ELSE f
           h    == ext2fs_mkdir(g, d, n, ni)
           w1   == do_writeinode(h, ni, h.inode[ni], "mkdir.attributes", bad)
           w2   == do_writeinode(w1.fs, d, w1.fs.inode[d], "mkdir.attributes", bad)
           m    == op_mkdir(f, d, n, ni, bad)
<1>0. f \in FileSystem /\ d \in Live(f) /\ d \in Ino /\ Holding(f, d, n) = {}
  BY BlocksTyped, Absent DEF Shape
<1>1. CASE "readinode" \in bad \/ ni = NoIno \/ FreeBlocks(f) = {}
           \/ "mkdir.mkdir" \in bad \/ (full /\ "dir.expand" \in bad)
  <2>1. m.fs = f /\ m.rc # "ok"
    BY <1>1 DEF op_mkdir, Ret
  <2> HIDE DEF m
  <2>2. Clean(f, m)
    BY <2>1, Unchanged
  <2> QED
    BY <2>1, <2>2 DEF m
<1>2. CASE ~ ("readinode" \in bad \/ ni = NoIno \/ FreeBlocks(f) = {}
              \/ "mkdir.mkdir" \in bad \/ (full /\ "dir.expand" \in bad))
  <2>1. ni \in Ino \ f.imap
    BY <1>2 DEF ext2fs_new_inode, FreeInodes
  <2>2. /\ Shape(g) /\ Alike(f, g) /\ Named(g) = Named(f)
        /\ g.imap = f.imap
        /\ g.inode[d].links = f.inode[d].links
        /\ Room(g, d, n) # {}
    <3>1. CASE full
      <4>1. g = ext2fs_expand_dir(f, d)
        BY <3>1
      <4>2. FreeBlocks(f) # {}
        BY <1>2
      <4> HIDE DEF g
      <4>3. g.imap = f.imap
        BY <1>0, <4>1, <4>2, ExpandFields
      <4> QED
        BY <1>0, <4>1, <4>2, <4>3, ExpandShape
    <3>2. CASE ~ full
      <4>1. g = f
        BY <3>2
      <4> HIDE DEF g
      <4>2. Alike(f, f)
        BY DEF Alike
      <4> QED
        BY <3>2, <4>1, <4>2
    <3> QED
      BY <3>1, <3>2
  <2>3. m = IF FreeBlocks(g) = {} THEN Ret(g, "EIO") ELSE IF w1.rc # "ok" THEN w1 ELSE w2
    BY <1>2 DEF op_mkdir
  <2> HIDE DEF g, m
  <2>4. d \in Dirs(g) /\ d \in Ino
    BY <1>0, <2>2 DEF Alike
  <2>5. Holding(g, d, n) = {}
    <3>1. Named(f)[d][n] = NoIno
      BY <1>0, NamedAt DEF Held
    <3>2. Named(g)[d][n] = ext2fs_namei(g, d, n)
      BY <2>4 DEF Named
    <3> QED
      BY <2>2, <3>1, <3>2, Absent
  <2>6. CASE FreeBlocks(g) = {}
    <3>1. m.fs = g /\ m.rc # "ok"
      BY <2>3, <2>6 DEF Ret
    <3>2. Clean(f, m)
      BY <2>2, <3>1 DEF Clean, SameTree, Alike
    <3> QED
      BY <3>1, <3>2 DEF m
  <2>7. CASE FreeBlocks(g) # {}
    <3>1. /\ Shape(h) /\ Live(h) = Live(g) \cup {ni}
          /\ DirMade(g, h, d, n, ni)
          /\ Accounted(g) => Accounted(h)
      <4>1. g.inode[d].links + 1 < LinkMod /\ ni \in Ino /\ ni \notin g.imap
        BY <2>1, <2>2 DEF LinkRoom
      <4> QED
        BY <2>2, <2>4, <2>5, <2>7, <4>1, MkdirTree
    <3> HIDE DEF h
    <3>2. h \in FileSystem /\ ni \in Live(h) /\ d \in Live(h)
      BY <1>0, <2>2, <3>1 DEF Shape, Alike
    <3>3. w1.fs = h /\ (bad = {} => w1.rc = "ok")
      BY <3>2, SameWritten
    <3> HIDE DEF w1
    <3>4. w2.fs = h /\ (bad = {} => w2.rc = "ok")
      BY <3>2, <3>3, SameWritten
    <3> HIDE DEF w2
    <3>5. m.fs = h /\ (bad = {} => m.rc = "ok")
      BY <2>3, <2>7, <3>3, <3>4
    <3>6. DirMade(f, h, d, n, ni) /\ (Accounted(f) => Accounted(h))
      BY <2>2, <3>1 DEF DirMade, Alike
    <3>7. bad = {} => Clean(f, m)
      BY <3>5, <3>6 DEF Clean
    <3> QED
      BY <2>1, <3>5, <3>6, <3>7 DEF m
  <2> QED
    BY <2>6, <2>7
<1> QED
  BY <1>1, <1>2

\* One name more for i.
Linked(f, g, d, n, i) ==
    /\ Named(g) = Put(Named(f), d, n, i)
    /\ Kinds(g) = Kinds(f)
    /\ Counts(g) = With(Counts(f), i, Counts(f)[i] + 1)
    /\ g.dotdot = f.dotdot

\* With room in the directory: the copy of its inode that op_link writes back
\* then lacks no block.
LEMMA OpLinkTree ==
    ASSUME NEW f, Shape(f), NEW sd, NEW sn,
           NEW d \in Dirs(f), NEW n \in Name, NEW bad,
           NEW s, s = ext2fs_namei(f, sd, sn), s \in Live(f), ~ IsDir(f, s),
           LinkRoom(f, s), Room(f, d, n) # {}, ext2fs_namei(f, d, n) = NoIno
    PROVE  LET op == op_link(f, sd, sn, d, n, bad) IN
           /\ op.rc = "ok" => Linked(f, op.fs, d, n, s)
           /\ bad = {} => Clean(f, op)
<1> DEFINE lk  == AddEntry(f, d, n, s, bad)
           src == [f.inode[s] EXCEPT !.links = (@ + 1) % LinkMod]
           w1  == do_writeinode(lk.fs, s, src, "link.source_inode", bad)
           w2  == do_writeinode(w1.fs, d, f.inode[d], "link.dest_inode", bad)
           op  == op_link(f, sd, sn, d, n, bad)
           l   == ext2fs_link(f, d, n, s)
<1>0. /\ f \in FileSystem /\ s \in Ino /\ s # NoIno /\ s # d
      /\ d \in Live(f) /\ d \in Ino /\ Holding(f, d, n) = {}
  <2>1. f \in FileSystem /\ s \in Ino /\ d \in Live(f) /\ d \in Ino
    BY BlocksTyped DEF Shape
  <2>2. s # d
    BY DEF Dirs, IsDir
  <2> QED
    BY <2>1, <2>2, RootAssumption, Absent
<1>1. op = IF "readinode" \in bad THEN Ret(f, "EIO")
           ELSE IF lk.rc # "ok" THEN lk
           ELSE IF w1.rc # "ok" THEN Ret(w1.fs, "EIO")
           ELSE Ret(w2.fs, IF w2.rc = "ok" THEN "ok" ELSE "EIO")
  BY <1>0 DEF op_link
<1>2. lk = IF "dir.link" \in bad THEN Ret(f, "EIO") ELSE Ret(l, "ok")
  BY DEF AddEntry
<1> HIDE DEF op, lk
<1>3. CASE "readinode" \in bad \/ "dir.link" \in bad
  <2>1. op.fs = f /\ op.rc # "ok"
    BY <1>1, <1>2, <1>3 DEF Ret
  <2>2. Clean(f, op)
    BY <2>1, Unchanged
  <2> QED
    BY <2>1, <2>2 DEF op
<1>4. CASE ~ ("readinode" \in bad \/ "dir.link" \in bad)
  <2>1. /\ Shape(l) /\ Alike(f, l) /\ l.inode = f.inode
        /\ Named(l) = Put(Named(f), d, n, s)
    BY <1>0, LinkShape
  <2>2. lk.fs = l /\ lk.rc = "ok"
    BY <1>2, <1>4 DEF Ret
  <2> HIDE DEF l
  <2>3. f.inode[s] \in Inode
    BY <1>0, LiveLinks
  <2>4. /\ src \in Inode /\ src.kind = l.inode[s].kind /\ src.blk = l.inode[s].blk
        /\ src.links = f.inode[s].links + 1 /\ src.links >= 1
    BY <2>1, <2>3, CountUp DEF LinkRoom
  <2> HIDE DEF src
  <2>5. /\ w1.rc = "ok" <=> "link.source_inode" \notin bad
        /\ Shape(w1.fs) /\ Live(w1.fs) = Live(l)
        /\ Named(w1.fs) = Named(l) /\ Kinds(w1.fs) = Kinds(l)
        /\ w1.rc = "ok" => Counts(w1.fs) = With(Counts(l), s, src.links)
        /\ w1.fs.dotdot = l.dotdot
        /\ Accounted(l) => Accounted(w1.fs)
        /\ \A j \in Ino : j # s => w1.fs.inode[j] = l.inode[j]
    <3>1. s \in Live(l)
      BY <2>1 DEF Alike
    <3> QED
      BY <2>1, <2>2, <2>4, <3>1, WriteTree
  <2> HIDE DEF w1
  <2>6. w2.fs = w1.fs /\ (bad = {} => w2.rc = "ok")
    <3>1. d \in Live(w1.fs) /\ w1.fs \in FileSystem
      BY <1>0, <2>1, <2>5 DEF Alike, Shape
    <3>2. f.inode[d] = w1.fs.inode[d]
      BY <1>0, <2>1, <2>5
    <3> DEFINE x == do_writeinode(w1.fs, d, w1.fs.inode[d], "link.dest_inode", bad)
    <3>3. x.fs = w1.fs /\ (bad = {} => x.rc = "ok")
      BY <3>1, SameWritten
    <3>4. w2 = x
      BY <3>2
    <3> HIDE DEF x, w2
    <3> QED
      BY <3>3, <3>4
  <2> HIDE DEF w2
  <2>7. CASE w1.rc # "ok"
    <3>1. op.rc # "ok" /\ bad # {}
      BY <1>1, <1>4, <2>2, <2>5, <2>7 DEF Ret
    <3> QED
      BY <3>1 DEF op
  <2>8. CASE w1.rc = "ok"
    <3>1. op.fs = w1.fs /\ (bad = {} => op.rc = "ok")
      BY <1>1, <1>4, <2>2, <2>6, <2>8 DEF Ret
    <3>2. Counts(f)[s] = f.inode[s].links
      BY <1>0, CountOf
    <3>3. Linked(f, w1.fs, d, n, s)
      BY <2>1, <2>4, <2>5, <2>8, <3>2 DEF Linked, Alike
    <3>4. Accounted(f) => Accounted(w1.fs)
      BY <2>1, <2>5 DEF Alike
    <3>5. bad = {} => Clean(f, op)
      BY <3>1, <3>4 DEF Clean
    <3> QED
      BY <3>1, <3>3, <3>5 DEF op
  <2> QED
    BY <2>7, <2>8
<1> QED
  BY <1>3, <1>4

-----------------------------------------------------------------------------
(* Handlers that remove *)

\* One name less for i, which goes when that was its last one.
Dropped(f, g, d, n, i) ==
    /\ Named(g) = Put(Named(f), d, n, NoIno)
    /\ Kinds(g) = IF Counts(f)[i] = 1 THEN With(Kinds(f), i, "none") ELSE Kinds(f)
    /\ Counts(g) = With(Counts(f), i, Counts(f)[i] - 1)
    /\ g.dotdot = f.dotdot

\* Whatever fails, a removal takes the name it was asked to take or none.
TakesOne(f, g, d, n) == Named(g) \in {Named(f), Put(Named(f), d, n, NoIno)}

LEMMA NoName ==
    ASSUME NEW f, Shape(f), NEW d \in Ino, NEW n \in Name, Named(f)[d][n] = NoIno
    PROVE  Held(f, d, n) = {}
<1> SUFFICES ASSUME NEW b \in Held(f, d, n) PROVE FALSE
  OBVIOUS
<1>1. Held(f, d, n) = {b}
  BY HeldOne DEF Shape
<1>2. Named(f)[d][n] = f.data[b][n]
  BY <1>1, NamedAt
<1>3. f.data[b][n] # NoIno
  BY <1>1 DEF Held, Holding
<1> QED
  BY <1>2, <1>3

\* op_unlink takes one name away, and the inode with its last one.
LEMMA OpUnlinkTree ==
    ASSUME NEW f, Shape(f), NEW d \in Dirs(f), NEW n \in Name, NEW bad,
           NEW t, t = ext2fs_namei(f, d, n), t \in Live(f) \cup {NoIno}
    PROVE  LET u == op_unlink(f, d, n, bad) IN
           /\ Shape(u.fs) /\ TakesOne(f, u.fs, d, n)
           /\ u.rc = "ok" => /\ t \in Live(f) /\ ~ IsDir(f, t)
                             /\ Dropped(f, u.fs, d, n, t)
                             /\ Live(f) \ {t} \subseteq Live(u.fs)
                             /\ Dirs(u.fs) = Dirs(f)
                             /\ \A j \in Ino : j # t => u.fs.inode[j] = f.inode[j]
           /\ bad = {} => /\ Clean(f, u)
                          /\ t \in Live(f) /\ ~ IsDir(f, t) => u.rc = "ok"
<1> DEFINE cut  == ext2fs_unlink(f, d, n, t)
           w1   == do_writeinode(cut, d, f.inode[d], "unlink.parent", bad)
           less == [f.inode[t] EXCEPT !.links = IF @ > 0 THEN @ - 1 ELSE 0]
           w2   == do_writeinode(w1.fs, t, less, "unlink.inode", bad)
           u    == op_unlink(f, d, n, bad)
<1>0. f \in FileSystem /\ d \in Live(f) /\ d \in Ino
  BY BlocksTyped DEF Shape
<1>1. CASE "readinode" \in bad \/ t = NoIno \/ IsDir(f, t) \/ "unlink.dirent" \in bad
  <2>1. u.fs = f /\ u.rc # "ok"
    BY <1>1 DEF op_unlink, Ret
  <2> HIDE DEF u
  <2>2. Clean(f, u) /\ TakesOne(f, u.fs, d, n)
    BY <2>1, Unchanged DEF TakesOne
  <2>3. bad = {} => ~ (t \in Live(f) /\ ~ IsDir(f, t))
    <3>1. NoIno \notin Live(f)
      BY <1>0, BlocksTyped, RootAssumption
    <3> QED
      BY <1>1, <3>1
  <2> QED
    BY <2>1, <2>2, <2>3 DEF u
<1>2. CASE ~ ("readinode" \in bad \/ t = NoIno \/ IsDir(f, t) \/ "unlink.dirent" \in bad)
  <2>1. u = IF w1.rc # "ok" THEN w1 ELSE w2
    BY <1>2 DEF op_unlink
  <2>2. t \in Live(f) /\ t \in Ino /\ ~ IsDir(f, t) /\ t # NoIno /\ t # d
    <3>1. t \in Live(f) /\ ~ IsDir(f, t) /\ t # NoIno
      BY <1>2
    <3> QED
      BY <1>0, <3>1, BlocksTyped DEF Dirs, IsDir
  <2>3. /\ f.inode[t] \in Inode /\ f.inode[t].links \in Nat /\ f.inode[t].links >= 1
    BY <1>0, <2>2, LiveLinks
  <2> HIDE DEF u
  <2>4. /\ less \in Inode /\ less.kind = f.inode[t].kind /\ less.blk = f.inode[t].blk
        /\ less.links = f.inode[t].links - 1
    <3> DEFINE r == f.inode[t]
               k == IF r.links > 0 THEN r.links - 1 ELSE 0
    <3>1. less = [r EXCEPT !.links = k]
      OBVIOUS
    <3>2. k = r.links - 1
      BY <2>3
    <3>3. less \in Inode
      BY <2>3, LinksTyped
    <3> HIDE DEF less, k
    <3>4. less.kind = r.kind /\ less.blk = r.blk /\ less.links = k
      BY <2>3, <3>1, Relinked
    <3> QED
      BY <3>2, <3>3, <3>4
  <2> HIDE DEF less
  <2>5. /\ Shape(cut) /\ Alike(f, cut) /\ cut.inode = f.inode
        /\ Named(cut) = Put(Named(f), d, n, NoIno)
    BY <2>2, UnlinkShape
  <2> HIDE DEF cut
  <2>6. w1.fs = cut /\ (bad = {} => w1.rc = "ok")
    <3>1. d \in Live(cut) /\ cut \in FileSystem /\ f.inode[d] = cut.inode[d]
      BY <1>0, <2>5 DEF Alike, Shape
    <3> DEFINE x == do_writeinode(cut, d, cut.inode[d], "unlink.parent", bad)
    <3>2. x.fs = cut /\ (bad = {} => x.rc = "ok")
      <4> HIDE DEF w1, w2
      <4>1. cut \in FileSystem /\ d \in Live(cut)
        BY <3>1
      <4>2. x.fs = cut
        BY <4>1, SameWritten
      <4>3. bad = {} => x.rc = "ok"
        BY <4>1, SameWritten
      <4> QED
        BY <4>2, <4>3
    <3>3. w1 = x
      BY <3>1
    <3> HIDE DEF x, w1
    <3> QED
      BY <3>2, <3>3
  <2> HIDE DEF w1
  <2>7. Counts(f)[t] = f.inode[t].links
    BY <1>0, <2>2, CountOf
  <2>8. t \in Live(cut) /\ Live(cut) = Live(f) /\ Dirs(cut) = Dirs(f)
    BY <2>2, <2>5 DEF Alike
  <2>9. /\ Shape(w2.fs) /\ Named(w2.fs) = Named(cut)
        /\ w2.rc = "ok" => /\ Dropped(f, w2.fs, d, n, t)
                           /\ Live(f) \ {t} \subseteq Live(w2.fs)
                           /\ Dirs(w2.fs) = Dirs(f)
                           /\ \A j \in Ino : j # t => w2.fs.inode[j] = f.inode[j]
        /\ bad = {} => w2.rc = "ok" /\ (Accounted(f) => Accounted(w2.fs))
    <3>1. CASE less.links < 1
      <4> DEFINE k == do_killfilebyinode(cut, t, less, bad)
      <4>1. w2 = k
        BY <2>6, <3>1 DEF do_writeinode
      <4>2. t \notin Dirs(cut)
        BY <2>2, <2>8 DEF Dirs, IsDir
      <4>3. \A m \in Name : Held(cut, t, m) = {}
        BY <4>2 DEF Held
      <4>4. CASE "kill.inode" \in bad
        <5>1. k.fs = cut /\ k.rc # "ok" /\ bad # {}
          BY <4>4 DEF do_killfilebyinode, Ret
        <5> HIDE DEF k
        <5> QED
          BY <2>5, <4>1, <5>1
      <4>5. CASE "kill.inode" \notin bad
        <5>1. /\ k.rc = "ok"
              /\ Shape(k.fs) /\ Live(k.fs) = Live(cut) \ {t} /\ Dirs(k.fs) = Dirs(cut) \ {t}
              /\ Named(k.fs) = Named(cut)
              /\ Kinds(k.fs) = With(Kinds(cut), t, "none")
              /\ Counts(k.fs) = With(Counts(cut), t, 0)
              /\ k.fs.dotdot = cut.dotdot
              /\ Accounted(cut) /\ "kill.blocks" \notin bad => Accounted(k.fs)
              /\ \A j \in Ino : j # t => k.fs.inode[j] = cut.inode[j]
          <6>1. less.blk = cut.inode[t].blk
            BY <2>4, <2>5
          <6> QED
            BY <2>4, <2>5, <2>8, <4>3, <4>5, <6>1, KillShape
        <5> HIDE DEF k
        <5>2. Counts(f)[t] = 1 /\ Counts(f)[t] - 1 = 0
          BY <2>3, <2>4, <2>7, <3>1
        <5>3. Dropped(f, k.fs, d, n, t)
          BY <2>5, <5>1, <5>2 DEF Dropped, Alike
        <5>4. bad = {} => (Accounted(f) => Accounted(k.fs))
          BY <2>5, <5>1 DEF Alike
        <5> QED
          BY <2>5, <2>8, <4>1, <4>2, <5>1, <5>3, <5>4
      <4> QED
        BY <4>4, <4>5
    <3>2. CASE ~ (less.links < 1)
      <4>1. less.links >= 1 /\ less.kind = cut.inode[t].kind /\ less.blk = cut.inode[t].blk
        BY <2>3, <2>4, <2>5, <3>2
      <4>2. /\ w2.rc = "ok" <=> "unlink.inode" \notin bad
            /\ Shape(w2.fs) /\ Live(w2.fs) = Live(cut) /\ Dirs(w2.fs) = Dirs(cut)
            /\ Named(w2.fs) = Named(cut) /\ Kinds(w2.fs) = Kinds(cut)
            /\ w2.rc = "ok" => Counts(w2.fs) = With(Counts(cut), t, less.links)
            /\ w2.fs.dotdot = cut.dotdot
            /\ Accounted(cut) => Accounted(w2.fs)
            /\ \A j \in Ino : j # t => w2.fs.inode[j] = cut.inode[j]
        BY <2>4, <2>5, <2>6, <2>8, <4>1, WriteTree
      <4> HIDE DEF w2
      <4>3. Counts(f)[t] # 1
        BY <2>3, <2>4, <2>7, <3>2
      <4>4. w2.rc = "ok" => Dropped(f, w2.fs, d, n, t)
        BY <2>4, <2>5, <2>7, <4>2, <4>3 DEF Dropped, Alike
      <4>5. Accounted(f) => Accounted(w2.fs)
        BY <2>5, <4>2 DEF Alike
      <4> QED
        BY <2>5, <2>8, <4>2, <4>4, <4>5
    <3> QED
      BY <3>1, <3>2
  <2> HIDE DEF w2
  <2>10. CASE w1.rc # "ok"
    <3>1. u = w1 /\ bad # {}
      BY <2>1, <2>6, <2>10
    <3> QED
      BY <2>5, <2>6, <2>10, <3>1 DEF TakesOne, u
  <2>11. CASE w1.rc = "ok"
    <3>1. u = w2
      BY <2>1, <2>11
    <3>2. bad = {} => Clean(f, w2)
      BY <2>9 DEF Clean
    <3> QED
      BY <2>2, <2>5, <2>9, <3>1, <3>2 DEF TakesOne, u
  <2> QED
    BY <2>10, <2>11
<1> QED
  BY <1>1, <1>2

\* An empty directory i goes, and its parent counts one subdirectory less.
LessOne(c) == IF c > 1 THEN c - 1 ELSE c
DirDropped(f, g, d, n, i) ==
    /\ Named(g) = Put(Named(f), d, n, NoIno)
    /\ Kinds(g) = With(Kinds(f), i, "none")
    /\ Counts(g) = With(With(Counts(f), i, 0), d, LessOne(Counts(f)[d]))
    /\ g.dotdot = f.dotdot

\* All but two inodes are as they were.
Others(f, g, i, j) == \A e \in Ino : e # i /\ e # j => g.inode[e] = f.inode[e]

LEMMA EmptyNames ==
    ASSUME NEW f, NEW d \in Ino
    PROVE  /\ EmptyDir(f, d) => \A n \in Name : Held(f, d, n) = {} /\ Named(f)[d][n] = NoIno
           /\ Shape(f) /\ d \in Dirs(f) /\ (\A n \in Name : Named(f)[d][n] = NoIno)
                => EmptyDir(f, d)
<1>1. ASSUME EmptyDir(f, d), NEW n \in Name
      PROVE  Held(f, d, n) = {} /\ Named(f)[d][n] = NoIno
  <2>1. Held(f, d, n) = {}
    BY <1>1 DEF EmptyDir, Entries, Held, Holding
  <2> QED
    BY <2>1, NamedAt
<1>2. ASSUME Shape(f), d \in Dirs(f), \A n \in Name : Named(f)[d][n] = NoIno
      PROVE  EmptyDir(f, d)
  <2>1. \A n \in Name : Held(f, d, n) = {}
    BY <1>2, NoName
  <2> QED
    BY <1>2, <2>1 DEF EmptyDir, Entries, Held, Holding
<1> QED
  BY <1>1, <1>2

\* op_rmdir takes an empty directory away and its ".." from the parent's count.
LEMMA OpRmdirTree ==
    ASSUME NEW f, Shape(f), NEW d \in Dirs(f), NEW n \in Name, NEW bad,
           NEW t, t = ext2fs_namei(f, d, n), t \in Live(f) \cup {NoIno}
    PROVE  LET u == op_rmdir(f, d, n, bad) IN
           /\ Shape(u.fs) /\ TakesOne(f, u.fs, d, n)
           /\ u.rc = "ok" => /\ t \in Live(f) /\ IsDir(f, t) /\ EmptyDir(f, t)
                             /\ t # Root /\ t # d
                             /\ DirDropped(f, u.fs, d, n, t)
                             /\ Live(f) \ {t} \subseteq Live(u.fs)
                             /\ Dirs(u.fs) = Dirs(f) \ {t}
                             /\ Others(f, u.fs, t, d)
           /\ bad = {} => /\ Clean(f, u)
                          /\ t \in Live(f) /\ IsDir(f, t) /\ t # Root /\ EmptyDir(f, t)
                                => u.rc = "ok"
<1> DEFINE cut  == ext2fs_unlink(f, d, n, t)
           k    == do_killfilebyinode(cut, t, f.inode[t], bad)
           less == [k.fs.inode[d] EXCEPT !.links = IF @ > 1 THEN @ - 1 ELSE @]
           w    == do_writeinode(k.fs, d, less, "rmdir.parent", bad)
           u    == op_rmdir(f, d, n, bad)
<1>0. f \in FileSystem /\ d \in Live(f) /\ d \in Ino
  BY BlocksTyped DEF Shape
<1>1. CASE "readinode" \in bad \/ t = NoIno \/ ~ IsDir(f, t) \/ t = Root
           \/ ~ EmptyDir(f, t) \/ "rmdir.dirent" \in bad
  <2>1. u.fs = f /\ u.rc # "ok"
    BY <1>1 DEF op_rmdir, do_check_empty_dir, Ret
  <2> HIDE DEF u
  <2>2. Clean(f, u) /\ TakesOne(f, u.fs, d, n)
    BY <2>1, Unchanged DEF TakesOne
  <2>3. bad = {} => ~ (t \in Live(f) /\ IsDir(f, t) /\ t # Root /\ EmptyDir(f, t))
    <3>1. NoIno \notin Live(f)
      BY <1>0, BlocksTyped, RootAssumption
    <3> QED
      BY <1>1, <3>1
  <2> QED
    BY <2>1, <2>2, <2>3 DEF u
<1>2. CASE ~ ("readinode" \in bad \/ t = NoIno \/ ~ IsDir(f, t) \/ t = Root
              \/ ~ EmptyDir(f, t) \/ "rmdir.dirent" \in bad)
  <2>1. u = IF k.rc # "ok" THEN k ELSE w
    BY <1>2 DEF op_rmdir, do_check_empty_dir
  <2>2. /\ t \in Live(f) /\ t \in Ino /\ t \in Dirs(f)
        /\ IsDir(f, t) /\ EmptyDir(f, t) /\ t # NoIno /\ t # Root
    <3>1. t \in Live(f) /\ IsDir(f, t) /\ EmptyDir(f, t) /\ t # NoIno /\ t # Root
      BY <1>2
    <3> QED
      BY <1>0, <3>1, BlocksTyped DEF Dirs, IsDir
  <2> HIDE DEF u
  <2>3. t # d
    <3>1. Held(f, d, n) # {}
      BY <2>2 DEF Held, ext2fs_namei
    <3> QED
      BY <1>0, <2>2, <3>1, EmptyNames
  <2>4. /\ Shape(cut) /\ Alike(f, cut) /\ cut.inode = f.inode
        /\ Named(cut) = Put(Named(f), d, n, NoIno)
    BY <2>2, UnlinkShape
  <2>5. EmptyDir(cut, t)
    <3>1. \A m \in Name : Named(f)[t][m] = NoIno
      BY <2>2, EmptyNames
    <3>2. \A m \in Name : Named(cut)[t][m] = NoIno
      BY <1>0, <2>2, <2>3, <2>4, <3>1, NamedTyped DEF Put
    <3>3. t \in Dirs(cut)
      BY <2>2, <2>4 DEF Alike
    <3> HIDE DEF cut
    <3> QED
      BY <2>2, <2>4, <3>2, <3>3, EmptyNames
  <2>6. \A m \in Name : Held(cut, t, m) = {}
    BY <2>2, <2>5, EmptyNames
  <2> HIDE DEF cut
  <2>7. Live(cut) = Live(f) /\ Dirs(cut) = Dirs(f) /\ f.inode[t] \in Inode
    BY <1>0, <2>2, <2>4, LiveLinks DEF Alike
  <2>8. CASE "kill.inode" \in bad
    <3>1. k.fs = cut /\ k.rc # "ok" /\ bad # {}
      BY <2>8 DEF do_killfilebyinode, Ret
    <3> HIDE DEF k
    <3>2. u = k
      BY <2>1, <3>1
    <3> QED
      BY <2>4, <3>1, <3>2 DEF TakesOne, u
  <2>9. CASE "kill.inode" \notin bad
    <3>1. /\ k.rc = "ok"
          /\ Shape(k.fs) /\ Live(k.fs) = Live(cut) \ {t} /\ Dirs(k.fs) = Dirs(cut) \ {t}
          /\ Named(k.fs) = Named(cut)
          /\ Kinds(k.fs) = With(Kinds(cut), t, "none")
          /\ Counts(k.fs) = With(Counts(cut), t, 0)
          /\ k.fs.dotdot = cut.dotdot
          /\ Accounted(cut) /\ "kill.blocks" \notin bad => Accounted(k.fs)
          /\ \A j \in Ino : j # t => k.fs.inode[j] = cut.inode[j]
      <4>1. f.inode[t].blk = cut.inode[t].blk
        BY <2>4
      <4> QED
        BY <2>2, <2>4, <2>6, <2>7, <2>9, <4>1, KillShape
    <3> HIDE DEF k
    <3>2. /\ d \in Live(k.fs) /\ k.fs.inode[d] = f.inode[d]
          /\ f.inode[d] \in Inode /\ f.inode[d].links >= 1
      BY <1>0, <2>3, <2>4, <2>7, <3>1, LiveLinks
    <3>3. /\ less \in Inode /\ less.kind = f.inode[d].kind /\ less.blk = f.inode[d].blk
          /\ less.links = LessOne(f.inode[d].links) /\ less.links >= 1
      BY <3>2, CountDown DEF LessOne
    <3> HIDE DEF less
    <3>4. /\ w.rc = "ok" <=> "rmdir.parent" \notin bad
          /\ Shape(w.fs) /\ Live(w.fs) = Live(k.fs) /\ Dirs(w.fs) = Dirs(k.fs)
          /\ Named(w.fs) = Named(k.fs) /\ Kinds(w.fs) = Kinds(k.fs)
          /\ w.rc = "ok" => Counts(w.fs) = With(Counts(k.fs), d, less.links)
          /\ w.fs.dotdot = k.fs.dotdot
          /\ Accounted(k.fs) => Accounted(w.fs)
          /\ \A j \in Ino : j # d => w.fs.inode[j] = k.fs.inode[j]
      BY <3>1, <3>2, <3>3, WriteTree
    <3> HIDE DEF w
    <3>5. u = w
      BY <2>1, <3>1
    <3>6. Counts(f)[d] = f.inode[d].links
      BY <1>0, CountOf
    <3>7. w.rc = "ok" => DirDropped(f, w.fs, d, n, t)
      BY <2>4, <3>1, <3>3, <3>4, <3>6 DEF DirDropped, Alike
    <3>8. Others(f, w.fs, t, d)
      BY <2>4, <3>1, <3>4 DEF Others
    <3>9. bad = {} => Clean(f, w) /\ w.rc = "ok"
      BY <2>4, <3>1, <3>4 DEF Clean, Alike
    <3> QED
      BY <2>2, <2>3, <2>4, <2>7, <3>1, <3>4, <3>5, <3>7, <3>8, <3>9 DEF TakesOne, u
  <2> QED
    BY <2>8, <2>9
<1> QED
  BY <1>1, <1>2

-----------------------------------------------------------------------------
(* Rename *)

LEMMA PutElse ==
    ASSUME NEW N \in [Ino -> [Name -> Ino \cup {NoIno}]],
           NEW d \in Ino, NEW n \in Name, NEW i
    PROVE  /\ Put(N, d, n, i)[d][n] = i
           /\ \A e \in Ino, m \in Name :
                <<e, m>> # <<d, n>> => Put(N, d, n, i)[e][m] = N[e][m]
  BY DEF Put

\* Writing or killing an inode leaves the directories' blocks alone.
LEMMA KillBlocks ==
    ASSUME NEW f \in FileSystem, NEW i, NEW r \in Inode, r.blk = f.inode[i].blk, NEW bad
    PROVE  LET k == do_killfilebyinode(f, i, r, bad) IN
           k.fs.data = f.data /\ \A j \in Ino : k.fs.inode[j].blk = f.inode[j].blk
<1> DEFINE dead == [r EXCEPT !.links = 0]
           gone == IF "kill.blocks" \in bad THEN {} ELSE r.blk
<1>1. dead.blk = r.blk
  BY DEF Inode
<1>2. do_killfilebyinode(f, i, r, bad) =
        IF "kill.inode" \in bad THEN Ret(f, "EIO")
        ELSE Ret([f EXCEPT !.inode[i] = dead, !.bmap = @ \ gone, !.imap = @ \ {i}], "ok")
  BY DEF do_killfilebyinode
<1> HIDE DEF dead, gone
<1> QED
  BY <1>1, <1>2 DEF Ret, FileSystem

LEMMA WriteBlocks ==
    ASSUME NEW f \in FileSystem, NEW i, NEW r \in Inode, r.blk = f.inode[i].blk,
           NEW site, NEW bad
    PROVE  LET w == do_writeinode(f, i, r, site, bad) IN
           w.fs.data = f.data /\ \A j \in Ino : w.fs.inode[j].blk = f.inode[j].blk
<1>1. LET g == ext2fs_write_inode(f, i, r) IN
      g.data = f.data /\ \A j \in Ino : g.inode[j].blk = f.inode[j].blk
  BY DEF ext2fs_write_inode, FileSystem
<1> QED
  BY <1>1, KillBlocks DEF do_writeinode, Ret

\* A directory that changes parents: the counts of both, and "..".
Across(f, sd, td, i) == IsDir(f, i) /\ sd # td
Carried(f, g, sd, td, i) ==
    /\ Counts(g) = With(With(Counts(f), sd, LessOne(Counts(f)[sd])), td,
                        Counts(f)[td] + 1)
    /\ g.dotdot = With(f.dotdot, i, td)

\* A name of i moves.
Moved(f, g, sd, sn, td, tn, i) ==
    /\ Named(g) = Put(Put(Named(f), td, tn, i), sd, sn, NoIno)
    /\ Kinds(g) = Kinds(f)
    /\ Across(f, sd, td, i) => Carried(f, g, sd, td, i)
    /\ ~ Across(f, sd, td, i) => Counts(g) = Counts(f) /\ g.dotdot = f.dotdot
    /\ sd # td => g.inode[sd].blk = f.inode[sd].blk

\* The inodes and ".." of a directory that changes parents.
CarrySource(f, sd, bad) ==
    do_writeinode(f, sd, [f.inode[sd] EXCEPT !.links = IF @ > 1 THEN @ - 1 ELSE @],
                  "rename.src_parent", bad)
CarryDest(f, sd, td, i, bad) ==
    do_writeinode(do_fix_dotdot(CarrySource(f, sd, bad).fs, i, td), td,
                  [f.inode[td] EXCEPT !.links = (@ + 1) % LinkMod],
                  "rename.dest_parent", bad)

\* The writes of op_rename that move ".." and the two counts.
LEMMA CarryTree ==
    ASSUME NEW f, Shape(f), NEW sd \in Dirs(f), NEW td \in Dirs(f), sd # td,
           NEW i \in Live(f), i # sd, i # td, LinkRoom(f, td), NEW bad
    PROVE  LET w1 == CarrySource(f, sd, bad)
               w2 == CarryDest(f, sd, td, i, bad)
           IN  /\ Shape(w2.fs) /\ Live(w2.fs) = Live(f) /\ Dirs(w2.fs) = Dirs(f)
               /\ Named(w2.fs) = Named(f) /\ Kinds(w2.fs) = Kinds(f)
               /\ w2.fs.inode[i] = f.inode[i]
               /\ w2.fs.inode[sd].blk = f.inode[sd].blk
               /\ w1.rc = "ok" /\ w2.rc = "ok" => Carried(f, w2.fs, sd, td, i)
               /\ bad = {} => w1.rc = "ok" /\ w2.rc = "ok"
               /\ Accounted(f) => Accounted(w2.fs)
<1> DEFINE less == [f.inode[sd] EXCEPT !.links = IF @ > 1 THEN @ - 1 ELSE @]
           more == [f.inode[td] EXCEPT !.links = (@ + 1) % LinkMod]
           w1   == do_writeinode(f, sd, less, "rename.src_parent", bad)
           h    == do_fix_dotdot(w1.fs, i, td)
           w2   == do_writeinode(h, td, more, "rename.dest_parent", bad)
<1>0. CarrySource(f, sd, bad) = w1 /\ CarryDest(f, sd, td, i, bad) = w2
  BY DEF CarrySource, CarryDest
<1>1. /\ f \in FileSystem /\ sd \in Live(f) /\ sd \in Ino /\ td \in Live(f) /\ td \in Ino
      /\ i \in Ino
  BY BlocksTyped DEF Shape
<1>2. /\ f.inode[sd] \in Inode /\ f.inode[sd].links >= 1 /\ f.inode[td] \in Inode
      /\ Counts(f)[sd] = f.inode[sd].links /\ Counts(f)[td] = f.inode[td].links
  BY <1>1, LiveLinks, CountOf
<1>3. /\ less \in Inode /\ less.kind = f.inode[sd].kind /\ less.blk = f.inode[sd].blk
      /\ less.links = LessOne(f.inode[sd].links) /\ less.links >= 1
  BY <1>2, CountDown DEF LessOne
<1>4. /\ more \in Inode /\ more.kind = f.inode[td].kind /\ more.blk = f.inode[td].blk
      /\ more.links = f.inode[td].links + 1 /\ more.links >= 1
  BY <1>2, CountUp DEF LinkRoom
<1> HIDE DEF less, more
<1>5. /\ w1.rc = "ok" <=> "rename.src_parent" \notin bad
      /\ Shape(w1.fs) /\ Live(w1.fs) = Live(f) /\ Dirs(w1.fs) = Dirs(f)
      /\ Named(w1.fs) = Named(f) /\ Kinds(w1.fs) = Kinds(f)
      /\ w1.rc = "ok" => Counts(w1.fs) = With(Counts(f), sd, less.links)
      /\ w1.fs.dotdot = f.dotdot
      /\ Accounted(f) => Accounted(w1.fs)
      /\ \A j \in Ino : j # sd => w1.fs.inode[j] = f.inode[j]
  BY <1>1, <1>3, WriteTree
<1>5a. w1.fs.inode[sd].blk = f.inode[sd].blk
  BY <1>1, <1>3, WriteBlocks
<1> HIDE DEF w1
<1>6. /\ Shape(h) /\ Live(h) = Live(f) /\ Dirs(h) = Dirs(f) /\ h.inode = w1.fs.inode
      /\ Named(h) = Named(f) /\ Kinds(h) = Kinds(f) /\ Counts(h) = Counts(w1.fs)
      /\ h.dotdot = With(f.dotdot, i, td)
      /\ Accounted(w1.fs) => Accounted(h)
  <2> HIDE DEF w2
  <2>1. PICK g : g = w1.fs
    OBVIOUS
  <2> DEFINE x == do_fix_dotdot(g, i, td)
  <2>2. Shape(g)
    BY <1>5, <2>1
  <2>3. /\ Shape(x) /\ Live(x) = Live(g) /\ Dirs(x) = Dirs(g) /\ x.inode = g.inode
        /\ Named(x) = Named(g) /\ Kinds(x) = Kinds(g) /\ Counts(x) = Counts(g)
        /\ x.dotdot = With(g.dotdot, i, td)
        /\ Accounted(g) => Accounted(x)
    BY <1>1, <2>2, DotdotShape
  <2>4. x = h
    BY <2>1
  <2> HIDE DEF x, h
  <2> QED
    BY <1>5, <2>1, <2>3, <2>4
<1> HIDE DEF h
<1>7. td \in Live(h) /\ h.inode[td] = f.inode[td] /\ h.inode[i] = f.inode[i]
  BY <1>1, <1>5, <1>6
<1>8. /\ w2.rc = "ok" <=> "rename.dest_parent" \notin bad
      /\ Shape(w2.fs) /\ Live(w2.fs) = Live(h) /\ Dirs(w2.fs) = Dirs(h)
      /\ Named(w2.fs) = Named(h) /\ Kinds(w2.fs) = Kinds(h)
      /\ w2.rc = "ok" => Counts(w2.fs) = With(Counts(h), td, more.links)
      /\ w2.fs.dotdot = h.dotdot
      /\ Accounted(h) => Accounted(w2.fs)
      /\ \A j \in Ino : j # td => w2.fs.inode[j] = h.inode[j]
  BY <1>4, <1>6, <1>7, WriteTree
<1> HIDE DEF w2
<1>9. w1.rc = "ok" /\ w2.rc = "ok" => Carried(f, w2.fs, sd, td, i)
  BY <1>2, <1>3, <1>4, <1>5, <1>6, <1>8 DEF Carried
<1>9a. w2.fs.inode[sd].blk = f.inode[sd].blk
  BY <1>1, <1>5a, <1>6, <1>8
<1>10. w2.fs.inode[i] = f.inode[i] /\ (bad = {} => w1.rc = "ok" /\ w2.rc = "ok")
  BY <1>1, <1>5, <1>7, <1>8
<1> QED
  BY <1>0, <1>5, <1>6, <1>8, <1>9, <1>9a, <1>10

\* What comes of moving the entry.
MoveDone(f, mv, sd, sn, td, tn, si, bad) ==
    /\ mv.rc = "ok" => Moved(f, mv.fs, sd, sn, td, tn, si)
    /\ bad = {} => Clean(f, mv)
    /\ bad = {} /\ Room(f, td, tn) # {} => mv.rc = "ok"

\* The rest of op_rename, once the place is free: new entry, counts, old entry.
LEMMA MoveEntryTree ==
    ASSUME NEW f, Shape(f), NEW sd \in Dirs(f), NEW sn \in Name,
           NEW td \in Dirs(f), NEW tn \in Name, <<sd, sn>> # <<td, tn>>,
           NEW si \in Live(f), si # sd, si # td,
           ext2fs_namei(f, sd, sn) = si, ext2fs_namei(f, td, tn) = NoIno,
           IsDir(f, si) => LinkRoom(f, td),
           NEW d_src, Across(f, sd, td, si) => d_src = f.inode[sd], NEW bad
    PROVE  MoveDone(f, MoveEntry(f, sd, sn, d_src, si, f.inode[si], td, tn, bad),
                    sd, sn, td, tn, si, bad)
<1> DEFINE src    == f.inode[si]
           lk     == AddEntry(f, td, tn, si, bad)
           across == src.kind = "dir" /\ sd # td
           d_dest == [lk.fs.inode[td] EXCEPT
                        !.links = IF across THEN (@ + 1) % LinkMod ELSE @]
           less   == [d_src EXCEPT !.links = IF @ > 1 THEN @ - 1 ELSE @]
           w1     == IF across
                     THEN do_writeinode(lk.fs, sd, less, "rename.src_parent", bad)
                     ELSE lk
           h      == IF across THEN do_fix_dotdot(w1.fs, si, td) ELSE w1.fs
           w2     == do_writeinode(h, td, d_dest, "rename.dest_parent", bad)
           w3     == do_writeinode(w2.fs, si, src, "rename.source", bad)
           last   == ext2fs_unlink(w3.fs, sd, sn, si)
           mv     == MoveEntry(f, sd, sn, d_src, si, f.inode[si], td, tn, bad)
<1>0. /\ f \in FileSystem /\ sd \in Live(f) /\ sd \in Ino /\ td \in Live(f) /\ td \in Ino
      /\ si \in Ino
  BY BlocksTyped DEF Shape
<1>1. Named(f) \in [Ino -> [Name -> Ino \cup {NoIno}]] /\ Named(f)[sd][sn] = si
  <2>1. Named(f)[sd][sn] = si
    BY <1>0 DEF Named
  <2> QED
    BY <1>0, <2>1, NamedTyped
<1>2. /\ mv.rc = "ok" => /\ lk.rc = "ok" /\ w1.rc = "ok" /\ w2.rc = "ok" /\ w3.rc = "ok"
                         /\ mv.fs = last
      /\ bad = {} /\ lk.rc = "ok" /\ w1.rc = "ok" /\ w2.rc = "ok" /\ w3.rc = "ok" =>
            mv.rc = "ok"
      /\ lk.rc # "ok" => mv = lk
  BY DEF MoveEntry, Ret
<1> HIDE DEF mv, MoveDone
<1>3. /\ Shape(lk.fs) /\ Alike(f, lk.fs)
      /\ lk.rc = "ok" => Named(lk.fs) = Put(Named(f), td, tn, si)
      /\ lk.rc # "ok" => Named(lk.fs) = Named(f)
      /\ \A j \in Ino : /\ lk.fs.inode[j].kind = f.inode[j].kind
                        /\ lk.fs.inode[j].links = f.inode[j].links
                        /\ j # td => lk.fs.inode[j] = f.inode[j]
  <2>1. Holding(f, td, tn) = {}
    BY <1>0, Absent
  <2> QED
    BY <1>0, <2>1, AddEntryTree
<1> HIDE DEF lk
<1>4. CASE lk.rc # "ok"
  <2>1. Clean(f, lk)
    BY <1>3, <1>4 DEF Clean, SameTree, Alike
  <2>2. bad = {} => Room(f, td, tn) = {}
    BY <1>4 DEF lk, AddEntry, Ret
  <2> QED
    BY <1>2, <1>4, <2>1, <2>2 DEF mv, MoveDone
<1>5. CASE lk.rc = "ok"
  <2> DEFINE g == lk.fs
  <2>1. /\ Shape(g) /\ g \in FileSystem /\ Live(g) = Live(f) /\ Dirs(g) = Dirs(f)
        /\ Kinds(g) = Kinds(f) /\ Counts(g) = Counts(f) /\ g.dotdot = f.dotdot
        /\ Accounted(f) => Accounted(g)
        /\ Named(g) = Put(Named(f), td, tn, si)
        /\ g.inode[si] = src /\ (sd # td => g.inode[sd] = f.inode[sd])
        /\ g.inode[td].links = f.inode[td].links
    BY <1>0, <1>3, <1>5 DEF Alike, Shape
  <2>2. across <=> Across(f, sd, td, si)
    BY DEF Across, IsDir
  <2>3. /\ Shape(w2.fs) /\ Live(w2.fs) = Live(g) /\ Dirs(w2.fs) = Dirs(g)
        /\ Named(w2.fs) = Named(g) /\ Kinds(w2.fs) = Kinds(g)
        /\ w2.fs.inode[si] = src
        /\ w2.fs.inode[sd].blk = g.inode[sd].blk
        /\ w1.rc = "ok" /\ w2.rc = "ok" =>
             /\ across => Carried(g, w2.fs, sd, td, si)
             /\ ~ across => Counts(w2.fs) = Counts(g) /\ w2.fs.dotdot = g.dotdot
        /\ bad = {} => w1.rc = "ok" /\ w2.rc = "ok"
        /\ Accounted(g) => Accounted(w2.fs)
    <3>1. CASE across
      <4> DEFINE v1 == CarrySource(g, sd, bad)
                 v2 == CarryDest(g, sd, td, si, bad)
      <4>1. LinkRoom(g, td) /\ sd # td
        BY <2>1, <3>1 DEF LinkRoom, IsDir
      <4>2. /\ Shape(v2.fs) /\ Live(v2.fs) = Live(g) /\ Dirs(v2.fs) = Dirs(g)
            /\ Named(v2.fs) = Named(g) /\ Kinds(v2.fs) = Kinds(g)
            /\ v2.fs.inode[si] = g.inode[si]
            /\ v2.fs.inode[sd].blk = g.inode[sd].blk
            /\ v1.rc = "ok" /\ v2.rc = "ok" => Carried(g, v2.fs, sd, td, si)
            /\ bad = {} => v1.rc = "ok" /\ v2.rc = "ok"
            /\ Accounted(g) => Accounted(v2.fs)
        <5> HIDE DEF g, src, d_dest, less, w1, h, w2, w3, last
        <5> QED
          BY <2>1, <4>1, CarryTree
      <4>3. d_src = g.inode[sd]
        BY <2>1, <2>2, <3>1
      <4>4. /\ less = [g.inode[sd] EXCEPT !.links = IF @ > 1 THEN @ - 1 ELSE @]
            /\ d_dest = [g.inode[td] EXCEPT !.links = (@ + 1) % LinkMod]
        BY <3>1, <4>3
      <4>5. w1 = v1 /\ w2 = v2
        <5> HIDE DEF less, d_dest
        <5>1. w1 = v1
          BY <3>1, <4>4 DEF CarrySource
        <5>2. h = do_fix_dotdot(v1.fs, si, td)
          BY <3>1, <5>1
        <5> HIDE DEF w1, h, v1
        <5>3. w2 = v2
          BY <4>4, <5>2 DEF CarryDest, v1
        <5> QED
          BY <5>1, <5>3
      <4> HIDE DEF w1, w2, v1, v2, g
      <4> QED
        BY <2>1, <3>1, <4>2, <4>5
    <3>2. CASE ~ across
      <4> DEFINE x == do_writeinode(g, td, g.inode[td], "rename.dest_parent", bad)
      <4>1. x.fs = g /\ (bad = {} => x.rc = "ok")
        <5>1. td \in Live(g)
          BY <1>0, <2>1
        <5> HIDE DEF g, src, across, d_dest, less, w1, h, w2, w3, last
        <5>2. PICK e : e = g
          OBVIOUS
        <5> DEFINE y == do_writeinode(e, td, e.inode[td], "rename.dest_parent", bad)
        <5>3. y.fs = e /\ (bad = {} => y.rc = "ok")
          BY <2>1, <5>1, <5>2, SameWritten
        <5>4. x = y
          BY <5>2
        <5> HIDE DEF x, y
        <5> QED
          BY <5>2, <5>3, <5>4
      <4>2. d_dest = g.inode[td]
        <5>1. g.inode[td] \in Inode
          BY <1>0, <2>1, LiveLinks
        <5>2. d_dest = [g.inode[td] EXCEPT !.links = g.inode[td].links]
          BY <3>2
        <5> HIDE DEF d_dest, g
        <5> QED
          BY <5>1, <5>2 DEF Inode
      <4>3. w1 = lk /\ w2 = x
        <5> HIDE DEF d_dest
        <5> QED
          BY <3>2, <4>2
      <4> HIDE DEF x, w1, w2
      <4> QED
        BY <1>5, <2>1, <3>2, <4>1, <4>3
    <3> QED
      BY <3>1, <3>2
  <2> HIDE DEF w2
  <2>4. w3.fs = w2.fs /\ (bad = {} => w3.rc = "ok")
    <3>1. w2.fs \in FileSystem /\ si \in Live(w2.fs) /\ src = w2.fs.inode[si]
      BY <2>1, <2>3 DEF Shape
    <3> DEFINE x == do_writeinode(w2.fs, si, w2.fs.inode[si], "rename.source", bad)
    <3>2. x.fs = w2.fs /\ (bad = {} => x.rc = "ok")
      <4> HIDE DEF w1, w3, src
      <4>1. x.fs = w2.fs
        BY <3>1, SameWritten
      <4>2. bad = {} => x.rc = "ok"
        BY <3>1, SameWritten
      <4> QED
        BY <4>1, <4>2
    <3>3. w3 = x
      BY <3>1
    <3> HIDE DEF x, w3
    <3> QED
      BY <3>2, <3>3
  <2> HIDE DEF w1, w3, g
  <2>4a. last.inode = w3.fs.inode
    <3>1. w3.fs \in FileSystem
      BY <2>3, <2>4 DEF Shape
    <3> HIDE DEF w3
    <3> QED
      BY <3>1 DEF ext2fs_unlink, SetEntry, FileSystem
  <2>5. /\ Shape(last) /\ Alike(w2.fs, last)
        /\ Named(last) = Put(Named(w2.fs), sd, sn, NoIno)
    <3>1. Named(w2.fs)[sd][sn] = si
      BY <1>0, <1>1, <2>1, <2>3, PutElse
    <3>2. sd \in Dirs(w2.fs)
      BY <2>1, <2>3
    <3>3. ext2fs_namei(w2.fs, sd, sn) = si
      BY <1>0, <3>1, <3>2 DEF Named
    <3>4. si # NoIno
      BY <1>0, RootAssumption
    <3> QED
      BY <2>3, <2>4, <3>2, <3>3, <3>4, UnlinkShape
  <2> HIDE DEF last
  <2>6. w1.rc = "ok" /\ w2.rc = "ok" => Moved(f, last, sd, sn, td, tn, si)
    <3> SUFFICES ASSUME w1.rc = "ok", w2.rc = "ok"
                 PROVE  Moved(f, last, sd, sn, td, tn, si)
      OBVIOUS
    <3>1. Named(last) = Put(Put(Named(f), td, tn, si), sd, sn, NoIno)
      BY <2>1, <2>3, <2>5
    <3>2. Kinds(last) = Kinds(f)
      BY <2>1, <2>3, <2>5 DEF Alike
    <3>3. across => Carried(f, last, sd, td, si)
      BY <2>1, <2>3, <2>5 DEF Alike, Carried
    <3>4. ~ across => Counts(last) = Counts(f) /\ last.dotdot = f.dotdot
      BY <2>1, <2>3, <2>5 DEF Alike
    <3>5. sd # td => last.inode[sd].blk = f.inode[sd].blk
      BY <2>1, <2>3, <2>4, <2>4a
    <3> QED
      BY <2>2, <3>1, <3>2, <3>3, <3>4, <3>5 DEF Moved
  <2>7. Accounted(f) => Accounted(last)
    BY <2>1, <2>3, <2>5 DEF Alike
  <2>8. bad = {} => mv.rc = "ok" /\ mv.fs = last
    BY <1>2, <1>5, <2>3, <2>4
  <2>9. bad = {} => Clean(f, mv) /\ mv.rc = "ok"
    BY <2>7, <2>8 DEF Clean
  <2> QED
    BY <1>2, <2>6, <2>9 DEF mv, MoveDone
<1> QED
  BY <1>4, <1>5

\* Room depends on the blocks of the directory and their entries only.
LEMMA RoomSame ==
    ASSUME NEW f, NEW g, NEW d, NEW n, g.data = f.data, g.inode[d].blk = f.inode[d].blk
    PROVE  Room(g, d, n) = Room(f, d, n)
<1>1. \A b : Entries(g, b) = Entries(f, b)
  BY DEF Entries
<1> QED
  BY <1>1 DEF Room

\* After op_unlink there is room for the name it took.
LEMMA UnlinkRoom ==
    ASSUME IsFiniteSet(Name), NEW f \in FileSystem, Packed(f), NEW d \in Ino,
           NEW n \in Name, NEW bad, op_unlink(f, d, n, bad).rc = "ok"
    PROVE  Room(op_unlink(f, d, n, bad).fs, d, n) # {}
<1> DEFINE t    == ext2fs_namei(f, d, n)
           cut  == ext2fs_unlink(f, d, n, t)
           w1   == do_writeinode(cut, d, f.inode[d], "unlink.parent", bad)
           less == [f.inode[t] EXCEPT !.links = IF @ > 0 THEN @ - 1 ELSE 0]
           w2   == do_writeinode(w1.fs, t, less, "unlink.inode", bad)
           u    == op_unlink(f, d, n, bad)
<1>1. t # NoIno /\ u = IF w1.rc # "ok" THEN w1 ELSE w2
  BY DEF op_unlink, Ret
<1>2. Room(cut, d, n) # {}
  BY <1>1, RoomAgain
<1>3. cut \in FileSystem /\ cut.inode = f.inode
  <2>1. cut.inode = f.inode
    BY DEF ext2fs_unlink, SetEntry, FileSystem
  <2> QED
    BY <2>1, UnlinkTyped
<1>4. f.inode[d] \in Inode /\ t \in Ino /\ f.inode[t] \in Inode
  BY <1>1, NameiTyped DEF FileSystem
<1>5. less \in Inode /\ less.blk = f.inode[t].blk
  <2> DEFINE r == f.inode[t]
             k == IF r.links > 0 THEN r.links - 1 ELSE 0
  <2>1. less = [r EXCEPT !.links = k]
    OBVIOUS
  <2>2. less \in Inode
    BY <1>4, LinksTyped
  <2> HIDE DEF less, k
  <2>3. less.blk = r.blk
    BY <1>4, <2>1, Relinked
  <2> QED
    BY <2>2, <2>3
<1> HIDE DEF u, cut, less, t
<1>6. /\ w1.fs \in FileSystem /\ w1.fs.data = cut.data
      /\ \A j \in Ino : w1.fs.inode[j].blk = f.inode[j].blk
  <2> HIDE DEF w2
  <2>1. w1.fs \in FileSystem
    BY <1>3, <1>4, WriteTyped DEF Result
  <2>2. PICK r \in Inode : r = f.inode[d] /\ r.blk = cut.inode[d].blk
    BY <1>3, <1>4
  <2> DEFINE x == do_writeinode(cut, d, r, "unlink.parent", bad)
  <2>4. x.fs.data = cut.data /\ \A j \in Ino : x.fs.inode[j].blk = cut.inode[j].blk
    BY <1>3, <2>2, WriteBlocks
  <2>3. w1.fs.data = cut.data /\ \A j \in Ino : w1.fs.inode[j].blk = cut.inode[j].blk
    BY <2>2, <2>4
  <2> QED
    BY <1>3, <2>1, <2>3
<1> HIDE DEF w1
<1>7. w2.fs.data = cut.data /\ \A j \in Ino : w2.fs.inode[j].blk = f.inode[j].blk
  BY <1>4, <1>5, <1>6, WriteBlocks
<1> HIDE DEF w2
<1>8. u.fs.data = cut.data /\ u.fs.inode[d].blk = cut.inode[d].blk
  BY <1>1, <1>3, <1>6, <1>7
<1>9. Room(u.fs, d, n) # {}
  BY <1>2, <1>8, RoomSame
<1> QED
  BY <1>9 DEF u

\* After op_rmdir there is room for the name it took.
LEMMA RmdirRoom ==
    ASSUME IsFiniteSet(Name), NEW f \in FileSystem, Packed(f), NEW d \in Ino,
           NEW n \in Name, NEW bad, op_rmdir(f, d, n, bad).rc = "ok"
    PROVE  Room(op_rmdir(f, d, n, bad).fs, d, n) # {}
<1> DEFINE t    == ext2fs_namei(f, d, n)
           cut  == ext2fs_unlink(f, d, n, t)
           k    == do_killfilebyinode(cut, t, f.inode[t], bad)
           less == [k.fs.inode[d] EXCEPT !.links = IF @ > 1 THEN @ - 1 ELSE @]
           w    == do_writeinode(k.fs, d, less, "rmdir.parent", bad)
           u    == op_rmdir(f, d, n, bad)
<1>1. t # NoIno /\ u = IF k.rc # "ok" THEN k ELSE w
  BY DEF op_rmdir, Ret, do_check_empty_dir
<1>2. Room(cut, d, n) # {}
  BY <1>1, RoomAgain
<1>3. cut \in FileSystem /\ cut.inode = f.inode
  <2>1. cut.inode = f.inode
    BY DEF ext2fs_unlink, SetEntry, FileSystem
  <2> QED
    BY <2>1, UnlinkTyped
<1>4. t \in Ino /\ f.inode[t] \in Inode
  BY <1>1, NameiTyped DEF FileSystem
<1> HIDE DEF u, cut, t
<1>5. /\ k.fs \in FileSystem /\ k.fs.data = cut.data
      /\ \A j \in Ino : k.fs.inode[j].blk = f.inode[j].blk
  BY <1>3, <1>4, KillBlocks, KillTyped DEF Result
<1> HIDE DEF k
<1>6. less \in Inode /\ less.blk = k.fs.inode[d].blk
  <2> DEFINE r == k.fs.inode[d]
             c == IF r.links > 1 THEN r.links - 1 ELSE r.links
  <2>0. r \in Inode
    BY <1>5 DEF FileSystem
  <2>1. less = [r EXCEPT !.links = c]
    OBVIOUS
  <2>2. less \in Inode
    BY <2>0, LinksTyped
  <2> HIDE DEF less, c
  <2>3. less.blk = r.blk
    BY <2>0, <2>1, Relinked
  <2> QED
    BY <2>2, <2>3
<1> HIDE DEF less
<1>7. w.fs.data = cut.data /\ \A j \in Ino : w.fs.inode[j].blk = f.inode[j].blk
  BY <1>5, <1>6, WriteBlocks
<1> HIDE DEF w
<1>8. u.fs.data = cut.data /\ u.fs.inode[d].blk = cut.inode[d].blk
  BY <1>1, <1>3, <1>5, <1>7
<1>9. Room(u.fs, d, n) # {}
  BY <1>2, <1>8, RoomSame
<1> QED
  BY <1>9 DEF u

\* The destination is removed by the handler for its kind.
Swept(f, g, d, n, i) ==
    /\ IF IsDir(f, i) THEN DirDropped(f, g, d, n, i) ELSE Dropped(f, g, d, n, i)
    /\ Shape(g) /\ Others(f, g, i, d)

\* op_rename deletes what has the new name.
LEMMA RemoveDestTree ==
    ASSUME IsFiniteSet(Name), NEW f, Shape(f), Packed(f), NEW d \in Dirs(f), NEW n \in Name,
           NEW bad, NEW t, t = ext2fs_namei(f, d, n), t \in Live(f), t # Root,
           IsDir(f, t) => EmptyDir(f, t)
    PROVE  LET u == RemoveDest(f, d, n, bad) IN
           /\ TakesOne(f, u.fs, d, n)
           /\ u.rc = "ok" =>
                /\ Shape(u.fs) /\ Swept(f, u.fs, d, n, t)
                /\ Named(u.fs) = Put(Named(f), d, n, NoIno)
                /\ Live(f) \ {t} \subseteq Live(u.fs)
                /\ Dirs(u.fs) = Dirs(f) \ {t} /\ t # d
                /\ Others(f, u.fs, t, d)
                /\ LinkRoom(f, d) => LinkRoom(u.fs, d)
                /\ Room(u.fs, d, n) # {}
           /\ bad = {} => u.rc = "ok" /\ (Accounted(f) => Accounted(u.fs))
<1> DEFINE u == RemoveDest(f, d, n, bad)
<1>0. f \in FileSystem /\ d \in Live(f) /\ d \in Ino /\ t \in Ino /\ f.inode[d].links \in Nat
  BY BlocksTyped, LiveLinks DEF Shape
<1>1. CASE IsDir(f, t)
  <2>1. u = op_rmdir(f, d, n, bad)
    BY <1>1 DEF RemoveDest
  <2>2. /\ Shape(u.fs) /\ TakesOne(f, u.fs, d, n)
        /\ u.rc = "ok" => /\ t # d
                          /\ DirDropped(f, u.fs, d, n, t)
                          /\ Live(f) \ {t} \subseteq Live(u.fs)
                          /\ Dirs(u.fs) = Dirs(f) \ {t}
                          /\ Others(f, u.fs, t, d)
        /\ bad = {} => Clean(f, u) /\ u.rc = "ok"
    <3> HIDE DEF u
    <3> QED
      BY <1>1, <2>1, OpRmdirTree
  <2>3. u.rc = "ok" => Room(u.fs, d, n) # {}
    BY <1>0, <2>1, RmdirRoom
  <2> HIDE DEF u
  <2>4. u.rc = "ok" /\ LinkRoom(f, d) => LinkRoom(u.fs, d)
    <3> SUFFICES ASSUME u.rc = "ok", LinkRoom(f, d) PROVE LinkRoom(u.fs, d)
      OBVIOUS
    <3>1. d \in Live(u.fs) /\ u.fs \in FileSystem
      BY <1>0, <2>2 DEF Shape
    <3>2. /\ Counts(u.fs)[d] = u.fs.inode[d].links /\ Counts(f)[d] = f.inode[d].links
      BY <1>0, <3>1, CountOf
    <3>3. Counts(u.fs)[d] = LessOne(Counts(f)[d])
      <4>1. Counts(u.fs) = With(With(Counts(f), t, 0), d, LessOne(Counts(f)[d]))
        BY <2>2 DEF DirDropped
      <4> QED
        BY <1>0, <4>1 DEF With, Counts
    <3>4. u.fs.inode[d].links = LessOne(f.inode[d].links)
      BY <3>2, <3>3
    <3> QED
      BY <1>0, <3>4, WidthAssumption DEF LinkRoom, LessOne
  <2>5. Swept(f, u.fs, d, n, t) <=>
          DirDropped(f, u.fs, d, n, t) /\ Shape(u.fs) /\ Others(f, u.fs, t, d)
    BY <1>1 DEF Swept
  <2>6. DirDropped(f, u.fs, d, n, t) => Named(u.fs) = Put(Named(f), d, n, NoIno)
    BY DEF DirDropped
  <2>7. Clean(f, u) => (Accounted(f) => Accounted(u.fs))
    BY DEF Clean
  <2> QED
    BY <2>2, <2>3, <2>4, <2>5, <2>6, <2>7 DEF u
<1>2. CASE ~ IsDir(f, t)
  <2>1. u = op_unlink(f, d, n, bad)
    BY <1>2 DEF RemoveDest
  <2>2. /\ Shape(u.fs) /\ TakesOne(f, u.fs, d, n)
        /\ u.rc = "ok" => /\ Dropped(f, u.fs, d, n, t)
                          /\ Live(f) \ {t} \subseteq Live(u.fs)
                          /\ Dirs(u.fs) = Dirs(f)
                          /\ \A j \in Ino : j # t => u.fs.inode[j] = f.inode[j]
        /\ bad = {} => Clean(f, u) /\ u.rc = "ok"
    <3> HIDE DEF u
    <3> QED
      BY <1>2, <2>1, OpUnlinkTree
  <2>3. u.rc = "ok" => Room(u.fs, d, n) # {}
    BY <1>0, <2>1, UnlinkRoom
  <2> HIDE DEF u
  <2>4. t \notin Dirs(f)
    BY <1>2 DEF Dirs, IsDir
  <2>5. u.rc = "ok" => Others(f, u.fs, t, d) /\ Dirs(u.fs) = Dirs(f) \ {t} /\ t # d
    BY <2>2, <2>4 DEF Others
  <2>6. u.rc = "ok" /\ LinkRoom(f, d) => LinkRoom(u.fs, d)
    BY <1>0, <2>2, <2>5 DEF LinkRoom
  <2>7. Swept(f, u.fs, d, n, t) <=>
          Dropped(f, u.fs, d, n, t) /\ Shape(u.fs) /\ Others(f, u.fs, t, d)
    BY <1>2 DEF Swept
  <2>8. Dropped(f, u.fs, d, n, t) => Named(u.fs) = Put(Named(f), d, n, NoIno)
    BY DEF Dropped
  <2>9. Clean(f, u) => (Accounted(f) => Accounted(u.fs))
    BY DEF Clean
  <2> QED
    BY <2>2, <2>3, <2>5, <2>6, <2>7, <2>8, <2>9 DEF u
<1> QED
  BY <1>1, <1>2

\* The same, with the inodes op_rename read, still as they are on the disk.
LEMMA MoveAfter ==
    ASSUME NEW f, NEW sd, NEW sn \in Name, NEW td, NEW tn \in Name, NEW si, NEW r, NEW s,
           NEW bad, Shape(f), sd \in Dirs(f), td \in Dirs(f), si \in Live(f),
           <<sd, sn>> # <<td, tn>>, si # sd, si # td,
           ext2fs_namei(f, sd, sn) = si, ext2fs_namei(f, td, tn) = NoIno,
           IsDir(f, si) => LinkRoom(f, td), Across(f, sd, td, si) => r = f.inode[sd],
           s = f.inode[si], Room(f, td, tn) # {}
    PROVE  LET mv == MoveEntry(f, sd, sn, r, si, s, td, tn, bad) IN
           MoveDone(f, mv, sd, sn, td, tn, si, bad)
<1> DEFINE mv == MoveEntry(f, sd, sn, r, si, f.inode[si], td, tn, bad)
<1>1. MoveDone(f, mv, sd, sn, td, tn, si, bad)
  BY MoveEntryTree
<1>2. mv = MoveEntry(f, sd, sn, r, si, s, td, tn, bad)
  OBVIOUS
<1> QED
  BY <1>1, <1>2

\* op_rename as a whole.
LEMMA OpRenameTree ==
    ASSUME IsFiniteSet(Name), NEW f, Shape(f), Packed(f),
           NEW sd \in Dirs(f), NEW sn \in Name, NEW td \in Dirs(f), NEW tn \in Name,
           <<sd, sn>> # <<td, tn>>, NEW bad,
           NEW si, si = ext2fs_namei(f, sd, sn), si \in Live(f), si # sd, si # td,
           NEW ti, ti = ext2fs_namei(f, td, tn), ti \in Live(f) \cup {NoIno}, ti # Root,
           IsDir(f, si) => LinkRoom(f, td)
    PROVE  LET op == op_rename(f, sd, sn, td, tn, bad) IN
           /\ op.rc = "ok" =>
                \/ ti = NoIno /\ Moved(f, op.fs, sd, sn, td, tn, si)
                \/ ti = si /\ op.fs = f
                \/ ti \notin {NoIno, si} /\ bad # {} /\ TakesOne(f, op.fs, td, tn)
                \/ /\ ti \notin {NoIno, si} /\ RenameRefusal(f, si, ti) = "ok"
                   /\ \E h : Swept(f, h, td, tn, ti) /\ Moved(h, op.fs, sd, sn, td, tn, si)
           /\ bad = {} => Clean(f, op)
<1> DEFINE rm == RemoveDest(f, td, tn, bad)
           Move(g) == MoveEntry(g, sd, sn, f.inode[sd], si, f.inode[si], td, tn, bad)
           op == op_rename(f, sd, sn, td, tn, bad)
<1>0. /\ f \in FileSystem /\ sd \in Live(f) /\ sd \in Ino /\ td \in Live(f) /\ td \in Ino
      /\ si \in Ino /\ si # NoIno
  BY BlocksTyped, RootAssumption DEF Shape
<1>1. op = IF "readinode" \in bad THEN Ret(f, "EIO")
           ELSE IF ti = NoIno THEN Move(f)
           ELSE IF si = ti THEN Ret(f, "ok")
           ELSE IF RenameRefusal(f, si, ti) # "ok" THEN Ret(f, RenameRefusal(f, si, ti))
           ELSE IF rm.rc # "ok" THEN Ret(rm.fs, "ok")
           ELSE IF "rename.reread" \in bad THEN Ret(rm.fs, "EIO")
           ELSE Move(rm.fs)
  BY <1>0 DEF op_rename
<1> HIDE DEF op
<1>2. CASE "readinode" \in bad \/ (ti # NoIno /\ (si = ti \/ RenameRefusal(f, si, ti) # "ok"))
  <2> HIDE DEF rm, Move
  <2>1. op.fs = f /\ (op.rc = "ok" => ti = si)
    BY <1>1, <1>2 DEF Ret
  <2>2. Clean(f, op)
    BY <2>1, Unchanged
  <2> QED
    BY <2>1, <2>2 DEF op
<1>3. CASE "readinode" \notin bad /\ ti = NoIno
  <2>1. op = Move(f)
    BY <1>1, <1>3
  <2>2. MoveDone(f, Move(f), sd, sn, td, tn, si, bad)
    BY <1>3, MoveEntryTree
  <2> HIDE DEF Move
  <2> QED
    BY <1>3, <2>1, <2>2 DEF op, MoveDone
<1>4. CASE "readinode" \notin bad /\ ti # NoIno /\ si # ti /\ RenameRefusal(f, si, ti) = "ok"
  <2>1. op = IF rm.rc # "ok" THEN Ret(rm.fs, "ok")
             ELSE IF "rename.reread" \in bad THEN Ret(rm.fs, "EIO")
             ELSE Move(rm.fs)
    BY <1>1, <1>4
  <2>2. ti \in Live(f) /\ (IsDir(f, ti) => EmptyDir(f, ti))
    BY <1>4 DEF RenameRefusal, do_check_empty_dir
  <2>3. /\ TakesOne(f, rm.fs, td, tn)
        /\ rm.rc = "ok" =>
             /\ Shape(rm.fs) /\ Swept(f, rm.fs, td, tn, ti)
             /\ Named(rm.fs) = Put(Named(f), td, tn, NoIno)
             /\ Live(f) \ {ti} \subseteq Live(rm.fs)
             /\ Dirs(rm.fs) = Dirs(f) \ {ti} /\ ti # td
             /\ Others(f, rm.fs, ti, td)
             /\ LinkRoom(f, td) => LinkRoom(rm.fs, td)
             /\ Room(rm.fs, td, tn) # {}
        /\ bad = {} => rm.rc = "ok" /\ (Accounted(f) => Accounted(rm.fs))
    BY <2>2, RemoveDestTree
  <2> HIDE DEF rm
  <2>4. CASE rm.rc # "ok"
    <3>1. op.fs = rm.fs /\ bad # {}
      BY <2>1, <2>3, <2>4 DEF Ret
    <3> QED
      BY <1>4, <2>3, <3>1 DEF op
  <2>5. CASE rm.rc = "ok" /\ "rename.reread" \in bad
    <3>1. op.rc # "ok" /\ bad # {}
      BY <2>1, <2>5 DEF Ret
    <3> QED
      BY <3>1 DEF op
  <2>6. CASE rm.rc = "ok" /\ "rename.reread" \notin bad
    <3>0. PICK h : h = rm.fs
      OBVIOUS
    <3>1. op = Move(h)
      BY <2>1, <2>6, <3>0
    <3>2. /\ Shape(h) /\ Swept(f, h, td, tn, ti)
          /\ Named(h) = Put(Named(f), td, tn, NoIno)
          /\ Live(f) \ {ti} \subseteq Live(h)
          /\ Dirs(h) = Dirs(f) \ {ti} /\ ti # td
          /\ Others(f, h, ti, td)
          /\ LinkRoom(f, td) => LinkRoom(h, td)
          /\ Room(h, td, tn) # {}
          /\ bad = {} /\ Accounted(f) => Accounted(h)
      BY <2>3, <2>6, <3>0
    <3>3. sd # ti
      <4>1. Named(f)[sd][sn] = si
        BY <1>0 DEF Named
      <4>2. ~ EmptyDir(f, sd)
        BY <1>0, <4>1, EmptyNames
      <4> QED
        BY <2>2, <4>2 DEF Dirs, IsDir
    <3>4. sd \in Dirs(h) /\ td \in Dirs(h) /\ si \in Live(h)
      BY <1>4, <3>2, <3>3
    <3>5. ext2fs_namei(h, sd, sn) = si /\ ext2fs_namei(h, td, tn) = NoIno
      <4>1. Named(f)[sd][sn] = si /\ Named(f) \in [Ino -> [Name -> Ino \cup {NoIno}]]
        BY <1>0, NamedTyped DEF Named
      <4>2. Named(h)[sd][sn] = si /\ Named(h)[td][tn] = NoIno
        BY <1>0, <3>2, <4>1, PutElse
      <4> QED
        BY <1>0, <3>4, <4>2 DEF Named
    <3>6. /\ h.inode[si] = f.inode[si]
          /\ sd # td => h.inode[sd] = f.inode[sd]
      BY <1>0, <1>4, <3>2, <3>3 DEF Others
    <3>7. /\ IsDir(h, si) => LinkRoom(h, td)
          /\ Across(h, sd, td, si) => f.inode[sd] = h.inode[sd]
      BY <3>2, <3>6 DEF IsDir, Across
    <3> HIDE DEF Move
    <3>12. PICK r : r = f.inode[sd]
      OBVIOUS
    <3> DEFINE mv == MoveEntry(h, sd, sn, r, si, h.inode[si], td, tn, bad)
    <3>8. MoveDone(h, mv, sd, sn, td, tn, si, bad)
      <4>1. Across(h, sd, td, si) => r = h.inode[sd]
        BY <3>7, <3>12
      <4>2. Shape(h) /\ Room(h, td, tn) # {}
        BY <3>2
      <4>3. sn \in Name /\ tn \in Name /\ <<sd, sn>> # <<td, tn>> /\ si # sd /\ si # td
        OBVIOUS
      <4>4. h.inode[si] = h.inode[si]
        OBVIOUS
      <4> HIDE DEF mv
      <4> QED
        BY <3>4, <3>5, <3>7, <4>1, <4>2, <4>3, <4>4, MoveAfter, Zenon DEF mv
    <3>9. mv = op
      BY <3>1, <3>6, <3>12 DEF Move
    <3> HIDE DEF mv
    <3>10. bad = {} => Clean(f, op)
      BY <3>2, <3>8, <3>9 DEF Clean, MoveDone
    <3>11. op.rc = "ok" => Swept(f, h, td, tn, ti) /\ Moved(h, op.fs, sd, sn, td, tn, si)
      BY <3>2, <3>8, <3>9 DEF MoveDone
    <3> QED
      BY <1>4, <3>10, <3>11 DEF op
  <2> QED
    BY <2>4, <2>5, <2>6
<1> QED
  BY <1>2, <1>3, <1>4

-----------------------------------------------------------------------------
(* Handlers that work on the contents of a file *)

\* op_write grows the file: nothing shows.
LEMMA OpWriteTree ==
    ASSUME NEW f, Shape(f), NEW d, NEW n, NEW bad,
           NEW i, i = ext2fs_namei(f, d, n), i \in Live(f)
    PROVE  LET op == op_write(f, d, n, bad) IN
           /\ SameTree(f, op.fs)
           /\ Accounted(f) => Accounted(op.fs)
<1> DEFINE o == do_open(f, d, n, bad \ {"open.atime", "readinode"})
           g == ext2fs_file_grow(f, i)
           op == op_write(f, d, n, bad)
<1>1. f \in FileSystem
  BY DEF Shape
<1>2. o.fs = f
  BY <1>1, OpenTree
<1>3. op = IF "write.data" \in bad THEN Ret(f, "EIO")
           ELSE IF FreeBlocks(f) = {} THEN Ret(f, "short")
           ELSE Ret(g, "ok")
  BY <1>2 DEF op_write
<1> HIDE DEF op
<1>4. FreeBlocks(f) # {} => SameTree(f, g) /\ (Accounted(f) => Accounted(g))
  <2> SUFFICES ASSUME FreeBlocks(f) # {}
               PROVE  SameTree(f, g) /\ (Accounted(f) => Accounted(g))
    OBVIOUS
  <2>1. Alike(f, g) /\ Named(g) = Named(f)
    BY GrowShape
  <2> QED
    BY <2>1 DEF Alike, SameTree
<1> HIDE DEF g
<1>5. SameTree(f, f)
  BY DEF SameTree
<1>6. op.fs = f \/ (FreeBlocks(f) # {} /\ op.fs = g)
  BY <1>3 DEF Ret
<1> QED
  BY <1>4, <1>5, <1>6 DEF op

\* op_truncate gives the blocks back: nothing shows.
LEMMA OpTruncateTree ==
    ASSUME NEW f, Shape(f), NEW d, NEW n, NEW bad,
           NEW i, i = ext2fs_namei(f, d, n), i \in Live(f), ~ IsDir(f, i)
    PROVE  LET op == op_truncate(f, d, n, bad) IN
           /\ SameTree(f, op.fs)
           /\ Accounted(f) => Accounted(op.fs)
<1> DEFINE o  == do_open(f, d, n, bad)
           g  == ext2fs_file_clear(f, i)
           w  == do_writeinode(g, i, g.inode[i], "truncate.inode", bad)
           op == op_truncate(f, d, n, bad)
<1>1. f \in FileSystem
  BY DEF Shape
<1>2. o.fs = f
  BY <1>1, OpenTree
<1>3. op = IF o.rc # "ok" THEN Ret(f, "ENOENT")
           ELSE IF "truncate.size" \in bad THEN Ret(f, "EIO")
           ELSE Ret(w.fs, IF w.rc = "ok" THEN "ok" ELSE "EIO")
  BY <1>2 DEF op_truncate
<1> HIDE DEF o, op
<1>4. Shape(g) /\ Alike(f, g) /\ Named(g) = Named(f)
  BY ClearShape
<1> HIDE DEF g
<1>5. SameTree(f, g) /\ (Accounted(f) => Accounted(g))
  BY <1>4 DEF Alike, SameTree
<1>6. w.fs = g
  <2>1. i \in Live(g) /\ g \in FileSystem
    BY <1>4 DEF Alike, Shape
  <2> QED
    BY <2>1, SameWritten
<1> HIDE DEF w
<1>7. SameTree(f, f)
  BY DEF SameTree
<1>8. op.fs \in {f, g}
  BY <1>3, <1>6 DEF Ret
<1> QED
  BY <1>5, <1>7, <1>8 DEF op

-----------------------------------------------------------------------------
(* Subtrees *)

\* A set of numbers has a least one (< on Nat is well-founded).
LEMMA LeastNat ==
    ASSUME NEW T, T \subseteq Nat, T # {}
    PROVE  \E x \in T : \A y \in T : x <= y
<1>1. PICK x \in T : \A y \in T : ~ (<<y, x>> \in OpToRel(<, Nat))
  BY NatLessThanWellFounded, WFMin
<1>2. \A y \in T : ~ (y < x)
  BY <1>1 DEF OpToRel
<1> QED
  BY <1>2

\* Induction over Nat for a set, not an operator: the least number outside T
\* would be neither 0 nor a successor.
LEMMA Induction ==
    ASSUME NEW S, 0 \in S, \A k \in Nat : k \in S => k + 1 \in S
    PROVE  \A k \in Nat : k \in S
<1> SUFFICES ASSUME Nat \ S # {} PROVE FALSE
  OBVIOUS
<1>1. PICK x \in Nat \ S : \A y \in Nat \ S : x <= y
  BY LeastNat
<1>2. x # 0 /\ x - 1 \in Nat /\ x - 1 \in S
  BY <1>1
<1> QED
  BY <1>1, <1>2

\* A function that is applied again and again: the table of its results.
IsTable(W, F, x) == W = [k \in Nat |-> IF k = 0 THEN x ELSE F[W[k - 1]]]

LEMMA Iterated ==
    ASSUME NEW F, NEW x
    PROVE  \E W : IsTable(W, F, x)
<1> DEFINE IsRun(g, m) == \A k \in 0 .. m : g[k] = IF k = 0 THEN x ELSE F[g[k - 1]]
           S == {m \in Nat : \E g : IsRun(g, m)}
<1>1. \A m \in Nat : m \in S
  <2>1. 0 \in S
    <3> DEFINE g == [k \in {0} |-> x]
    <3>1. IsRun(g, 0)
      OBVIOUS
    <3> QED
      BY <3>1
  <2>2. ASSUME NEW m \in Nat, m \in S PROVE m + 1 \in S
    <3>1. PICK g : IsRun(g, m)
      BY <2>2
    <3> DEFINE h == [k \in 0 .. m + 1 |-> IF k = m + 1 THEN F[g[m]] ELSE g[k]]
    <3>2. \A k \in 0 .. m : h[k] = g[k]
      OBVIOUS
    <3>3. h[m + 1] = F[h[m]]
      BY <3>2
    <3> HIDE DEF h
    <3>4. ASSUME NEW k \in 0 .. m + 1
          PROVE  h[k] = IF k = 0 THEN x ELSE F[h[k - 1]]
      <4>1. CASE k = m + 1
        BY <3>3, <4>1
      <4>2. CASE k # m + 1
        <5>1. k \in 0 .. m /\ (k # 0 => k - 1 \in 0 .. m)
          BY <4>2
        <5> QED
          BY <3>1, <3>2, <5>1
      <4> QED
        BY <4>1, <4>2
    <3>5. IsRun(h, m + 1)
      BY <3>4
    <3> QED
      BY <3>5
  <2> HIDE DEF S
  <2> QED
    BY <2>1, <2>2, Induction
<1>2. ASSUME NEW m \in Nat, NEW l \in Nat, NEW g, NEW h, IsRun(g, m), IsRun(h, l)
      PROVE  \A k \in Nat : k <= m /\ k <= l => g[k] = h[k]
  <2> DEFINE T == {k \in Nat : k <= m /\ k <= l => g[k] = h[k]}
  <2>1. 0 \in T
    BY <1>2
  <2>2. ASSUME NEW k \in Nat, k \in T PROVE k + 1 \in T
    <3> SUFFICES ASSUME k + 1 <= m, k + 1 <= l PROVE g[k + 1] = h[k + 1]
      OBVIOUS
    <3>1. g[k] = h[k]
      BY <2>2
    <3>2. k + 1 \in 0 .. m /\ k + 1 \in 0 .. l /\ k + 1 # 0 /\ (k + 1) - 1 = k
      OBVIOUS
    <3>3. g[k + 1] = F[g[k]] /\ h[k + 1] = F[h[k]]
      BY <1>2, <3>2
    <3> QED
      BY <3>1, <3>3
  <2>3. \A k \in Nat : k \in T
    <3> HIDE DEF T
    <3> QED
      BY <2>1, <2>2, Induction
  <2> QED
    BY <2>3
<1> DEFINE run(m) == CHOOSE g : IsRun(g, m)
           W == [k \in Nat |-> run(k)[k]]
<1>3. \A m \in Nat : IsRun(run(m), m)
  BY <1>1
<1>4. ASSUME NEW k \in Nat PROVE W[k] = IF k = 0 THEN x ELSE F[W[k - 1]]
  <2>1. IsRun(run(k), k)
    BY <1>3
  <2> HIDE DEF run
  <2>2. CASE k = 0
    BY <2>1, <2>2
  <2>3. CASE k # 0
    <3>1. k - 1 \in Nat /\ k - 1 <= k /\ k \in 0 .. k
      BY <2>3
    <3>2. IsRun(run(k - 1), k - 1)
      BY <1>3, <3>1
    <3>3. run(k)[k - 1] = run(k - 1)[k - 1]
      <4> DEFINE g == run(k)
                 h == run(k - 1)
                 l == k - 1
      <4>1. IsRun(g, k) /\ IsRun(h, l) /\ l \in Nat /\ l <= k /\ l <= l
        BY <2>1, <3>1, <3>2
      <4> HIDE DEF IsRun, g, h, l
      <4>2. g[l] = h[l]
        BY <1>2, <4>1
      <4> QED
        BY <4>2 DEF g, h, l
    <3>4. run(k)[k] = F[run(k)[k - 1]]
      BY <2>1, <2>3, <3>1
    <3> QED
      BY <2>3, <3>1, <3>3, <3>4
  <2> QED
    BY <2>2, <2>3
<1>5. IsTable(W, F, x)
  <2> HIDE DEF IsRun, run
  <2> QED
    BY <1>4 DEF IsTable
<1> QED
  BY <1>5

\* A set of inodes with all that is below it.
Closed(f, S) == Children(f, S) \cap Ino \subseteq S

\* The rounds in which Subtree collects what is below i.
Rounds(f, i, W) ==
    \A k \in Nat : /\ W[k] \subseteq Ino
                   /\ W[k] = IF k = 0 THEN {i}
                             ELSE W[k - 1] \cup (Children(f, W[k - 1]) \cap Ino)

\* The rounds by which Subtree is defined.
LEMMA SubtreeRounds ==
    ASSUME NEW f, NEW i \in Ino
    PROVE  \E W : Rounds(f, i, W) /\ Subtree(f, i) = {i} \cup W[Cardinality(Ino)]
<1> DEFINE F == [S \in SUBSET Ino |-> S \cup (Children(f, S) \cap Ino)]
           Eq(W) == W = [k \in Nat |-> IF k = 0 THEN {i}
                                ELSE W[k - 1] \cup (Children(f, W[k - 1]) \cap Ino)]
<1>1. PICK W : IsTable(W, F, {i})
  BY Iterated
<1>2. \A k \in Nat : W[k] = IF k = 0 THEN {i} ELSE F[W[k - 1]]
  <2> HIDE DEF F
  <2> QED
    BY <1>1 DEF IsTable
<1> DEFINE T == {k \in Nat : W[k] \subseteq Ino}
<1>3. \A k \in Nat : k \in T
  <2>1. 0 \in T
    BY <1>2
  <2>2. ASSUME NEW k \in Nat, k \in T PROVE k + 1 \in T
    <3>1. k + 1 \in Nat /\ k + 1 # 0 /\ (k + 1) - 1 = k
      OBVIOUS
    <3>2. W[k + 1] = F[W[k]]
      <4> HIDE DEF F
      <4> QED
        BY <1>2, <3>1
    <3>3. F[W[k]] \subseteq Ino
      BY <2>2
    <3> HIDE DEF F
    <3> QED
      BY <3>1, <3>2, <3>3
  <2> HIDE DEF T
  <2> QED
    BY <2>1, <2>2, Induction
<1>4. ASSUME NEW k \in Nat, k # 0
      PROVE  F[W[k - 1]] = W[k - 1] \cup (Children(f, W[k - 1]) \cap Ino)
  <2>1. k - 1 \in Nat
    BY <1>4
  <2> QED
    BY <1>3, <2>1
<1> HIDE DEF F
<1>5. Eq(W)
  <2>1. W = [k \in Nat |-> W[k]]
    BY <1>1 DEF IsTable
  <2> QED
    BY <1>2, <1>4, <2>1
<1> DEFINE V == CHOOSE g : Eq(g)
<1>6. Eq(V)
  <2> HIDE DEF Eq
  <2> QED
    BY <1>5
<1>7. Subtree(f, i) = {i} \cup V[Cardinality(Ino)]
  BY DEF Subtree
<1> HIDE DEF V
<1>8. \A k \in Nat : V[k] = IF k = 0 THEN {i}
                            ELSE V[k - 1] \cup (Children(f, V[k - 1]) \cap Ino)
  BY <1>6
<1> DEFINE U == {k \in Nat : V[k] \subseteq Ino}
<1>9. \A k \in Nat : k \in U
  <2>1. 0 \in U
    BY <1>8
  <2>2. ASSUME NEW k \in Nat, k \in U PROVE k + 1 \in U
    <3>1. k + 1 \in Nat /\ k + 1 # 0 /\ (k + 1) - 1 = k
      OBVIOUS
    <3>2. V[k + 1] = V[k] \cup (Children(f, V[k]) \cap Ino)
      BY <1>8, <3>1
    <3> QED
      BY <2>2, <3>2
  <2> HIDE DEF U
  <2> QED
    BY <2>1, <2>2, Induction
<1>10. Rounds(f, i, V)
  BY <1>8, <1>9 DEF Rounds
<1> QED
  BY <1>7, <1>10

\* A larger set has no fewer children.
LEMMA ChildrenGrow ==
    ASSUME NEW f, NEW S, NEW T, S \subseteq T
    PROVE  Children(f, S) \subseteq Children(f, T)
  BY DEF Children

\* Subtree finds what is below i and nothing else ...
LEMMA SubtreeLeast ==
    ASSUME IsFiniteSet(Ino), NEW f, NEW i \in Ino, NEW S, i \in S, Closed(f, S)
    PROVE  Subtree(f, i) \subseteq S
<1>1. PICK W : Rounds(f, i, W) /\ Subtree(f, i) = {i} \cup W[Cardinality(Ino)]
  BY SubtreeRounds
<1>2. \A k \in Nat : W[k] = IF k = 0 THEN {i}
                            ELSE W[k - 1] \cup (Children(f, W[k - 1]) \cap Ino)
  BY <1>1 DEF Rounds
<1> DEFINE T == {k \in Nat : W[k] \subseteq S}
<1>3. 0 \in T
  BY <1>2
<1>4. ASSUME NEW k \in Nat, k \in T PROVE k + 1 \in T
  <2>1. k + 1 \in Nat /\ k + 1 # 0 /\ (k + 1) - 1 = k
    OBVIOUS
  <2>2. W[k + 1] = W[k] \cup (Children(f, W[k]) \cap Ino)
    BY <1>2, <2>1
  <2>3. Children(f, W[k]) \subseteq Children(f, S)
    BY <1>4, ChildrenGrow
  <2> QED
    BY <1>4, <2>2, <2>3 DEF Closed
<1>5. \A k \in Nat : k \in T
  <2> HIDE DEF T
  <2> QED
    BY <1>3, <1>4, Induction
<1>6. Cardinality(Ino) \in Nat
  BY FS_CardinalityType
<1> QED
  BY <1>1, <1>5, <1>6

\* ... and finds all of it: a round that adds nothing is the last one that
\* does, and there are not more inodes than rounds.
LEMMA SubtreeClosed ==
    ASSUME IsFiniteSet(Ino), NEW f, NEW i \in Ino
    PROVE  /\ i \in Subtree(f, i) /\ Subtree(f, i) \subseteq Ino
           /\ Closed(f, Subtree(f, i))
<1>1. PICK W : Rounds(f, i, W) /\ Subtree(f, i) = {i} \cup W[Cardinality(Ino)]
  BY SubtreeRounds
<1> DEFINE N == Cardinality(Ino)
<1>2. \A k \in Nat : /\ W[k] \subseteq Ino
                     /\ W[k] = IF k = 0 THEN {i}
                               ELSE W[k - 1] \cup (Children(f, W[k - 1]) \cap Ino)
  BY <1>1 DEF Rounds
<1>3. N \in Nat
  BY FS_CardinalityType
<1>4. ASSUME NEW k \in Nat
      PROVE  /\ W[k + 1] = W[k] \cup (Children(f, W[k]) \cap Ino)
             /\ W[k] \subseteq W[k + 1]
             /\ W[k + 1] \subseteq Ino
  <2>1. k + 1 \in Nat /\ k + 1 # 0 /\ (k + 1) - 1 = k
    OBVIOUS
  <2> QED
    BY <1>2, <2>1
<1>5. ASSUME NEW k \in Nat PROVE IsFiniteSet(W[k]) /\ Cardinality(W[k]) \in Nat
                                 /\ Cardinality(W[k]) <= N
  BY <1>2, FS_Subset, FS_CardinalityType
<1>6. W[0] = {i} /\ 0 \in Nat
  BY <1>2
<1> HIDE DEF N
<1>7. \E k \in Nat : k <= N /\ W[k + 1] = W[k]
  <2> SUFFICES ASSUME \A k \in Nat : k <= N => W[k + 1] # W[k] PROVE FALSE
    OBVIOUS
  <2> DEFINE T == {k \in Nat : k <= N + 1 => Cardinality(W[k]) >= k + 1}
  <2>1. 0 \in T
    <3>1. Cardinality({i}) = 1
      BY FS_Singleton
    <3> QED
      BY <1>6, <3>1
  <2>2. ASSUME NEW k \in Nat, k \in T PROVE k + 1 \in T
    <3> SUFFICES ASSUME k + 1 <= N + 1 PROVE Cardinality(W[k + 1]) >= (k + 1) + 1
      OBVIOUS
    <3>1. k <= N /\ Cardinality(W[k]) >= k + 1
      BY <1>3, <2>2
    <3>2. W[k] \subseteq W[k + 1] /\ W[k + 1] # W[k]
      BY <1>4, <3>1
    <3>3. Cardinality(W[k]) < Cardinality(W[k + 1])
      <4>1. k + 1 \in Nat
        OBVIOUS
      <4>2. IsFiniteSet(W[k + 1])
        BY <1>5, <4>1
      <4>3. Cardinality(W[k]) <= Cardinality(W[k + 1])
        BY <3>2, <4>2, FS_Subset
      <4>4. Cardinality(W[k]) # Cardinality(W[k + 1])
        BY <3>2, <4>2, FS_Subset
      <4>5. Cardinality(W[k]) \in Nat /\ Cardinality(W[k + 1]) \in Nat
        BY <1>5, <4>1
      <4> QED
        BY <4>3, <4>4, <4>5
    <3>4. Cardinality(W[k]) \in Nat /\ Cardinality(W[k + 1]) \in Nat
      BY <1>5
    <3> QED
      BY <3>1, <3>3, <3>4
  <2>3. \A k \in Nat : k \in T
    <3> HIDE DEF T
    <3> QED
      BY <2>1, <2>2, Induction
  <2>4. N + 1 \in Nat /\ Cardinality(W[N + 1]) >= (N + 1) + 1
    BY <1>3, <2>3
  <2>5. Cardinality(W[N + 1]) \in Nat /\ Cardinality(W[N + 1]) <= N
    BY <1>5, <2>4
  <2> QED
    BY <1>3, <2>4, <2>5
<1>8. PICK k \in Nat : k <= N /\ W[k + 1] = W[k]
  BY <1>7
<1>9. Children(f, W[k]) \cap Ino \subseteq W[k]
  BY <1>4, <1>8
<1>10. \A j \in Nat : W[k + j] = W[k]
  <2> DEFINE T == {j \in Nat : W[k + j] = W[k]}
  <2>1. 0 \in T
    OBVIOUS
  <2>2. ASSUME NEW j \in Nat, j \in T PROVE j + 1 \in T
    <3>1. k + j \in Nat /\ (k + j) + 1 = k + (j + 1)
      OBVIOUS
    <3>2. W[(k + j) + 1] = W[k + j] \cup (Children(f, W[k + j]) \cap Ino)
      BY <1>4, <3>1
    <3>3. W[k + j] = W[k]
      BY <2>2
    <3>4. W[(k + j) + 1] = W[k]
      BY <1>9, <3>2, <3>3
    <3> QED
      BY <3>1, <3>4
  <2>3. \A j \in Nat : j \in T
    <3> HIDE DEF T
    <3> QED
      BY <2>1, <2>2, Induction
  <2> QED
    BY <2>3
<1>11. W[N] = W[k]
  <2>1. N - k \in Nat /\ k + (N - k) = N
    BY <1>3, <1>8
  <2> QED
    BY <1>10, <2>1
<1>12. i \in W[k]
  <2> DEFINE T == {j \in Nat : i \in W[j]}
  <2>1. 0 \in T
    BY <1>6
  <2>2. ASSUME NEW j \in Nat, j \in T PROVE j + 1 \in T
    BY <1>4, <2>2
  <2>3. \A j \in Nat : j \in T
    <3> HIDE DEF T
    <3> QED
      BY <2>1, <2>2, Induction
  <2> QED
    BY <2>3
<1>13. Subtree(f, i) = W[k]
  BY <1>1, <1>11, <1>12 DEF N
<1> QED
  BY <1>2, <1>9, <1>12, <1>13 DEF Closed

-----------------------------------------------------------------------------
(* What a request did *)

\* No directory a path leads to is in itself.
LEMMA NotInItself ==
    ASSUME FiniteNames, IsFiniteSet(Ino), NEW f, Good(f, NoIno),
           NEW d \in PathDirs(f), NEW n \in Name
    PROVE  ext2fs_namei(f, d, n) # d
<1> SUFFICES ASSUME ext2fs_namei(f, d, n) = d PROVE FALSE
  OBVIOUS
<1>0. /\ f \in FileSystem /\ d \in Dirs(f) /\ d \in Live(f) /\ d \in Ino /\ d # NoIno
      /\ Root \in Ino /\ Disjoint(f)
  BY BlocksTyped, RootAssumption DEF PathDirs, Good
<1>1. Holds(f, d, n, d) /\ d # Root
  BY <1>0, LookupHolds
<1>2. PICK b \in f.inode[d].blk : f.data[b][n] = d
  BY <1>1 DEF Holds
<1>3. <<b, n>> \in Refs(f, d)
  BY <1>0, <1>2 DEF Refs, DirBlocks
<1>4. Cardinality(Refs(f, d)) <= 1
  <2>1. Cardinality(Refs(f, d)) <= Cap(f, d) + 0
    BY <1>0 DEF Good
  <2>2. Cap(f, d) = 1
    BY <1>0, <1>1 DEF Cap, Dirs, IsDir
  <2> QED
    BY <2>1, <2>2
<1>5. Refs(f, d) = {<<b, n>>}
  <2>1. IsFiniteSet(Refs(f, d)) /\ Cardinality(Refs(f, d)) \in Nat
    BY <1>0, RefsFinite
  <2> DEFINE s == <<b, n>>
  <2>2. Cardinality({s}) = 1
    BY FS_Singleton
  <2>3. {s} \in SUBSET Refs(f, d)
    BY <1>3
  <2> HIDE DEF s
  <2>4. Cardinality({s}) <= Cardinality(Refs(f, d))
    BY <2>1, <2>3, FS_Subset
  <2>5. Cardinality({s}) = Cardinality(Refs(f, d))
    BY <1>4, <2>1, <2>2, <2>4
  <2>6. {s} = Refs(f, d)
    BY <2>1, <2>3, <2>5, FS_Subset
  <2> QED
    BY <2>6 DEF s
<1> DEFINE S == Ino \ {d}
<1>6. Closed(f, S)
  <2> SUFFICES ASSUME NEW j \in Children(f, S) \cap Ino, j = d PROVE FALSE
    BY DEF Closed
  <2>1. PICK e \in S \cap Dirs(f) :
          \E c \in f.inode[e].blk, m \in Name : f.data[c][m] = d
    BY DEF Children
  <2>6. PICK c \in f.inode[e].blk, m \in Name : f.data[c][m] = d
    BY <2>1
  <2>2. <<c, m>> \in Refs(f, d)
    BY <1>0, <2>6 DEF Refs, DirBlocks
  <2>3. c = b
    BY <1>5, <2>2
  <2>4. e \in Live(f) /\ e # d
    BY <1>0, <2>1, BlocksTyped
  <2>5. f.inode[e].blk \cap f.inode[d].blk = {}
    BY <1>0, <2>4 DEF Disjoint
  <2> QED
    BY <1>2, <2>3, <2>5, <2>6
<1>7. Subtree(f, Root) \subseteq S
  BY <1>0, <1>1, <1>6, SubtreeLeast
<1> QED
  BY <1>7 DEF PathDirs

Nameless(f, d, n) == d \in Dirs(f) /\ n \in Name /\ Named(f)[d][n] = NoIno
Leads(f, d, n, i) == d \in Dirs(f) /\ n \in Name /\ Named(f)[d][n] = i /\ i \in Live(f)

DidMake(f, g, i, k) == \E d \in Dirs(f), n \in Name :
    /\ Nameless(f, d, n) /\ i \in Ino \ f.imap
    /\ Made(f, g, d, n, i, k)
DidMkdir(f, g, i) == \E d \in Dirs(f), n \in Name :
    /\ Nameless(f, d, n) /\ i \in Ino \ f.imap
    /\ DirMade(f, g, d, n, i)
DidLink(f, g, i) == \E d \in Dirs(f), n \in Name :
    /\ Nameless(f, d, n) /\ i \in Live(f) /\ ~ IsDir(f, i)
    /\ Linked(f, g, d, n, i)
DidUnlink(f, g, i) == \E d \in Dirs(f), n \in Name :
    /\ Leads(f, d, n, i) /\ ~ IsDir(f, i)
    /\ Dropped(f, g, d, n, i)
DidRmdir(f, g, i) == \E d \in Dirs(f), n \in Name :
    /\ Leads(f, d, n, i) /\ IsDir(f, i) /\ EmptyDir(f, i) /\ i # Root /\ i # d
    /\ DirDropped(f, g, d, n, i)

\* A name of i that may move to another place.
Movable(f, sd, sn, td, tn, i) ==
    /\ Leads(f, sd, sn, i) /\ td \in Dirs(f) /\ tn \in Name
    /\ <<sd, sn>> # <<td, tn>> /\ i # sd /\ i # td /\ i # Root
    /\ IsDir(f, i) => td \notin Subtree(f, i)
DidRename(f, g, i) == \E sd \in Dirs(f), sn \in Name, td \in Dirs(f), tn \in Name :
    /\ Movable(f, sd, sn, td, tn, i)
    /\ LET t == Named(f)[td][tn] IN
        \/ t = i /\ g = f
        \/ t = NoIno /\ Moved(f, g, sd, sn, td, tn, i)
        \/ /\ t \in Live(f) \ {i, Root} /\ RenameRefusal(f, i, t) = "ok"
           /\ \E h : Swept(f, h, td, tn, t) /\ Moved(h, g, sd, sn, td, tn, i)
\* A rename that returned 0 because what it could not delete was in the way.
DidSwallow(f, g, i) == \E td \in Dirs(f), tn \in Name :
    i \in Live(f) /\ Named(f)[td][tn] # i /\ TakesOne(f, g, td, tn)

Did(f, g, op, i) ==
    \/ op \in {"open", "write", "truncate"} /\ SameTree(f, g)
    \/ op \in {"create", "mknod", "symlink"} /\ \E k \in Kind \ {"dir"} : DidMake(f, g, i, k)
    \/ op = "mkdir" /\ DidMkdir(f, g, i)
    \/ op = "link" /\ DidLink(f, g, i)
    \/ op = "unlink" /\ DidUnlink(f, g, i)
    \/ op = "rmdir" /\ DidRmdir(f, g, i)
    \/ op = "rename" /\ DidRename(f, g, i)

\* A long symbolic link whose target found no block.
HalfLink(f, g, r) ==
    /\ r.op = "symlink" /\ DidMake(f, g, r.ino, "lnk")
    /\ r.ino \in Live(g) /\ g.inode[r.ino].blk = {}

\* The reply r tells what happened: when it is 0, for any failures; when it is
\* not, for none.
Tells(f, g, r, bad) ==
    /\ r.rc = "ok" => \/ Did(f, g, r.op, r.ino)
                      \/ bad # {} /\ r.op = "rename" /\ DidSwallow(f, g, r.ino)
    /\ bad = {} /\ r.rc # "ok" => SameTree(f, g) \/ HalfLink(f, g, r)
    /\ bad = {} /\ Accounted(f) => Accounted(g)

LEMMA NamelessAt ==
    ASSUME NEW f \in FileSystem, NEW d \in Dirs(f), NEW n \in Name
    PROVE  Named(f)[d][n] = ext2fs_namei(f, d, n)
  BY BlocksTyped DEF Named

\* What each request on one name did, by the lemma of its handler.
LEMMA NameRequestDid ==
    ASSUME FiniteNames, Good(fs, NoIno), NEW bad, NEW d \in Dirs(fs), NEW n \in Name,
           NameRequest(d, n, bad)
    PROVE  Tells(fs, fs', ret', bad)
<1> DEFINE t == ext2fs_namei(fs, d, n)
<1>a. fs \in FileSystem /\ Shape(fs)
  BY GoodShape DEF Good
<1>b. Named(fs)[d][n] = t
  BY <1>a, NamelessAt
<1>c. t # NoIno => t \in Live(fs)
  BY LookupHolds
<1>d. ~ Present(fs, d, n) => Nameless(fs, d, n) /\ Holding(fs, d, n) = {}
                             /\ ext2fs_namei(fs, d, n) = NoIno
  BY <1>b, Absent DEF Present, Nameless
<1>e. t # NoIno => Leads(fs, d, n, t)
  BY <1>b, <1>c DEF Leads
<1> DEFINE g == fs'
           r == ret'
<1>1. CASE Open(d, n, bad)
  <2>1. g = op_open(fs, d, n, bad).fs /\ r.op = "open"
    BY <1>1 DEF Open, Done
  <2>2. g = fs
    BY <1>a, <1>c, <2>1, OpenTree DEF op_open
  <2>3. SameTree(fs, g)
    BY <2>2 DEF SameTree
  <2> QED
    BY <2>1, <2>2, <2>3 DEF Tells, Did
<1>2. ASSUME NEW ni \in ext2fs_new_inode(fs), Create(d, n, ni, bad)
      PROVE  Tells(fs, fs', ret', bad)
  <2> DEFINE c == op_create(fs, d, n, ni, bad)
  <2>1. g = c.fs /\ r.op = "create" /\ r.rc = c.rc /\ r.ino = ni /\ ~ Present(fs, d, n)
    BY <1>2 DEF Create, Done
  <2>2. /\ c.rc = "ok" => ni \in Ino \ fs.imap /\ Made(fs, c.fs, d, n, ni, "reg")
        /\ bad = {} => Clean(fs, c)
    BY <1>a, <1>d, <2>1, OpCreateTree
  <2> HIDE DEF c
  <2>3. r.rc = "ok" => DidMake(fs, g, ni, "reg")
    BY <1>d, <2>1, <2>2 DEF DidMake
  <2> QED
    BY <2>1, <2>2, <2>3 DEF Tells, Did, Kind, Clean
<1>3. ASSUME NEW ni \in ext2fs_new_inode(fs), NEW kind \in MknodKinds,
             Mknod(d, n, kind, ni, bad)
      PROVE  Tells(fs, fs', ret', bad)
  <2> DEFINE c == do_create(fs, d, n, kind, ni, bad)
  <2>1. g = c.fs /\ r.op = "mknod" /\ r.rc = c.rc /\ r.ino = ni /\ ~ Present(fs, d, n)
    BY <1>3 DEF Mknod, Done, op_mknod
  <2>2. kind \in Kind \ {"dir"}
    BY KindsAssumption DEF Kind
  <2>3. /\ c.rc = "ok" => ni \in Ino \ fs.imap /\ Made(fs, c.fs, d, n, ni, kind)
        /\ bad = {} => Clean(fs, c)
    BY <1>a, <1>d, <2>1, <2>2, DoCreateTree
  <2> HIDE DEF c
  <2>4. r.rc = "ok" => DidMake(fs, g, ni, kind)
    BY <1>d, <2>1, <2>3 DEF DidMake
  <2> QED
    BY <2>1, <2>2, <2>3, <2>4 DEF Tells, Did, Clean
<1>4. ASSUME NEW ni \in ext2fs_new_inode(fs), Mkdir(d, n, ni, bad)
      PROVE  Tells(fs, fs', ret', bad)
  <2> DEFINE c == op_mkdir(fs, d, n, ni, bad)
  <2>1. /\ g = c.fs /\ r.op = "mkdir" /\ r.rc = c.rc /\ r.ino = ni
        /\ ~ Present(fs, d, n) /\ LinkRoom(fs, d)
    BY <1>4 DEF Mkdir, Done
  <2>2. /\ c.rc = "ok" => ni \in Ino \ fs.imap /\ DirMade(fs, c.fs, d, n, ni)
        /\ bad = {} => Clean(fs, c)
    BY <1>a, <1>d, <2>1, OpMkdirTree
  <2> HIDE DEF c
  <2>3. r.rc = "ok" => DidMkdir(fs, g, ni)
    BY <1>d, <2>1, <2>2 DEF DidMkdir
  <2> QED
    BY <2>1, <2>2, <2>3 DEF Tells, Did, Clean
<1>5. ASSUME NEW ni \in ext2fs_new_inode(fs), NEW long \in BOOLEAN,
             Symlink(d, n, long, ni, bad)
      PROVE  Tells(fs, fs', ret', bad)
  <2> DEFINE c == op_symlink(fs, d, n, long, ni, bad)
  <2>1. g = c.fs /\ r.op = "symlink" /\ r.rc = c.rc /\ r.ino = ni /\ ~ Present(fs, d, n)
    BY <1>5 DEF Symlink, Done
  <2>2. /\ c.rc = "ok" => ni \in Ino \ fs.imap /\ Made(fs, c.fs, d, n, ni, "lnk")
        /\ bad = {} /\ c.rc # "ok" =>
             \/ SameTree(fs, c.fs)
             \/ /\ ni \in Ino \ fs.imap /\ Made(fs, c.fs, d, n, ni, "lnk")
                /\ ni \in Live(c.fs) /\ c.fs.inode[ni].blk = {}
        /\ bad = {} /\ Accounted(fs) => Accounted(c.fs)
    BY <1>a, <1>d, <2>1, OpSymlinkTree
  <2> HIDE DEF c
  <2>3. r.rc = "ok" => DidMake(fs, g, ni, "lnk")
    BY <1>d, <2>1, <2>2 DEF DidMake
  <2>4. bad = {} /\ r.rc # "ok" => SameTree(fs, g) \/ HalfLink(fs, g, r)
    BY <1>d, <2>1, <2>2 DEF DidMake, HalfLink
  <2> QED
    BY <2>1, <2>2, <2>3, <2>4 DEF Tells, Did, Kind
<1>6. CASE Unlink(d, n, bad)
  <2> DEFINE c == op_unlink(fs, d, n, bad)
  <2>1. g = c.fs /\ r.op = "unlink" /\ r.rc = c.rc /\ r.ino = t
    BY <1>6 DEF Unlink, Done
  <2>2. /\ c.rc = "ok" => t \in Live(fs) /\ ~ IsDir(fs, t) /\ Dropped(fs, c.fs, d, n, t)
        /\ bad = {} => Clean(fs, c)
    BY <1>a, <1>c, OpUnlinkTree
  <2> HIDE DEF c
  <2>3. t \in Live(fs) => t # NoIno
    BY <1>a, BlocksTyped, RootAssumption
  <2>4. r.rc = "ok" => DidUnlink(fs, g, t)
    BY <1>e, <2>1, <2>2, <2>3 DEF DidUnlink
  <2> QED
    BY <2>1, <2>2, <2>4 DEF Tells, Did, Clean
<1>7. CASE Rmdir(d, n, bad)
  <2> DEFINE c == op_rmdir(fs, d, n, bad)
  <2>1. g = c.fs /\ r.op = "rmdir" /\ r.rc = c.rc /\ r.ino = t
    BY <1>7 DEF Rmdir, Done
  <2>2. /\ c.rc = "ok" => /\ t \in Live(fs) /\ IsDir(fs, t) /\ EmptyDir(fs, t)
                          /\ t # Root /\ t # d /\ DirDropped(fs, c.fs, d, n, t)
        /\ bad = {} => Clean(fs, c)
    BY <1>a, <1>c, OpRmdirTree
  <2> HIDE DEF c
  <2>3. t \in Live(fs) => t # NoIno
    BY <1>a, BlocksTyped, RootAssumption
  <2>4. r.rc = "ok" => DidRmdir(fs, g, t)
    BY <1>e, <2>1, <2>2, <2>3 DEF DidRmdir
  <2> QED
    BY <2>1, <2>2, <2>4 DEF Tells, Did, Clean
<1>8. CASE Write(d, n, bad)
  <2>1. g = op_write(fs, d, n, bad).fs /\ r.op = "write" /\ t # NoIno
    BY <1>8 DEF Write, Done
  <2>2. SameTree(fs, g) /\ (Accounted(fs) => Accounted(g))
    BY <1>a, <1>c, <2>1, OpWriteTree
  <2> QED
    BY <2>1, <2>2 DEF Tells, Did
<1>9. CASE Truncate(d, n, bad)
  <2>1. /\ g = op_truncate(fs, d, n, bad).fs /\ r.op = "truncate" /\ t # NoIno
        /\ ~ IsDir(fs, t)
    BY <1>9 DEF Truncate, Done, IsDir
  <2>2. SameTree(fs, g) /\ (Accounted(fs) => Accounted(g))
    BY <1>a, <1>c, <2>1, OpTruncateTree
  <2> QED
    BY <2>1, <2>2 DEF Tells, Did
<1> QED
  BY <1>1, <1>2, <1>3, <1>4, <1>5, <1>6, <1>7, <1>8, <1>9 DEF NameRequest

\* What op_link and op_rename did.
LEMMA TwoNameRequestDid ==
    ASSUME FiniteNames, IsFiniteSet(Ino), ~ LinkIntoFull, Good(fs, NoIno), Packed(fs),
           NEW bad, NEW sd \in PathDirs(fs), NEW sn \in Name,
           NEW td \in PathDirs(fs), NEW tn \in Name, TwoNameRequest(sd, sn, td, tn, bad)
    PROVE  Tells(fs, fs', ret', bad)
<1> DEFINE i == ext2fs_namei(fs, sd, sn)
           t == ext2fs_namei(fs, td, tn)
           g == fs'
           r == ret'
<1>a. /\ fs \in FileSystem /\ Shape(fs) /\ sd \in Dirs(fs) /\ td \in Dirs(fs)
      /\ IsFiniteSet(Name)
  BY GoodShape DEF Good, PathDirs, FiniteNames
<1>b. Named(fs)[sd][sn] = i /\ Named(fs)[td][tn] = t
  BY <1>a, NamelessAt
<1>c. /\ i # NoIno => i \in Live(fs) /\ i # Root
      /\ t # NoIno => t \in Live(fs) /\ t # Root
      /\ t # Root
  BY <1>a, LookupHolds, RootAssumption
<1>1. CASE Link(sd, sn, td, tn, bad)
  <2> DEFINE c == op_link(fs, sd, sn, td, tn, bad)
  <2>1. /\ i # NoIno /\ ~ IsDir(fs, i) /\ LinkRoom(fs, i) /\ Room(fs, td, tn) # {}
        /\ t = NoIno /\ g = c.fs /\ r.op = "link" /\ r.rc = c.rc /\ r.ino = i
    BY <1>1 DEF Link, Done, Present
  <2>2. /\ c.rc = "ok" => Linked(fs, c.fs, td, tn, i)
        /\ bad = {} => Clean(fs, c)
    BY <1>a, <1>c, <2>1, OpLinkTree
  <2> HIDE DEF c
  <2>3. r.rc = "ok" => DidLink(fs, g, i)
    BY <1>a, <1>b, <1>c, <2>1, <2>2 DEF DidLink, Nameless
  <2> QED
    BY <2>1, <2>2, <2>3 DEF Tells, Did, Clean
<1>2. CASE Rename(sd, sn, td, tn, bad)
  <2> DEFINE c == op_rename(fs, sd, sn, td, tn, bad)
  <2>1. /\ i # NoIno /\ <<sd, sn>> # <<td, tn>>
        /\ IsDir(fs, i) => td \notin Subtree(fs, i) /\ LinkRoom(fs, td)
        /\ g = c.fs /\ r.op = "rename" /\ r.rc = c.rc /\ r.ino = i
    BY <1>2 DEF Rename, Done
  <2>2. i # sd
    BY NotInItself
  <2>3. i # td
    <3>1. i \in Subtree(fs, i)
      BY DEF Subtree
    <3>2. IsDir(fs, td)
      BY <1>a DEF Dirs, IsDir
    <3> QED
      BY <2>1, <3>1, <3>2
  <2>4. Movable(fs, sd, sn, td, tn, i)
    BY <1>a, <1>b, <1>c, <2>1, <2>2, <2>3 DEF Movable, Leads
  <2>5. /\ c.rc = "ok" =>
             \/ t = NoIno /\ Moved(fs, c.fs, sd, sn, td, tn, i)
             \/ t = i /\ c.fs = fs
             \/ t \notin {NoIno, i} /\ bad # {} /\ TakesOne(fs, c.fs, td, tn)
             \/ /\ t \notin {NoIno, i} /\ RenameRefusal(fs, i, t) = "ok"
                /\ \E h : Swept(fs, h, td, tn, t) /\ Moved(h, c.fs, sd, sn, td, tn, i)
        /\ bad = {} => Clean(fs, c)
    BY <1>a, <1>c, <2>1, <2>2, <2>3, OpRenameTree
  <2> HIDE DEF c, i, t
  <2>6. r.rc = "ok" => DidRename(fs, g, i) \/ (bad # {} /\ DidSwallow(fs, g, i))
    <3> SUFFICES ASSUME c.rc = "ok"
                 PROVE  DidRename(fs, g, i) \/ (bad # {} /\ DidSwallow(fs, g, i))
      BY <2>1
    <3>1. CASE t \notin {NoIno, i} /\ bad # {} /\ TakesOne(fs, c.fs, td, tn)
      BY <1>a, <1>b, <1>c, <2>1, <3>1 DEF DidSwallow
    <3>2. CASE \/ t = NoIno /\ Moved(fs, c.fs, sd, sn, td, tn, i)
               \/ t = i /\ c.fs = fs
               \/ /\ t \notin {NoIno, i} /\ RenameRefusal(fs, i, t) = "ok"
                  /\ \E h : Swept(fs, h, td, tn, t) /\ Moved(h, c.fs, sd, sn, td, tn, i)
      <4>1. t # NoIno => t \in Live(fs) \ {Root}
        BY <1>c
      <4>2. \/ t = i /\ g = fs
            \/ t = NoIno /\ Moved(fs, g, sd, sn, td, tn, i)
            \/ /\ t \in Live(fs) \ {i, Root} /\ RenameRefusal(fs, i, t) = "ok"
               /\ \E h : Swept(fs, h, td, tn, t) /\ Moved(h, g, sd, sn, td, tn, i)
        BY <2>1, <3>2, <4>1
      <4>3. Named(fs)[td][tn] = t
        BY <1>b
      <4> QED
        BY <1>a, <2>4, <4>2, <4>3 DEF DidRename
    <3> QED
      BY <2>5, <3>1, <3>2
  <2> QED
    BY <2>1, <2>5, <2>6 DEF Tells, Did, Clean
<1> QED
  BY <1>1, <1>2 DEF TwoNameRequest

-----------------------------------------------------------------------------
(* What a reply tells, and the bitmaps *)

\* Finitely many inodes, blocks and names.
FiniteDisk == FiniteNames /\ IsFiniteSet(Ino)

\* Every step tells what it did.
LEMMA NextTells ==
    ASSUME FiniteDisk, ~ LinkIntoFull, Good(fs, NoIno), Packed(fs), Next
    PROVE  \E bad \in Faults : Tells(fs, fs', ret', bad)
<1>1. PICK bad \in Faults, d \in PathDirs(fs), n \in Name :
        \/ NameRequest(d, n, bad)
        \/ \E td \in PathDirs(fs), tn \in Name : TwoNameRequest(d, n, td, tn, bad)
  BY DEF Next
<1>2. PathDirs(fs) \subseteq Dirs(fs)
  BY DEF PathDirs
<1>3. CASE NameRequest(d, n, bad)
  <2>1. Tells(fs, fs', ret', bad)
    BY <1>2, <1>3, NameRequestDid DEF FiniteDisk
  <2> QED
    BY <2>1
<1>4. CASE \E td \in PathDirs(fs), tn \in Name : TwoNameRequest(d, n, td, tn, bad)
  <2>1. Tells(fs, fs', ret', bad)
    BY <1>4, TwoNameRequestDid DEF FiniteDisk
  <2> QED
    BY <2>1
<1> QED
  BY <1>1, <1>3, <1>4

\* No call fails, and op_link meets no parent without room: what it does there
\* is the finding of the run link_into_full.
NoFailure == Faults \subseteq {{}} /\ ~ LinkIntoFull

\* When no call fails, there is only one set of failing calls, the empty one.
LEMMA NextTellsAll ==
    ASSUME FiniteDisk, NoFailure, Good(fs, NoIno), Packed(fs), Next
    PROVE  Tells(fs, fs', ret', {})
<1>1. PICK bad \in Faults : Tells(fs, fs', ret', bad)
  BY NextTells DEF NoFailure
<1>2. bad = {}
  BY DEF NoFailure
<1> QED
  BY <1>1, <1>2

\* Names, by which replies are judged, are the names that show.
LEMMA NamesShown ==
    ASSUME NEW f \in FileSystem, NEW g \in FileSystem, SameTree(f, g)
    PROVE  Names(g) = Names(f) /\ Dirs(g) = Dirs(f)
<1>1. ASSUME NEW h \in FileSystem PROVE Dirs(h) = {i \in Ino : Kinds(h)[i] = "dir"}
  BY BlocksTyped DEF Kinds, Dirs
<1>2. Dirs(g) = Dirs(f) /\ Dirs(f) \subseteq Ino
  BY <1>1, BlocksTyped DEF SameTree
<1>3. \A d \in Dirs(f), n \in Name : ext2fs_namei(g, d, n) = ext2fs_namei(f, d, n)
  BY <1>2, NamelessAt DEF SameTree
<1> QED
  BY <1>2, <1>3 DEF Names

LEMMA NoSafe ==
    ASSUME NoFailure
    PROVE  Faults \subseteq SUBSET SafeSites
  BY DEF NoFailure

\* When no call fails, a handler that returns an error left every name as it
\* was, except that op_symlink leaves the name of a link whose target found no
\* block.
THEOREM ErrorsLeaveNames ==
    ASSUME FiniteDisk, NoFailure
    PROVE  Spec => ErrorsAreAtomic
<1> DEFINE A == ret'.rc \in Error =>
        \/ Names(fs') = Names(fs)
        \/ /\ ret'.op = "symlink"
           /\ ret'.ino \in Live(fs')
           /\ fs'.inode[ret'.ino].blk = {}
<1>1. GoodFS /\ GoodFS' /\ Packed(fs) /\ [Next]_vars => [A]_vars
  <2> SUFFICES ASSUME Good(fs, NoIno), Good(fs', NoIno), Packed(fs), Next, ret'.rc \in Error
               PROVE  A
    BY DEF GoodFS
  <2>1. Tells(fs, fs', ret', {})
    BY NextTellsAll
  <2>2. ret'.rc # "ok"
    BY DEF Error
  <2>3. fs \in FileSystem /\ fs' \in FileSystem
    BY DEF Good
  <2>4. SameTree(fs, fs') \/ HalfLink(fs, fs', ret')
    BY <2>1, <2>2 DEF Tells
  <2>5. CASE SameTree(fs, fs')
    BY <2>3, <2>5, NamesShown
  <2>6. CASE HalfLink(fs, fs', ret')
    BY <2>6 DEF HalfLink
  <2> QED
    BY <2>4, <2>5, <2>6
<1>2. Spec => []GoodFS
  BY NoSafe, GoodAlways DEF FiniteDisk
<1>3. Spec => []Packed(fs)
  BY BlocksFit DEF FiniteDisk, FiniteNames
<1> QED
  BY <1>1, <1>2, <1>3, PTL DEF Spec, ErrorsAreAtomic

AccountedFS == Accounted(fs)

LEMMA InitAccounted ==
    ASSUME Init
    PROVE  Accounted(fs)
<1>1. fs = Mkfs(FirstBlock)
  BY DEF Init
<1>2. fs.imap = {Root} /\ fs.bmap = {FirstBlock}
  BY <1>1 DEF Mkfs
<1>3. fs.inode[Root] = [kind |-> "dir", links |-> 2, blk |-> {FirstBlock}]
  BY <1>1, RootAssumption DEF Mkfs
<1>4. Live(fs) = {Root}
  BY <1>2, <1>3 DEF Live
<1>5. Used(fs) = {FirstBlock}
  BY <1>3, <1>4 DEF Used
<1> QED
  BY <1>2, <1>4, <1>5 DEF Accounted

\* When no call fails, the inode bitmap holds the inodes in use and the block
\* bitmap their blocks, and nothing else: no handler leaks an inode or a block,
\* whichever way it returns.
THEOREM AccountingHolds ==
    ASSUME FiniteDisk, NoFailure
    PROVE  Spec => []AccountingExact
<1>1. Init => AccountedFS
  BY InitAccounted DEF AccountedFS
<1>2. GoodFS /\ Packed(fs) /\ AccountedFS /\ [Next]_vars => AccountedFS'
  <2> SUFFICES ASSUME Good(fs, NoIno), Packed(fs), Accounted(fs), [Next]_vars
               PROVE  Accounted(fs')
    BY DEF GoodFS, AccountedFS
  <2>1. CASE UNCHANGED vars
    <3>1. fs' = fs
      BY <2>1 DEF vars
    <3> QED
      BY <3>1
  <2>2. CASE Next
    <3>1. Tells(fs, fs', ret', {})
      BY <2>2, NextTellsAll
    <3> QED
      BY <3>1 DEF Tells
  <2> QED
    BY <2>1, <2>2
<1>3. AccountedFS => AccountingExact
  BY DEF AccountedFS, Accounted, Used, AccountingExact
<1>4. Spec => []GoodFS
  BY NoSafe, GoodAlways DEF FiniteDisk
<1>5. Spec => []Packed(fs)
  BY BlocksFit DEF FiniteDisk, FiniteNames
<1> QED
  BY <1>1, <1>2, <1>3, <1>4, <1>5, PTL DEF Spec

-----------------------------------------------------------------------------
(* Names are counted alike in blocks and in directories *)

RefsIn(f, S)  == {s \in DirBlocks(f) \X Name : f.data[s[1]][s[2]] \in S}
SlotsIn(N, S) == {s \in Ino \X Name : N[s[1]][s[2]] \in S}

LEMMA SlotsFinite ==
    ASSUME FiniteDisk, NEW N, NEW S
    PROVE  IsFiniteSet(SlotsIn(N, S)) /\ Cardinality(SlotsIn(N, S)) \in Nat
<1>1. IsFiniteSet(Ino \X Name)
  BY FS_Product DEF FiniteDisk, FiniteNames
<1>2. SlotsIn(N, S) \in SUBSET (Ino \X Name)
  BY DEF SlotsIn
<1> QED
  BY <1>1, <1>2, FS_Subset, FS_CardinalityType

\* A name in a directory has its slot in one block of it.
LEMMA SlotHeld ==
    ASSUME NEW f, Shape(f), NEW S \in SUBSET Ino, NEW d \in Ino, NEW n \in Name,
           Named(f)[d][n] \in S
    PROVE  /\ d \in Dirs(f)
           /\ \E b \in f.inode[d].blk : /\ Held(f, d, n) = {b}
                                        /\ f.data[b][n] = Named(f)[d][n]
<1>1. Held(f, d, n) # {}
  BY NamedAt, RootAssumption
<1>2. PICK b : b \in Held(f, d, n)
  BY <1>1
<1>3. Held(f, d, n) = {b} /\ d \in Dirs(f)
  BY <1>2, HeldOne DEF Shape
<1>4. Named(f)[d][n] = f.data[b][n]
  BY <1>3, NamedAt
<1> QED
  BY <1>3, <1>4 DEF Held, Holding

\* A slot of a directory block belongs to one directory and is its name.
LEMMA RefSlot ==
    ASSUME NEW f, Shape(f), NEW S \in SUBSET Ino, NEW b \in DirBlocks(f), NEW n \in Name,
           f.data[b][n] \in S
    PROVE  \E d \in Ino : /\ b \in f.inode[d].blk /\ Held(f, d, n) = {b}
                          /\ Named(f)[d][n] = f.data[b][n]
<1>1. PICK d \in Dirs(f) : b \in f.inode[d].blk
  BY DEF DirBlocks
<1>2. b \in Held(f, d, n) /\ d \in Ino
  BY <1>1, RootAssumption, BlocksTyped DEF Held, Holding, Shape
<1>3. Held(f, d, n) = {b}
  BY <1>2, HeldOne DEF Shape
<1>4. Named(f)[d][n] = f.data[b][n]
  BY <1>2, <1>3, NamedAt
<1> QED
  BY <1>1, <1>2, <1>3, <1>4

\* Entries in blocks and names in directories correspond one to one.
LEMMA RefsSlots ==
    ASSUME FiniteDisk, NEW f, Shape(f), NEW S \in SUBSET Ino
    PROVE  /\ Cardinality(RefsIn(f, S)) = Cardinality(SlotsIn(Named(f), S))
           /\ IsFiniteSet(RefsIn(f, S))
<1> DEFINE A == SlotsIn(Named(f), S)
           B == RefsIn(f, S)
           at(s) == CHOOSE b \in Held(f, s[1], s[2]) : TRUE
           g == [s \in A |-> <<at(s), s[2]>>]
<1>0. \A s \in A : s[1] \in Ino /\ s[2] \in Name /\ s = <<s[1], s[2]>>
                   /\ Named(f)[s[1]][s[2]] \in S
  BY DEF SlotsIn
<1>1. ASSUME NEW s \in A
      PROVE  /\ Held(f, s[1], s[2]) = {at(s)} /\ at(s) \in f.inode[s[1]].blk
             /\ s[1] \in Dirs(f) /\ f.data[at(s)][s[2]] \in S
  <2>1. s[1] \in Ino /\ s[2] \in Name /\ Named(f)[s[1]][s[2]] \in S
    BY <1>0, <1>1
  <2>2. PICK d \in Ino, n \in Name : d = s[1] /\ n = s[2]
    BY <2>1
  <2>3. /\ d \in Dirs(f)
        /\ \E b \in f.inode[d].blk : /\ Held(f, d, n) = {b}
                                     /\ f.data[b][n] = Named(f)[d][n]
    BY <2>1, <2>2, SlotHeld
  <2> QED
    BY <2>1, <2>2, <2>3
<1>2. g \in [A -> B]
  <2> SUFFICES ASSUME NEW s \in A PROVE <<at(s), s[2]>> \in B
    OBVIOUS
  <2>1. at(s) \in DirBlocks(f)
    BY <1>1 DEF DirBlocks
  <2> HIDE DEF at
  <2> QED
    BY <1>0, <1>1, <2>1 DEF RefsIn
<1> HIDE DEF at
<1>3. \A s, r \in A : g[s] = g[r] => s = r
  <2> SUFFICES ASSUME NEW s \in A, NEW r \in A, g[s] = g[r] PROVE s = r
    OBVIOUS
  <2>1. at(s) = at(r) /\ s[2] = r[2]
    OBVIOUS
  <2>2. at(s) \in f.inode[s[1]].blk /\ at(r) \in f.inode[r[1]].blk
        /\ s[1] \in Dirs(f) /\ r[1] \in Dirs(f)
    BY <1>1
  <2>3. s[1] = r[1]
    BY <2>1, <2>2 DEF Shape, Disjoint, Dirs
  <2> HIDE DEF A
  <2> QED
    BY <1>0, <2>1, <2>3
<1>4. ASSUME NEW r \in B PROVE \E s \in A : g[s] = r
  <2>1. r[1] \in DirBlocks(f) /\ r[2] \in Name /\ r = <<r[1], r[2]>> /\ f.data[r[1]][r[2]] \in S
    BY <1>4 DEF RefsIn
  <2>2. PICK d \in Ino : /\ r[1] \in f.inode[d].blk /\ Held(f, d, r[2]) = {r[1]}
                         /\ Named(f)[d][r[2]] = f.data[r[1]][r[2]]
    BY <2>1, RefSlot
  <2> DEFINE s == <<d, r[2]>>
  <2>3. s \in A
    BY <2>1, <2>2 DEF SlotsIn
  <2>4. at(s) = r[1]
    BY <2>2 DEF at
  <2> QED
    BY <2>1, <2>3, <2>4
<1> HIDE DEF g, A, B
<1>5. g \in Bijection(A, B)
  BY <1>2, <1>3, <1>4 DEF Bijection, Injection, Surjection, IsInjective
<1>6. IsFiniteSet(A)
  BY SlotsFinite DEF A
<1>7. ExistsBijection(A, B)
  BY <1>5 DEF ExistsBijection
<1>8. IsFiniteSet(B) /\ Cardinality(B) = Cardinality(A)
  BY <1>6, <1>7, FS_Bijection
<1> QED
  BY <1>8 DEF A, B

\* Refs and AllRefs, as sets of entries.
LEMMA RefsAs ==
    ASSUME NEW f \in FileSystem
    PROVE  /\ \A i \in Ino : Refs(f, i) = RefsIn(f, {i})
           /\ AllRefs(f) = RefsIn(f, Ino)
<1>1. \A b \in DirBlocks(f), n \in Name : f.data[b][n] \in Ino \cup {NoIno}
  BY BlocksTyped DEF FileSystem
<1>2. AllRefs(f) = RefsIn(f, Ino)
  BY <1>1, RootAssumption DEF AllRefs, RefsIn
<1> QED
  BY <1>2 DEF Refs, RefsIn

\* A slot that is filled, or emptied, or does not matter.
LEMMA SlotFilled ==
    ASSUME FiniteDisk, NEW N \in [Ino -> [Name -> Ino \cup {NoIno}]], NEW S \in SUBSET Ino,
           NEW d \in Ino, NEW n \in Name, NEW i, N[d][n] \notin S
    PROVE  Cardinality(SlotsIn(Put(N, d, n, i), S)) =
               Cardinality(SlotsIn(N, S)) + (IF i \in S THEN 1 ELSE 0)
<1> DEFINE P == Put(N, d, n, i)
<1>1. P[d][n] = i /\ \A e \in Ino, m \in Name : <<e, m>> # <<d, n>> => P[e][m] = N[e][m]
  BY PutElse
<1> HIDE DEF P
<1>2. <<d, n>> \notin SlotsIn(N, S)
  BY DEF SlotsIn
<1>3. IsFiniteSet(SlotsIn(N, S)) /\ Cardinality(SlotsIn(N, S)) \in Nat
  BY SlotsFinite
<1>4. CASE i \in S
  <2>1. SlotsIn(P, S) = SlotsIn(N, S) \cup {<<d, n>>}
    BY <1>1, <1>4 DEF SlotsIn
  <2>2. Cardinality(SlotsIn(N, S) \cup {<<d, n>>}) = Cardinality(SlotsIn(N, S)) + 1
    BY <1>2, <1>3, FS_AddElement
  <2> QED
    BY <1>4, <2>1, <2>2 DEF P
<1>5. CASE i \notin S
  <2>1. SlotsIn(P, S) = SlotsIn(N, S)
    BY <1>1, <1>5 DEF SlotsIn
  <2> QED
    BY <1>3, <1>5, <2>1 DEF P
<1> QED
  BY <1>4, <1>5

LEMMA SlotEmptied ==
    ASSUME FiniteDisk, NEW N \in [Ino -> [Name -> Ino \cup {NoIno}]], NEW S \in SUBSET Ino,
           NEW d \in Ino, NEW n \in Name
    PROVE  Cardinality(SlotsIn(Put(N, d, n, NoIno), S)) =
               Cardinality(SlotsIn(N, S)) - (IF N[d][n] \in S THEN 1 ELSE 0)
<1> DEFINE P == Put(N, d, n, NoIno)
<1>1. P[d][n] = NoIno /\ \A e \in Ino, m \in Name : <<e, m>> # <<d, n>> => P[e][m] = N[e][m]
  BY PutElse
<1>2. NoIno \notin S
  BY RootAssumption
<1> HIDE DEF P
<1>3. IsFiniteSet(SlotsIn(N, S)) /\ Cardinality(SlotsIn(N, S)) \in Nat
  BY SlotsFinite
<1>4. SlotsIn(P, S) = SlotsIn(N, S) \ {<<d, n>>}
  BY <1>1, <1>2 DEF SlotsIn
<1>5. <<d, n>> \in SlotsIn(N, S) <=> N[d][n] \in S
  BY DEF SlotsIn
<1>6. Cardinality(SlotsIn(N, S) \ {<<d, n>>}) =
        IF <<d, n>> \in SlotsIn(N, S) THEN Cardinality(SlotsIn(N, S)) - 1
                                      ELSE Cardinality(SlotsIn(N, S))
  BY <1>3, FS_RemoveElement
<1>7. CASE N[d][n] \in S
  BY <1>4, <1>5, <1>6, <1>7 DEF P
<1>8. CASE N[d][n] \notin S
  BY <1>3, <1>4, <1>5, <1>6, <1>8 DEF P
<1> QED
  BY <1>7, <1>8

\* Entries are counted by the names that show.
LEMMA CountRefs ==
    ASSUME FiniteDisk, NEW f, Shape(f)
    PROVE  /\ \A i \in Ino : Cardinality(Refs(f, i)) = Cardinality(SlotsIn(Named(f), {i}))
           /\ Cardinality(AllRefs(f)) = Cardinality(SlotsIn(Named(f), Ino))
           /\ Named(f) \in [Ino -> [Name -> Ino \cup {NoIno}]]
<1>1. f \in FileSystem
  BY DEF Shape
<1>2. ASSUME NEW i \in Ino PROVE Cardinality(RefsIn(f, {i})) = Cardinality(SlotsIn(Named(f), {i}))
  <2>1. {i} \in SUBSET Ino
    OBVIOUS
  <2> QED
    BY <2>1, RefsSlots
<1>3. Cardinality(RefsIn(f, Ino)) = Cardinality(SlotsIn(Named(f), Ino))
  BY RefsSlots
<1> QED
  BY <1>1, <1>2, <1>3, RefsAs, NamedTyped

\* One name more.
LEMMA NameAdded ==
    ASSUME FiniteDisk, NEW f, Shape(f), NEW g, Shape(g), NEW d, NEW n, Nameless(f, d, n),
           NEW i \in Ino, Named(g) = Put(Named(f), d, n, i)
    PROVE  /\ Cardinality(AllRefs(g)) = Cardinality(AllRefs(f)) + 1
           /\ Cardinality(Refs(g, i)) = Cardinality(Refs(f, i)) + 1
<1>1. d \in Ino /\ n \in Name /\ Named(f)[d][n] = NoIno /\ NoIno \notin Ino
  BY BlocksTyped, RootAssumption DEF Nameless, Shape
<1>2. Named(f) \in [Ino -> [Name -> Ino \cup {NoIno}]]
  BY CountRefs
<1>3. Cardinality(SlotsIn(Named(g), Ino)) = Cardinality(SlotsIn(Named(f), Ino)) + 1
  BY <1>1, <1>2, SlotFilled
<1>4. Cardinality(SlotsIn(Named(g), {i})) = Cardinality(SlotsIn(Named(f), {i})) + 1
  <2>1. PICK S \in SUBSET Ino : S = {i}
    OBVIOUS
  <2>2. Named(f)[d][n] \notin S /\ i \in S
    BY <1>1, <2>1
  <2>3. Cardinality(SlotsIn(Named(g), S)) = Cardinality(SlotsIn(Named(f), S)) + 1
    BY <1>1, <1>2, <2>2, SlotFilled
  <2> QED
    BY <2>1, <2>3
<1> QED
  BY <1>3, <1>4, CountRefs

\* One name less.
LEMMA NameTaken ==
    ASSUME FiniteDisk, NEW f, Shape(f), NEW g, Shape(g), NEW d, NEW n, NEW i,
           Leads(f, d, n, i), Named(g) = Put(Named(f), d, n, NoIno)
    PROVE  Cardinality(AllRefs(g)) = Cardinality(AllRefs(f)) - 1
<1>1. d \in Ino /\ n \in Name /\ Named(f)[d][n] \in Ino
  BY BlocksTyped DEF Leads, Shape
<1>2. Named(f) \in [Ino -> [Name -> Ino \cup {NoIno}]]
  BY CountRefs
<1>3. Cardinality(SlotsIn(Named(g), Ino)) = Cardinality(SlotsIn(Named(f), Ino)) - 1
  BY <1>1, <1>2, SlotEmptied
<1> QED
  BY <1>3, CountRefs

\* A name of another file, or none, goes; then a name of i moves.
LEMMA NameGone ==
    ASSUME FiniteDisk, NEW N \in [Ino -> [Name -> Ino \cup {NoIno}]], NEW i \in Ino,
           NEW d \in Ino, NEW n \in Name, N[d][n] # i
    PROVE  Cardinality(SlotsIn(Put(N, d, n, NoIno), {i})) = Cardinality(SlotsIn(N, {i}))
<1>1. {i} \in SUBSET Ino /\ N[d][n] \notin {i}
  OBVIOUS
<1>2. Cardinality(SlotsIn(N, {i})) \in Nat
  BY SlotsFinite
<1>3. Cardinality(SlotsIn(Put(N, d, n, NoIno), {i})) = Cardinality(SlotsIn(N, {i})) - 0
  BY <1>1, SlotEmptied
<1> QED
  BY <1>2, <1>3

\* A name that moves leaves its file as many names as before.
LEMMA NameMoved ==
    ASSUME FiniteDisk, NEW N \in [Ino -> [Name -> Ino \cup {NoIno}]], NEW i \in Ino,
           NEW sd \in Ino, NEW sn \in Name, NEW td \in Ino, NEW tn \in Name,
           <<sd, sn>> # <<td, tn>>, N[sd][sn] = i, N[td][tn] # i
    PROVE  Cardinality(SlotsIn(Put(Put(N, td, tn, i), sd, sn, NoIno), {i})) =
               Cardinality(SlotsIn(N, {i}))
<1> DEFINE P == Put(N, td, tn, i)
<1>1. P \in [Ino -> [Name -> Ino \cup {NoIno}]]
  BY DEF Put
<1>2. P[sd][sn] = i
  BY PutElse
<1>3. PICK S \in SUBSET Ino : S = {i}
  OBVIOUS
<1>4. Cardinality(SlotsIn(P, S)) = Cardinality(SlotsIn(N, S)) + 1
  <2>1. N[td][tn] \notin S /\ i \in S
    BY <1>3
  <2> QED
    BY <2>1, SlotFilled
<1> HIDE DEF P
<1>5. Cardinality(SlotsIn(Put(P, sd, sn, NoIno), S)) = Cardinality(SlotsIn(P, S)) - 1
  <2>1. P[sd][sn] \in S
    BY <1>2, <1>3
  <2> QED
    BY <1>1, <2>1, SlotEmptied
<1>6. Cardinality(SlotsIn(N, S)) \in Nat
  BY SlotsFinite
<1>7. Cardinality(SlotsIn(Put(P, sd, sn, NoIno), S)) = Cardinality(SlotsIn(N, S))
  BY <1>4, <1>5, <1>6
<1> QED
  BY <1>3, <1>7 DEF P

\* A rename leaves the file it is about as many names as it had.
LEMMA RenameCounts ==
    ASSUME FiniteDisk, NEW f, Shape(f), NEW g, Shape(g), NEW i \in Ino,
           DidRename(f, g, i) \/ DidSwallow(f, g, i)
    PROVE  Cardinality(Refs(g, i)) = Cardinality(Refs(f, i))
<1>0. Named(f) \in [Ino -> [Name -> Ino \cup {NoIno}]] /\ Dirs(f) \subseteq Ino
      /\ i # NoIno
  BY CountRefs, BlocksTyped, RootAssumption DEF Shape
<1> SUFFICES Cardinality(SlotsIn(Named(g), {i})) = Cardinality(SlotsIn(Named(f), {i}))
  BY CountRefs
<1>1. CASE DidSwallow(f, g, i)
  <2>1. PICK td \in Dirs(f), tn \in Name :
          i \in Live(f) /\ Named(f)[td][tn] # i /\ TakesOne(f, g, td, tn)
    BY <1>1 DEF DidSwallow
  <2>2. Cardinality(SlotsIn(Put(Named(f), td, tn, NoIno), {i})) =
          Cardinality(SlotsIn(Named(f), {i}))
    BY <1>0, <2>1, NameGone
  <2> QED
    BY <2>1, <2>2 DEF TakesOne
<1>2. CASE DidRename(f, g, i)
  <2>1. PICK sd \in Dirs(f), sn \in Name, td \in Dirs(f), tn \in Name :
          /\ Movable(f, sd, sn, td, tn, i)
          /\ LET t == Named(f)[td][tn] IN
              \/ t = i /\ g = f
              \/ t = NoIno /\ Moved(f, g, sd, sn, td, tn, i)
              \/ /\ t \in Live(f) \ {i, Root} /\ RenameRefusal(f, i, t) = "ok"
                 /\ \E h : Swept(f, h, td, tn, t) /\ Moved(h, g, sd, sn, td, tn, i)
    BY <1>2 DEF DidRename
  <2> DEFINE N == Named(f)
             t == N[td][tn]
  <2>2. N[sd][sn] = i /\ <<sd, sn>> # <<td, tn>> /\ sd \in Ino /\ td \in Ino
    BY <1>0, <2>1 DEF Movable, Leads
  <2>3. CASE t = i /\ g = f
    BY <2>3
  <2>4. CASE t = NoIno /\ Moved(f, g, sd, sn, td, tn, i)
    <3>1. Named(g) = Put(Put(N, td, tn, i), sd, sn, NoIno)
      BY <2>4 DEF Moved
    <3>2. N \in [Ino -> [Name -> Ino \cup {NoIno}]] /\ N[td][tn] # i
      BY <1>0, <2>4
    <3> HIDE DEF N
    <3>3. Cardinality(SlotsIn(Put(Put(N, td, tn, i), sd, sn, NoIno), {i})) =
            Cardinality(SlotsIn(N, {i}))
      BY <2>2, <3>2, NameMoved
    <3> QED
      BY <3>1, <3>3 DEF N
  <2>5. CASE /\ t \in Live(f) \ {i, Root}
             /\ \E h : Swept(f, h, td, tn, t) /\ Moved(h, g, sd, sn, td, tn, i)
    <3>1. PICK h : Swept(f, h, td, tn, t) /\ Moved(h, g, sd, sn, td, tn, i)
      BY <2>5
    <3> DEFINE P == Put(N, td, tn, NoIno)
    <3>2. Named(h) = P
      BY <3>1 DEF Swept, DirDropped, Dropped
    <3>3. Named(g) = Put(Put(P, td, tn, i), sd, sn, NoIno)
      BY <3>1, <3>2 DEF Moved
    <3>4. P \in [Ino -> [Name -> Ino \cup {NoIno}]]
      BY <1>0 DEF Put
    <3>5. P[sd][sn] = i /\ P[td][tn] # i
      BY <1>0, <2>2, PutElse
    <3>6. Cardinality(SlotsIn(P, {i})) = Cardinality(SlotsIn(N, {i}))
      BY <1>0, <2>2, <2>5, NameGone
    <3> HIDE DEF P
    <3>7. Cardinality(SlotsIn(Put(Put(P, td, tn, i), sd, sn, NoIno), {i})) =
            Cardinality(SlotsIn(P, {i}))
      <4>1. PICK Q : Q = P
        OBVIOUS
      <4>2. Q \in [Ino -> [Name -> Ino \cup {NoIno}]] /\ Q[sd][sn] = i /\ Q[td][tn] # i
        BY <3>4, <3>5, <4>1
      <4>3. sd \in Ino /\ td \in Ino /\ <<sd, sn>> # <<td, tn>>
        BY <2>2
      <4>4. Cardinality(SlotsIn(Put(Put(Q, td, tn, i), sd, sn, NoIno), {i})) =
              Cardinality(SlotsIn(Q, {i}))
        BY <4>2, <4>3, NameMoved
      <4> QED
        BY <4>1, <4>4
    <3> QED
      BY <3>3, <3>6, <3>7
  <2> QED
    BY <2>1, <2>3, <2>4, <2>5
<1> QED
  BY <1>1, <1>2

\* Whichever safe call sites fail, a handler that returns 0 did what it was asked: op_create,
\* op_mknod, op_mkdir, op_symlink and op_link made one name more, op_unlink and
\* op_rmdir one less, and op_rename left its file as many names as it had.
THEOREM SuccessIsDone ==
    ASSUME FiniteDisk, Faults \subseteq SUBSET SafeSites, ~ LinkIntoFull
    PROVE  Spec => SuccessMeansDone
<1> DEFINE A == ret'.rc = "ok" =>
        /\ ret'.op \in {"create", "mknod", "mkdir", "symlink", "link"} =>
            /\ Cardinality(AllRefs(fs')) = Cardinality(AllRefs(fs)) + 1
            /\ Cardinality(Refs(fs', ret'.ino)) = Cardinality(Refs(fs, ret'.ino)) + 1
        /\ ret'.op \in {"unlink", "rmdir"} =>
            Cardinality(AllRefs(fs')) = Cardinality(AllRefs(fs)) - 1
        /\ ret'.op = "rename" =>
            Cardinality(Refs(fs', ret'.ino)) = Cardinality(Refs(fs, ret'.ino))
<1>1. GoodFS /\ GoodFS' /\ Packed(fs) /\ [Next]_vars => [A]_vars
  <2> SUFFICES ASSUME Good(fs, NoIno), Good(fs', NoIno), Packed(fs), Next, ret'.rc = "ok"
               PROVE  A
    BY DEF GoodFS
  <2>0. PICK f : f = fs
    OBVIOUS
  <2>1. PICK g : g = fs'
    OBVIOUS
  <2>2. PICK op, i : op = ret'.op /\ i = ret'.ino
    OBVIOUS
  <2>3. Shape(f) /\ Shape(g) /\ f \in FileSystem
    BY <2>0, <2>1, GoodShape DEF Good
  <2>4. Did(f, g, op, i) \/ (op = "rename" /\ DidSwallow(f, g, i))
    <3>1. PICK bad \in Faults : Tells(fs, fs', ret', bad)
      BY NextTells
    <3> QED
      BY <2>0, <2>1, <2>2, <3>1 DEF Tells
  <2>5. \/ op \in {"open", "write", "truncate"}
        \/ /\ op \in {"create", "mknod", "symlink", "mkdir", "link"}
           /\ \E d, n : /\ Nameless(f, d, n) /\ i \in Ino
                        /\ Named(g) = Put(Named(f), d, n, i)
        \/ /\ op \in {"unlink", "rmdir"}
           /\ \E d, n : Leads(f, d, n, i) /\ Named(g) = Put(Named(f), d, n, NoIno)
        \/ op = "rename" /\ (DidRename(f, g, i) \/ DidSwallow(f, g, i))
    <3>0. Live(f) \subseteq Ino
      BY <2>3, BlocksTyped
    <3>1. ASSUME NEW k, DidMake(f, g, i, k)
          PROVE  \E d, n : /\ Nameless(f, d, n) /\ i \in Ino
                           /\ Named(g) = Put(Named(f), d, n, i)
      BY <3>1 DEF DidMake, Made
    <3>2. DidMkdir(f, g, i) =>
            \E d, n : /\ Nameless(f, d, n) /\ i \in Ino
                      /\ Named(g) = Put(Named(f), d, n, i)
      BY DEF DidMkdir, DirMade
    <3>3. DidLink(f, g, i) =>
            \E d, n : /\ Nameless(f, d, n) /\ i \in Ino
                      /\ Named(g) = Put(Named(f), d, n, i)
      BY <3>0 DEF DidLink, Linked
    <3>4. DidUnlink(f, g, i) =>
            \E d, n : Leads(f, d, n, i) /\ Named(g) = Put(Named(f), d, n, NoIno)
      BY DEF DidUnlink, Dropped
    <3>5. DidRmdir(f, g, i) =>
            \E d, n : Leads(f, d, n, i) /\ Named(g) = Put(Named(f), d, n, NoIno)
      BY DEF DidRmdir, DirDropped
    <3> QED
      BY <2>4, <3>1, <3>2, <3>3, <3>4, <3>5 DEF Did
  <2>6. CASE op \in {"open", "write", "truncate"}
    BY <2>2, <2>6
  <2>7. CASE /\ op \in {"create", "mknod", "symlink", "mkdir", "link"}
             /\ \E d, n : /\ Nameless(f, d, n) /\ i \in Ino
                          /\ Named(g) = Put(Named(f), d, n, i)
    <3>1. PICK d, n : Nameless(f, d, n) /\ i \in Ino /\ Named(g) = Put(Named(f), d, n, i)
      BY <2>7
    <3>2. /\ Cardinality(AllRefs(g)) = Cardinality(AllRefs(f)) + 1
          /\ Cardinality(Refs(g, i)) = Cardinality(Refs(f, i)) + 1
      BY <2>3, <3>1, NameAdded
    <3> QED
      BY <2>0, <2>1, <2>2, <2>7, <3>2
  <2>8. CASE /\ op \in {"unlink", "rmdir"}
             /\ \E d, n : Leads(f, d, n, i) /\ Named(g) = Put(Named(f), d, n, NoIno)
    <3>1. PICK d, n : Leads(f, d, n, i) /\ Named(g) = Put(Named(f), d, n, NoIno)
      BY <2>8
    <3>2. Cardinality(AllRefs(g)) = Cardinality(AllRefs(f)) - 1
      BY <2>3, <3>1, NameTaken
    <3> QED
      BY <2>0, <2>1, <2>2, <2>8, <3>2
  <2>9. CASE op = "rename" /\ (DidRename(f, g, i) \/ DidSwallow(f, g, i))
    <3>1. i \in Ino
      BY <2>3, <2>9, BlocksTyped DEF DidRename, DidSwallow, Movable, Leads
    <3>2. Cardinality(Refs(g, i)) = Cardinality(Refs(f, i))
      BY <2>3, <2>9, <3>1, RenameCounts
    <3> QED
      BY <2>0, <2>1, <2>2, <2>9, <3>2
  <2> QED
    BY <2>5, <2>6, <2>7, <2>8, <2>9
<1>2. Spec => []GoodFS
  BY GoodAlways DEF FiniteDisk
<1>3. Spec => []Packed(fs)
  BY BlocksFit DEF FiniteDisk, FiniteNames
<1> QED
  BY <1>1, <1>2, <1>3, PTL DEF Spec, SuccessMeansDone

-----------------------------------------------------------------------------
(* The tree that shows *)

\* The directories in d.
Below(K, N, d) == {i \in Ino \ {d} : K[i] = "dir" /\ \E n \in Name : N[d][n] = i}

\* A set of inodes with all that is below it.
ClosedIn(N, S) == \A d \in S, n \in Name : N[d][n] # NoIno => N[d][n] \in S

View(K, N, L, U) ==
    /\ K \in [Ino -> Kind \cup {"none"}]
    /\ N \in [Ino -> [Name -> Ino \cup {NoIno}]]
    /\ L \in [Ino -> Nat]
    /\ U \in [Ino -> Ino \cup {NoIno}]

\* Names are in directories and lead to nodes, to a directory one at most.
Proper(K, N) ==
    /\ K[Root] = "dir"
    /\ \A d \in Ino, n \in Name : N[d][n] # NoIno =>
            K[d] = "dir" /\ K[N[d][n]] # "none" /\ N[d][n] # Root
    /\ \A d, e \in Ino, n, m \in Name :
            N[d][n] # NoIno /\ N[d][n] = N[e][m] /\ K[N[d][n]] = "dir" => d = e /\ n = m

HasName(K, N) ==
    \A i \in Ino \ {Root} : K[i] # "none" => \E d \in Ino, n \in Name : N[d][n] = i
FileCounts(K, N, L) ==
    \A i \in Ino : K[i] \notin {"none", "dir"} => L[i] = Cardinality(SlotsIn(N, {i}))
DirCounts(K, N, L) ==
    \A i \in Ino : K[i] = "dir" => L[i] = 2 + Cardinality(Below(K, N, i))
Parents(K, N, U) ==
    \A d \in Ino, n \in Name : N[d][n] # NoIno /\ K[N[d][n]] = "dir" => U[N[d][n]] = d

\* Every directory can be reached: it is in each closed set the root is in.
Connected(K, N) ==
    \A S \in SUBSET Ino : Root \in S /\ ClosedIn(N, S) =>
        \A i \in Ino : K[i] = "dir" => i \in S

TreeInv(K, N, L, U) ==
    /\ View(K, N, L, U) /\ Proper(K, N) /\ HasName(K, N) /\ FileCounts(K, N, L)
    /\ DirCounts(K, N, L) /\ Parents(K, N, U) /\ Connected(K, N)

\* G is F but for the entry of i, P is N but for the slot n of d.
Is(F, G, i, x)    == G[i] = x /\ \A j \in Ino : j # i => G[j] = F[j]
At(N, P, d, n, x) == P[d][n] = x /\ \A e \in Ino, m \in Name : e # d \/ m # n => P[e][m] = N[e][m]

LEMMA BelowFinite ==
    ASSUME FiniteDisk, NEW K, NEW N, NEW d
    PROVE  IsFiniteSet(Below(K, N, d)) /\ Cardinality(Below(K, N, d)) \in Nat
<1>1. Below(K, N, d) \in SUBSET Ino
  BY DEF Below
<1> QED
  BY <1>1, FS_Subset, FS_CardinalityType DEF FiniteDisk

\* A name more, or less, for one inode leaves the count of another.
SameSlots(N, P, j) == SlotsIn(P, {j}) = SlotsIn(N, {j})
LEMMA OtherSlots ==
    ASSUME NEW N, NEW P, NEW d \in Ino, NEW n \in Name, NEW i, At(N, P, d, n, i),
           NEW j, N[d][n] # j, i # j
    PROVE  SameSlots(N, P, j)
<1>1. ASSUME NEW s \in Ino \X Name PROVE P[s[1]][s[2]] = j <=> N[s[1]][s[2]] = j
  <2>1. PICK e \in Ino, m \in Name : s[1] = e /\ s[2] = m
    OBVIOUS
  <2>2. P[e][m] = j <=> N[e][m] = j
    BY DEF At
  <2> QED
    BY <2>1, <2>2
<1> QED
  BY <1>1 DEF SlotsIn, SameSlots

\* A slot that comes to hold i, or holds it no more, counts.
LEMMA SlotsUp ==
    ASSUME FiniteDisk, NEW N, NEW P, NEW d \in Ino, NEW n \in Name, NEW i,
           At(N, P, d, n, i), N[d][n] # i
    PROVE  Cardinality(SlotsIn(P, {i})) = Cardinality(SlotsIn(N, {i})) + 1
<1>1. SlotsIn(P, {i}) = SlotsIn(N, {i}) \cup {<<d, n>>}
  <2>1. ASSUME NEW s \in Ino \X Name
        PROVE  P[s[1]][s[2]] = i <=> N[s[1]][s[2]] = i \/ s = <<d, n>>
    <3>1. PICK e \in Ino, m \in Name : s[1] = e /\ s[2] = m /\ s = <<e, m>>
      OBVIOUS
    <3>2. P[e][m] = i <=> N[e][m] = i \/ <<e, m>> = <<d, n>>
      BY DEF At
    <3> QED
      BY <3>1, <3>2
  <2>2. <<d, n>> \in Ino \X Name
    OBVIOUS
  <2> QED
    BY <2>1, <2>2 DEF SlotsIn
<1>2. <<d, n>> \notin SlotsIn(N, {i})
  BY DEF SlotsIn
<1>3. IsFiniteSet(SlotsIn(N, {i}))
  BY SlotsFinite
<1> QED
  BY <1>1, <1>2, <1>3, FS_AddElement

LEMMA SlotsDown ==
    ASSUME FiniteDisk, NEW N, NEW P, NEW d \in Ino, NEW n \in Name, NEW x, NEW i,
           At(N, P, d, n, x), N[d][n] = i, x # i
    PROVE  Cardinality(SlotsIn(P, {i})) = Cardinality(SlotsIn(N, {i})) - 1
<1>1. At(P, N, d, n, i) /\ P[d][n] # i
  BY DEF At
<1>2. Cardinality(SlotsIn(N, {i})) = Cardinality(SlotsIn(P, {i})) + 1
  BY <1>1, SlotsUp
<1>3. Cardinality(SlotsIn(P, {i})) \in Nat
  BY SlotsFinite
<1> QED
  BY <1>2, <1>3

LEMMA NoSlots ==
    ASSUME NEW N, NEW i, \A d \in Ino, n \in Name : N[d][n] # i
    PROVE  Cardinality(SlotsIn(N, {i})) = 0
<1>1. SlotsIn(N, {i}) = {}
  BY DEF SlotsIn
<1> QED
  BY <1>1, FS_EmptySet

\* A new file.
LEMMA MakeTree ==
    ASSUME FiniteDisk, NEW K, NEW N, NEW L, NEW U, TreeInv(K, N, L, U),
           NEW J, NEW P, NEW M, View(J, P, M, U),
           NEW d \in Ino, NEW n \in Name, K[d] = "dir", N[d][n] = NoIno,
           NEW i \in Ino, K[i] = "none", NEW k \in Kind \ {"dir"},
           At(N, P, d, n, i), Is(K, J, i, k), Is(L, M, i, 1)
    PROVE  TreeInv(J, P, M, U)
<1>0. View(K, N, L, U) /\ Proper(K, N) /\ HasName(K, N) /\ FileCounts(K, N, L)
      /\ DirCounts(K, N, L) /\ Parents(K, N, U) /\ Connected(K, N)
  BY DEF TreeInv
<1>a. /\ \A e \in Ino, m \in Name : N[e][m] \in Ino \cup {NoIno}
      /\ \A e \in Ino, m \in Name : P[e][m] \in Ino \cup {NoIno}
      /\ NoIno \notin Ino /\ Root \in Ino /\ k # "none" /\ k # "dir"
  BY <1>0, RootAssumption DEF View, Kind
<1>b. J[i] = k /\ \A j \in Ino : j # i => J[j] = K[j]
  BY DEF Is
<1>c. M[i] = 1 /\ \A j \in Ino : j # i => M[j] = L[j]
  BY DEF Is
<1>d. P[d][n] = i /\ \A e \in Ino, m \in Name : e # d \/ m # n => P[e][m] = N[e][m]
  BY DEF At
<1>e. /\ \A e \in Ino, m \in Name : N[e][m] # i
      /\ i # d /\ i # Root /\ i # NoIno
  BY <1>0, <1>a DEF Proper
<1>f. \A j \in Ino : j # i => SlotsIn(P, {j}) = SlotsIn(N, {j})
  <2> SUFFICES ASSUME NEW j \in Ino, j # i PROVE SlotsIn(P, {j}) = SlotsIn(N, {j})
    OBVIOUS
  <2>1. N[d][n] # j /\ i # j /\ At(N, P, d, n, i)
    BY <1>a
  <2>2. SameSlots(N, P, j)
    BY <2>1, OtherSlots
  <2> QED
    BY <2>2 DEF SameSlots
<1>g. Cardinality(SlotsIn(P, {i})) = 1
  <2>1. Cardinality(SlotsIn(N, {i})) = 0
    BY <1>e, NoSlots
  <2>2. Cardinality(SlotsIn(P, {i})) = Cardinality(SlotsIn(N, {i})) + 1
    BY <1>a, <1>e, SlotsUp
  <2> QED
    BY <2>1, <2>2
<1>2. Proper(J, P)
  <2>1. J[Root] = "dir"
    BY <1>0, <1>a, <1>b, <1>e DEF Proper
  <2>2. ASSUME NEW e \in Ino, NEW m \in Name, P[e][m] # NoIno
        PROVE  J[e] = "dir" /\ J[P[e][m]] # "none" /\ P[e][m] # Root
    <3>1. CASE e = d /\ m = n
      BY <1>a, <1>b, <1>d, <1>e, <3>1
    <3>2. CASE e # d \/ m # n
      <4>1. P[e][m] = N[e][m]
        BY <1>d, <3>2
      <4>2. K[e] = "dir" /\ K[N[e][m]] # "none" /\ N[e][m] # Root /\ N[e][m] \in Ino
        BY <1>0, <1>a, <2>2, <4>1 DEF Proper
      <4> QED
        BY <1>b, <1>e, <4>1, <4>2
    <3> QED
      BY <3>1, <3>2
  <2>3. ASSUME NEW e \in Ino, NEW c \in Ino, NEW m \in Name, NEW l \in Name,
               P[e][m] # NoIno, P[e][m] = P[c][l], J[P[e][m]] = "dir"
        PROVE  e = c /\ m = l
    <3>1. P[e][m] # i /\ P[e][m] \in Ino
      BY <1>a, <1>b, <2>3
    <3>2. N[e][m] = P[e][m] /\ N[c][l] = P[c][l]
      BY <1>d, <2>3, <3>1
    <3>3. K[N[e][m]] = "dir"
      BY <1>b, <2>3, <3>1, <3>2
    <3> QED
      BY <1>0, <2>3, <3>2, <3>3 DEF Proper
  <2> QED
    BY <2>1, <2>2, <2>3 DEF Proper
<1>3. HasName(J, P)
  <2> SUFFICES ASSUME NEW j \in Ino \ {Root}, J[j] # "none"
               PROVE  \E e \in Ino, m \in Name : P[e][m] = j
    BY DEF HasName
  <2>1. CASE j = i
    BY <1>d, <2>1
  <2>2. CASE j # i
    <3>1. PICK e \in Ino, m \in Name : N[e][m] = j
      BY <1>0, <1>b, <2>2 DEF HasName
    <3> QED
      BY <1>a, <1>d, <3>1
  <2> QED
    BY <2>1, <2>2
<1>4. FileCounts(J, P, M)
  <2> SUFFICES ASSUME NEW j \in Ino, J[j] \notin {"none", "dir"}
               PROVE  M[j] = Cardinality(SlotsIn(P, {j}))
    BY DEF FileCounts
  <2>1. CASE j = i
    BY <1>c, <1>g, <2>1
  <2>2. CASE j # i
    BY <1>0, <1>b, <1>c, <1>f, <2>2 DEF FileCounts
  <2> QED
    BY <2>1, <2>2
<1>5. DirCounts(J, P, M)
  <2> SUFFICES ASSUME NEW e \in Ino, J[e] = "dir"
               PROVE  M[e] = 2 + Cardinality(Below(J, P, e))
    BY DEF DirCounts
  <2>1. e # i /\ K[e] = "dir" /\ M[e] = L[e]
    BY <1>a, <1>b, <1>c
  <2>2. Below(J, P, e) = Below(K, N, e)
    BY <1>a, <1>b, <1>d, <1>e, <2>1 DEF Below
  <2> QED
    BY <1>0, <2>1, <2>2 DEF DirCounts
<1>6. Parents(J, P, U)
  <2> SUFFICES ASSUME NEW e \in Ino, NEW m \in Name, P[e][m] # NoIno, J[P[e][m]] = "dir"
               PROVE  U[P[e][m]] = e
    BY DEF Parents
  <2>1. P[e][m] # i /\ P[e][m] \in Ino
    BY <1>a, <1>b
  <2>2. N[e][m] = P[e][m]
    BY <1>d, <2>1
  <2> QED
    BY <1>0, <1>b, <2>1, <2>2 DEF Parents
<1>7. Connected(J, P)
  <2> SUFFICES ASSUME NEW S \in SUBSET Ino, Root \in S, ClosedIn(P, S),
                      NEW e \in Ino, J[e] = "dir"
               PROVE  e \in S
    BY DEF Connected
  <2>1. K[e] = "dir"
    BY <1>a, <1>b
  <2>2. ClosedIn(N, S)
    <3> SUFFICES ASSUME NEW c \in S, NEW m \in Name, N[c][m] # NoIno PROVE N[c][m] \in S
      BY DEF ClosedIn
    <3>1. P[c][m] = N[c][m]
      BY <1>d
    <3> QED
      BY <3>1 DEF ClosedIn
  <2> QED
    BY <1>0, <2>1, <2>2 DEF Connected
<1> QED
  BY <1>2, <1>3, <1>4, <1>5, <1>6, <1>7 DEF TreeInv

\* A new directory.
LEMMA MakeDirTree ==
    ASSUME FiniteDisk, NEW K, NEW N, NEW L, NEW U, TreeInv(K, N, L, U),
           NEW J, NEW P, NEW M, NEW V, View(J, P, M, V),
           NEW d \in Ino, NEW n \in Name, K[d] = "dir", N[d][n] = NoIno,
           NEW i \in Ino, K[i] = "none",
           At(N, P, d, n, i), Is(K, J, i, "dir"), Is(U, V, i, d),
           M[i] = 2, M[d] = L[d] + 1, \A j \in Ino : j # i /\ j # d => M[j] = L[j]
    PROVE  TreeInv(J, P, M, V)
<1>0. View(K, N, L, U) /\ Proper(K, N) /\ HasName(K, N) /\ FileCounts(K, N, L)
      /\ DirCounts(K, N, L) /\ Parents(K, N, U) /\ Connected(K, N)
  BY DEF TreeInv
<1>a. /\ \A e \in Ino, m \in Name : N[e][m] \in Ino \cup {NoIno}
      /\ \A e \in Ino, m \in Name : P[e][m] \in Ino \cup {NoIno}
      /\ NoIno \notin Ino /\ Root \in Ino
  BY <1>0, RootAssumption DEF View
<1>b. J[i] = "dir" /\ \A j \in Ino : j # i => J[j] = K[j]
  BY DEF Is
<1>c. V[i] = d /\ \A j \in Ino : j # i => V[j] = U[j]
  BY DEF Is
<1>d. P[d][n] = i /\ \A e \in Ino, m \in Name : e # d \/ m # n => P[e][m] = N[e][m]
  BY DEF At
<1>e. /\ \A e \in Ino, m \in Name : N[e][m] # i
      /\ \A m \in Name : N[i][m] = NoIno
      /\ i # d /\ i # Root /\ i # NoIno
  BY <1>0, <1>a DEF Proper
<1>f. \A j \in Ino : j # i => SlotsIn(P, {j}) = SlotsIn(N, {j})
  <2> SUFFICES ASSUME NEW j \in Ino, j # i PROVE SlotsIn(P, {j}) = SlotsIn(N, {j})
    OBVIOUS
  <2>1. N[d][n] # j /\ i # j /\ At(N, P, d, n, i)
    BY <1>a
  <2>2. SameSlots(N, P, j)
    BY <2>1, OtherSlots
  <2> QED
    BY <2>2 DEF SameSlots
<1>2. Proper(J, P)
  <2>1. J[Root] = "dir"
    BY <1>0, <1>a, <1>b, <1>e DEF Proper
  <2>2. ASSUME NEW e \in Ino, NEW m \in Name, P[e][m] # NoIno
        PROVE  J[e] = "dir" /\ J[P[e][m]] # "none" /\ P[e][m] # Root
    <3>1. CASE e = d /\ m = n
      BY <1>a, <1>b, <1>d, <1>e, <3>1
    <3>2. CASE e # d \/ m # n
      <4>1. P[e][m] = N[e][m]
        BY <1>d, <3>2
      <4>2. K[e] = "dir" /\ K[N[e][m]] # "none" /\ N[e][m] # Root /\ N[e][m] \in Ino
        BY <1>0, <1>a, <2>2, <4>1 DEF Proper
      <4> QED
        BY <1>b, <1>e, <4>1, <4>2
    <3> QED
      BY <3>1, <3>2
  <2>3. ASSUME NEW e \in Ino, NEW c \in Ino, NEW m \in Name, NEW l \in Name,
               P[e][m] # NoIno, P[e][m] = P[c][l], J[P[e][m]] = "dir"
        PROVE  e = c /\ m = l
    <3>1. CASE P[e][m] = i
      <4>1. e = d /\ m = n
        BY <1>d, <1>e, <3>1
      <4>3. P[c][l] = i
        BY <2>3, <3>1
      <4>2. c = d /\ l = n
        BY <1>d, <1>e, <4>3
      <4> QED
        BY <4>1, <4>2
    <3>2. CASE P[e][m] # i
      <4>2. N[e][m] = P[e][m] /\ N[c][l] = P[c][l] /\ P[e][m] \in Ino
        BY <1>a, <1>d, <2>3, <3>2
      <4>3. K[N[e][m]] = "dir"
        BY <1>b, <2>3, <3>2, <4>2
      <4> QED
        BY <1>0, <2>3, <4>2, <4>3 DEF Proper
    <3> QED
      BY <3>1, <3>2
  <2> QED
    BY <2>1, <2>2, <2>3 DEF Proper
<1>3. HasName(J, P)
  <2> SUFFICES ASSUME NEW j \in Ino \ {Root}, J[j] # "none"
               PROVE  \E e \in Ino, m \in Name : P[e][m] = j
    BY DEF HasName
  <2>1. CASE j = i
    BY <1>d, <2>1
  <2>2. CASE j # i
    <3>1. PICK e \in Ino, m \in Name : N[e][m] = j
      BY <1>0, <1>b, <2>2 DEF HasName
    <3> QED
      BY <1>a, <1>d, <3>1
  <2> QED
    BY <2>1, <2>2
<1>4. FileCounts(J, P, M)
  <2> SUFFICES ASSUME NEW j \in Ino, J[j] \notin {"none", "dir"}
               PROVE  M[j] = Cardinality(SlotsIn(P, {j}))
    BY DEF FileCounts
  <2>1. j # i /\ j # d /\ K[j] = J[j]
    BY <1>b, <1>e
  <2> QED
    BY <1>0, <1>f, <2>1 DEF FileCounts
<1>5. DirCounts(J, P, M)
  <2> SUFFICES ASSUME NEW e \in Ino, J[e] = "dir"
               PROVE  M[e] = 2 + Cardinality(Below(J, P, e))
    BY DEF DirCounts
  <2>1. CASE e = i
    <3>1. Below(J, P, e) = {}
      BY <1>a, <1>d, <1>e, <2>1 DEF Below
    <3> QED
      BY <2>1, <3>1, FS_EmptySet
  <2>2. CASE e = d
    <3>1. Below(J, P, e) = Below(K, N, e) \cup {i} /\ i \notin Below(K, N, e)
      BY <1>a, <1>b, <1>d, <1>e, <2>2 DEF Below
    <3>2. Cardinality(Below(J, P, e)) = Cardinality(Below(K, N, e)) + 1
      BY <3>1, BelowFinite, FS_AddElement
    <3>3. L[d] = 2 + Cardinality(Below(K, N, d)) /\ Cardinality(Below(K, N, d)) \in Nat
      BY <1>0, BelowFinite DEF DirCounts
    <3> QED
      BY <2>2, <3>2, <3>3
  <2>3. CASE e # i /\ e # d
    <3>1. Below(J, P, e) = Below(K, N, e) /\ K[e] = "dir" /\ M[e] = L[e]
      BY <1>a, <1>b, <1>d, <1>e, <2>3 DEF Below
    <3> QED
      BY <1>0, <3>1 DEF DirCounts
  <2> QED
    BY <2>1, <2>2, <2>3
<1>6. Parents(J, P, V)
  <2> SUFFICES ASSUME NEW e \in Ino, NEW m \in Name, P[e][m] # NoIno, J[P[e][m]] = "dir"
               PROVE  V[P[e][m]] = e
    BY DEF Parents
  <2>1. CASE P[e][m] = i
    BY <1>c, <1>d, <1>e, <2>1
  <2>2. CASE P[e][m] # i
    <3>1. N[e][m] = P[e][m] /\ P[e][m] \in Ino
      BY <1>a, <1>d, <2>2
    <3> QED
      BY <1>0, <1>b, <1>c, <2>2, <3>1 DEF Parents
  <2> QED
    BY <2>1, <2>2
<1>7. Connected(J, P)
  <2> SUFFICES ASSUME NEW S \in SUBSET Ino, Root \in S, ClosedIn(P, S),
                      NEW e \in Ino, J[e] = "dir"
               PROVE  e \in S
    BY DEF Connected
  <2>2. ClosedIn(N, S)
    <3> SUFFICES ASSUME NEW c \in S, NEW m \in Name, N[c][m] # NoIno PROVE N[c][m] \in S
      BY DEF ClosedIn
    <3>1. P[c][m] = N[c][m]
      BY <1>d
    <3> QED
      BY <3>1 DEF ClosedIn
  <2>3. \A c \in Ino : K[c] = "dir" => c \in S
    BY <1>0, <2>2 DEF Connected
  <2>4. CASE e = i
    BY <1>d, <1>e, <2>3, <2>4 DEF ClosedIn
  <2>5. CASE e # i
    BY <1>b, <2>3, <2>5
  <2> QED
    BY <2>4, <2>5
<1> QED
  BY <1>2, <1>3, <1>4, <1>5, <1>6, <1>7 DEF TreeInv

\* A file with one name more.
LEMMA LinkTree ==
    ASSUME FiniteDisk, NEW K, NEW N, NEW L, NEW U, TreeInv(K, N, L, U),
           NEW P, NEW M, View(K, P, M, U),
           NEW d \in Ino, NEW n \in Name, K[d] = "dir", N[d][n] = NoIno,
           NEW i \in Ino, K[i] \notin {"none", "dir"},
           At(N, P, d, n, i), Is(L, M, i, L[i] + 1)
    PROVE  TreeInv(K, P, M, U)
<1>0. View(K, N, L, U) /\ Proper(K, N) /\ HasName(K, N) /\ FileCounts(K, N, L)
      /\ DirCounts(K, N, L) /\ Parents(K, N, U) /\ Connected(K, N)
  BY DEF TreeInv
<1>a. /\ \A e \in Ino, m \in Name : N[e][m] \in Ino \cup {NoIno}
      /\ \A e \in Ino, m \in Name : P[e][m] \in Ino \cup {NoIno}
      /\ NoIno \notin Ino /\ Root \in Ino /\ i # Root /\ i # NoIno
  BY <1>0, RootAssumption DEF View, Proper
<1>c. M[i] = L[i] + 1 /\ \A j \in Ino : j # i => M[j] = L[j]
  BY DEF Is
<1>d. P[d][n] = i /\ \A e \in Ino, m \in Name : e # d \/ m # n => P[e][m] = N[e][m]
  BY DEF At
<1>f. \A j \in Ino : j # i => SlotsIn(P, {j}) = SlotsIn(N, {j})
  <2> SUFFICES ASSUME NEW j \in Ino, j # i PROVE SlotsIn(P, {j}) = SlotsIn(N, {j})
    OBVIOUS
  <2>1. N[d][n] # j /\ i # j /\ At(N, P, d, n, i)
    BY <1>a
  <2>2. SameSlots(N, P, j)
    BY <2>1, OtherSlots
  <2> QED
    BY <2>2 DEF SameSlots
<1>g. Cardinality(SlotsIn(P, {i})) = Cardinality(SlotsIn(N, {i})) + 1
  BY <1>a, SlotsUp
<1>h. ASSUME NEW e \in Ino, NEW m \in Name, P[e][m] # NoIno, K[P[e][m]] = "dir"
      PROVE  N[e][m] = P[e][m]
  BY <1>d, <1>h
<1>2. Proper(K, P)
  <2>2. ASSUME NEW e \in Ino, NEW m \in Name, P[e][m] # NoIno
        PROVE  K[e] = "dir" /\ K[P[e][m]] # "none" /\ P[e][m] # Root
    <3>1. CASE e = d /\ m = n
      BY <1>a, <1>d, <3>1
    <3>2. CASE e # d \/ m # n
      BY <1>0, <1>d, <2>2, <3>2 DEF Proper
    <3> QED
      BY <3>1, <3>2
  <2>3. ASSUME NEW e \in Ino, NEW c \in Ino, NEW m \in Name, NEW l \in Name,
               P[e][m] # NoIno, P[e][m] = P[c][l], K[P[e][m]] = "dir"
        PROVE  e = c /\ m = l
    <3>1. N[e][m] = P[e][m] /\ N[c][l] = P[c][l]
      BY <1>h, <2>3
    <3> QED
      BY <1>0, <2>3, <3>1 DEF Proper
  <2> QED
    BY <1>0, <2>2, <2>3 DEF Proper
<1>3. HasName(K, P)
  <2> SUFFICES ASSUME NEW j \in Ino \ {Root}, K[j] # "none"
               PROVE  \E e \in Ino, m \in Name : P[e][m] = j
    BY DEF HasName
  <2>1. PICK e \in Ino, m \in Name : N[e][m] = j
    BY <1>0 DEF HasName
  <2> QED
    BY <1>a, <1>d, <2>1
<1>4. FileCounts(K, P, M)
  <2> SUFFICES ASSUME NEW j \in Ino, K[j] \notin {"none", "dir"}
               PROVE  M[j] = Cardinality(SlotsIn(P, {j}))
    BY DEF FileCounts
  <2>1. L[j] = Cardinality(SlotsIn(N, {j}))
    BY <1>0 DEF FileCounts
  <2>2. CASE j = i
    BY <1>c, <1>g, <2>1, <2>2
  <2>3. CASE j # i
    BY <1>c, <1>f, <2>1, <2>3
  <2> QED
    BY <2>2, <2>3
<1>5. DirCounts(K, P, M)
  <2> SUFFICES ASSUME NEW e \in Ino, K[e] = "dir"
               PROVE  M[e] = 2 + Cardinality(Below(K, P, e))
    BY DEF DirCounts
  <2>1. M[e] = L[e]
    BY <1>c
  <2>2. Below(K, P, e) = Below(K, N, e)
    BY <1>a, <1>d DEF Below
  <2> QED
    BY <1>0, <2>1, <2>2 DEF DirCounts
<1>6. Parents(K, P, U)
  BY <1>0, <1>h DEF Parents
<1>7. Connected(K, P)
  <2> SUFFICES ASSUME NEW S \in SUBSET Ino, Root \in S, ClosedIn(P, S),
                      NEW e \in Ino, K[e] = "dir"
               PROVE  e \in S
    BY DEF Connected
  <2>2. ClosedIn(N, S)
    <3> SUFFICES ASSUME NEW c \in S, NEW m \in Name, N[c][m] # NoIno PROVE N[c][m] \in S
      BY DEF ClosedIn
    <3>1. P[c][m] = N[c][m]
      BY <1>d
    <3> QED
      BY <3>1 DEF ClosedIn
  <2> QED
    BY <1>0, <2>2 DEF Connected
<1> QED
  BY <1>2, <1>3, <1>4, <1>5, <1>6, <1>7 DEF TreeInv

-----------------------------------------------------------------------------
(* What removes a name *)

SomeSlot(N, i) == \E d \in Ino, n \in Name : N[d][n] = i
LEMMA SlotThere ==
    ASSUME FiniteDisk, NEW N, NEW i, Cardinality(SlotsIn(N, {i})) # 0
    PROVE  SomeSlot(N, i)
  BY NoSlots DEF SomeSlot

LEMMA SlotNowhere ==
    ASSUME FiniteDisk, NEW N, NEW i, Cardinality(SlotsIn(N, {i})) = 0
    PROVE  \A d \in Ino, n \in Name : N[d][n] # i
<1>1. SlotsIn(N, {i}) = {}
  BY SlotsFinite, FS_EmptySet
<1> SUFFICES ASSUME NEW d \in Ino, NEW n \in Name, N[d][n] = i PROVE FALSE
  OBVIOUS
<1>2. <<d, n>> \in SlotsIn(N, {i})
  BY DEF SlotsIn
<1> QED
  BY <1>1, <1>2

\* A file with one name less, which goes when it was the last one.
LEMMA DropTree ==
    ASSUME FiniteDisk, NEW K, NEW N, NEW L, NEW U, TreeInv(K, N, L, U),
           NEW J, NEW P, NEW M, View(J, P, M, U),
           NEW d \in Ino, NEW n \in Name, NEW i \in Ino, N[d][n] = i,
           K[i] \notin {"none", "dir"},
           At(N, P, d, n, NoIno), Is(L, M, i, L[i] - 1),
           L[i] = 1 => Is(K, J, i, "none"), L[i] # 1 => J = K
    PROVE  TreeInv(J, P, M, U)
<1>0. View(K, N, L, U) /\ Proper(K, N) /\ HasName(K, N) /\ FileCounts(K, N, L)
      /\ DirCounts(K, N, L) /\ Parents(K, N, U) /\ Connected(K, N)
  BY DEF TreeInv
<1>a. /\ \A e \in Ino, m \in Name : N[e][m] \in Ino \cup {NoIno}
      /\ \A e \in Ino, m \in Name : P[e][m] \in Ino \cup {NoIno}
      /\ NoIno \notin Ino /\ Root \in Ino /\ i # NoIno
      /\ i # Root /\ K[d] = "dir" /\ i # d
      /\ \A m \in Name : N[i][m] = NoIno
  BY <1>0, RootAssumption DEF View, Proper
<1>b. \A j \in Ino : (j # i => J[j] = K[j]) /\ (J[j] # "none" => J[j] = K[j])
  BY DEF Is
<1>c. M[i] = L[i] - 1 /\ \A j \in Ino : j # i => M[j] = L[j]
  BY DEF Is
<1>d. P[d][n] = NoIno /\ \A e \in Ino, m \in Name : e # d \/ m # n => P[e][m] = N[e][m]
  BY DEF At
<1>f. \A j \in Ino : j # i => SlotsIn(P, {j}) = SlotsIn(N, {j})
  <2> SUFFICES ASSUME NEW j \in Ino, j # i PROVE SlotsIn(P, {j}) = SlotsIn(N, {j})
    OBVIOUS
  <2>1. N[d][n] # j /\ NoIno # j /\ At(N, P, d, n, NoIno)
    BY <1>a
  <2>2. SameSlots(N, P, j)
    BY <2>1, OtherSlots
  <2> QED
    BY <2>2 DEF SameSlots
<1>g. Cardinality(SlotsIn(P, {i})) = Cardinality(SlotsIn(N, {i})) - 1
  BY <1>a, SlotsDown
<1>h. \A e \in Ino, m \in Name : P[e][m] # NoIno => N[e][m] = P[e][m]
  BY <1>d
<1>i. L[i] = Cardinality(SlotsIn(N, {i}))
  BY <1>0 DEF FileCounts
<1>j. M[i] = Cardinality(SlotsIn(P, {i}))
  BY <1>c, <1>g, <1>i
<1>k. L[i] = 1 => \A e \in Ino, m \in Name : P[e][m] # i
  <2> SUFFICES ASSUME L[i] = 1 PROVE \A e \in Ino, m \in Name : P[e][m] # i
    OBVIOUS
  <2>1. Cardinality(SlotsIn(P, {i})) = 0
    BY <1>g, <1>i
  <2> QED
    BY <2>1, SlotNowhere
<1>2. Proper(J, P)
  <2>1. J[Root] = "dir"
    BY <1>0, <1>a, <1>b DEF Proper
  <2>2. ASSUME NEW e \in Ino, NEW m \in Name, P[e][m] # NoIno
        PROVE  J[e] = "dir" /\ J[P[e][m]] # "none" /\ P[e][m] # Root
    <3>1. N[e][m] = P[e][m] /\ P[e][m] \in Ino
      BY <1>a, <1>h, <2>2
    <3>2. K[e] = "dir" /\ K[P[e][m]] # "none" /\ P[e][m] # Root
      BY <1>0, <2>2, <3>1 DEF Proper
    <3>3. J[e] = "dir"
      BY <1>b, <3>2
    <3>4. J[P[e][m]] # "none"
      BY <1>b, <1>k, <3>1, <3>2
    <3> QED
      BY <3>2, <3>3, <3>4
  <2>3. ASSUME NEW e \in Ino, NEW c \in Ino, NEW m \in Name, NEW l \in Name,
               P[e][m] # NoIno, P[e][m] = P[c][l], J[P[e][m]] = "dir"
        PROVE  e = c /\ m = l
    <3>1. N[e][m] = P[e][m] /\ N[c][l] = P[c][l] /\ P[e][m] \in Ino
      BY <1>a, <1>h, <2>3
    <3>2. K[N[e][m]] = "dir"
      BY <1>b, <2>3, <3>1
    <3> QED
      BY <1>0, <2>3, <3>1, <3>2 DEF Proper
  <2> QED
    BY <2>1, <2>2, <2>3 DEF Proper
<1>3. HasName(J, P)
  <2> SUFFICES ASSUME NEW j \in Ino \ {Root}, J[j] # "none"
               PROVE  \E e \in Ino, m \in Name : P[e][m] = j
    BY DEF HasName
  <2>1. CASE j = i
    <3>1. L[i] # 1
      BY <2>1 DEF Is
    <3>2. Cardinality(SlotsIn(P, {i})) # 0
      <4>1. Cardinality(SlotsIn(N, {i})) \in Nat
        BY SlotsFinite
      <4> QED
        BY <1>g, <1>i, <3>1, <4>1
    <3>3. SomeSlot(P, i)
      BY <3>2, SlotThere
    <3> QED
      BY <2>1, <3>3 DEF SomeSlot
  <2>2. CASE j # i
    <3>1. PICK e \in Ino, m \in Name : N[e][m] = j
      BY <1>0, <1>b, <2>2 DEF HasName
    <3> QED
      BY <1>d, <2>2, <3>1
  <2> QED
    BY <2>1, <2>2
<1>4. FileCounts(J, P, M)
  <2> SUFFICES ASSUME NEW j \in Ino, J[j] \notin {"none", "dir"}
               PROVE  M[j] = Cardinality(SlotsIn(P, {j}))
    BY DEF FileCounts
  <2>1. CASE j = i
    BY <1>j, <2>1
  <2>2. CASE j # i
    BY <1>0, <1>b, <1>c, <1>f, <2>2 DEF FileCounts
  <2> QED
    BY <2>1, <2>2
<1>5. DirCounts(J, P, M)
  <2> SUFFICES ASSUME NEW e \in Ino, J[e] = "dir"
               PROVE  M[e] = 2 + Cardinality(Below(J, P, e))
    BY DEF DirCounts
  <2>1. e # i /\ K[e] = "dir" /\ M[e] = L[e]
    BY <1>b, <1>c
  <2>2. ASSUME NEW j \in Ino \ {e}
        PROVE  J[j] = "dir" /\ (\E m \in Name : P[e][m] = j) <=>
               K[j] = "dir" /\ (\E m \in Name : N[e][m] = j)
    BY <1>a, <1>b, <1>d
  <2>3. Below(J, P, e) = Below(K, N, e)
    BY <2>2 DEF Below
  <2> QED
    BY <1>0, <2>1, <2>3 DEF DirCounts
<1>6. Parents(J, P, U)
  <2> SUFFICES ASSUME NEW e \in Ino, NEW m \in Name, P[e][m] # NoIno, J[P[e][m]] = "dir"
               PROVE  U[P[e][m]] = e
    BY DEF Parents
  <2>1. N[e][m] = P[e][m] /\ P[e][m] \in Ino
    BY <1>a, <1>h
  <2> QED
    BY <1>0, <1>b, <2>1 DEF Parents
<1>7. Connected(J, P)
  <2> SUFFICES ASSUME NEW S \in SUBSET Ino, Root \in S, ClosedIn(P, S),
                      NEW e \in Ino, J[e] = "dir"
               PROVE  e \in S
    BY DEF Connected
  <2>1. K[e] = "dir" /\ e # i
    BY <1>b
  <2> DEFINE T == S \cup {i}
  <2>2. ClosedIn(N, T)
    <3> SUFFICES ASSUME NEW c \in T, NEW m \in Name, N[c][m] # NoIno PROVE N[c][m] \in T
      BY DEF ClosedIn
    <3>1. c \in S
      BY <1>a
    <3>2. CASE N[c][m] # i
      <4>1. P[c][m] = N[c][m]
        BY <1>d, <3>1, <3>2
      <4> QED
        BY <3>1, <4>1 DEF ClosedIn
    <3> QED
      BY <3>2
  <2>3. T \in SUBSET Ino /\ Root \in T
    OBVIOUS
  <2> HIDE DEF T
  <2>4. e \in T
    BY <1>0, <2>1, <2>2, <2>3 DEF Connected
  <2> QED
    BY <2>1, <2>4 DEF T
<1> QED
  BY <1>2, <1>3, <1>4, <1>5, <1>6, <1>7 DEF TreeInv

LEMMA OneOut ==
    ASSUME NEW A, NEW B, NEW x \in B, IsFiniteSet(B), A = B \ {x}
    PROVE  Cardinality(A) = Cardinality(B) - 1
  BY FS_RemoveElement

\* An empty directory that goes.
LEMMA DropDirTree ==
    ASSUME FiniteDisk, NEW K, NEW N, NEW L, NEW U, TreeInv(K, N, L, U),
           NEW J, NEW P, NEW M, View(J, P, M, U),
           NEW d \in Ino, NEW n \in Name, NEW i \in Ino, N[d][n] = i, K[i] = "dir",
           i # d, \A m \in Name : N[i][m] = NoIno,
           At(N, P, d, n, NoIno), Is(K, J, i, "none"),
           M[i] = 0, M[d] = LessOne(L[d]), \A j \in Ino : j # i /\ j # d => M[j] = L[j]
    PROVE  TreeInv(J, P, M, U)
<1>0. View(K, N, L, U) /\ Proper(K, N) /\ HasName(K, N) /\ FileCounts(K, N, L)
      /\ DirCounts(K, N, L) /\ Parents(K, N, U) /\ Connected(K, N)
  BY DEF TreeInv
<1>a. /\ \A e \in Ino, m \in Name : N[e][m] \in Ino \cup {NoIno}
      /\ \A e \in Ino, m \in Name : P[e][m] \in Ino \cup {NoIno}
      /\ NoIno \notin Ino /\ Root \in Ino /\ i # NoIno
      /\ i # Root /\ K[d] = "dir"
  BY <1>0, RootAssumption DEF View, Proper
<1>b. J[i] = "none" /\ \A j \in Ino : j # i => J[j] = K[j]
  BY DEF Is
<1>d. P[d][n] = NoIno /\ \A e \in Ino, m \in Name : e # d \/ m # n => P[e][m] = N[e][m]
  BY DEF At
<1>e. \A e \in Ino, m \in Name : N[e][m] = i => e = d /\ m = n
  BY <1>0, <1>a DEF Proper
<1>f. \A j \in Ino : j # i => SlotsIn(P, {j}) = SlotsIn(N, {j})
  <2> SUFFICES ASSUME NEW j \in Ino, j # i PROVE SlotsIn(P, {j}) = SlotsIn(N, {j})
    OBVIOUS
  <2>1. N[d][n] # j /\ NoIno # j /\ At(N, P, d, n, NoIno)
    BY <1>a
  <2>2. SameSlots(N, P, j)
    BY <2>1, OtherSlots
  <2> QED
    BY <2>2 DEF SameSlots
<1>h. \A e \in Ino, m \in Name : P[e][m] # NoIno => N[e][m] = P[e][m] /\ P[e][m] # i
  BY <1>d, <1>e
<1>2. Proper(J, P)
  <2>1. J[Root] = "dir"
    BY <1>0, <1>a, <1>b DEF Proper
  <2>2. ASSUME NEW e \in Ino, NEW m \in Name, P[e][m] # NoIno
        PROVE  J[e] = "dir" /\ J[P[e][m]] # "none" /\ P[e][m] # Root
    <3>1. N[e][m] = P[e][m] /\ P[e][m] \in Ino /\ P[e][m] # i
      BY <1>a, <1>h, <2>2
    <3>2. K[e] = "dir" /\ K[P[e][m]] # "none" /\ P[e][m] # Root
      BY <1>0, <2>2, <3>1 DEF Proper
    <3>3. e # i
      BY <2>2, <3>1
    <3> QED
      BY <1>b, <3>1, <3>2, <3>3
  <2>3. ASSUME NEW e \in Ino, NEW c \in Ino, NEW m \in Name, NEW l \in Name,
               P[e][m] # NoIno, P[e][m] = P[c][l], J[P[e][m]] = "dir"
        PROVE  e = c /\ m = l
    <3>1. N[e][m] = P[e][m] /\ N[c][l] = P[c][l] /\ P[e][m] \in Ino /\ P[e][m] # i
      BY <1>a, <1>h, <2>3
    <3>2. K[N[e][m]] = "dir"
      BY <1>b, <2>3, <3>1
    <3> QED
      BY <1>0, <2>3, <3>1, <3>2 DEF Proper
  <2> QED
    BY <2>1, <2>2, <2>3 DEF Proper
<1>3. HasName(J, P)
  <2> SUFFICES ASSUME NEW j \in Ino \ {Root}, J[j] # "none"
               PROVE  \E e \in Ino, m \in Name : P[e][m] = j
    BY DEF HasName
  <2>1. j # i
    BY <1>b
  <2>2. PICK e \in Ino, m \in Name : N[e][m] = j
    BY <1>0, <1>b, <2>1 DEF HasName
  <2> QED
    BY <1>d, <2>1, <2>2
<1>4. FileCounts(J, P, M)
  <2> SUFFICES ASSUME NEW j \in Ino, J[j] \notin {"none", "dir"}
               PROVE  M[j] = Cardinality(SlotsIn(P, {j}))
    BY DEF FileCounts
  <2>1. j # i
    BY <1>b
  <2>2. K[j] = J[j] /\ j # d
    BY <1>a, <1>b, <2>1
  <2> QED
    BY <1>0, <1>f, <2>1, <2>2 DEF FileCounts
<1>5. DirCounts(J, P, M)
  <2> SUFFICES ASSUME NEW e \in Ino, J[e] = "dir"
               PROVE  M[e] = 2 + Cardinality(Below(J, P, e))
    BY DEF DirCounts
  <2>0. e # i /\ K[e] = "dir"
    BY <1>b
  <2>1. CASE e = d
    <3>a. ASSUME NEW j \in Ino \ {e}
          PROVE  J[j] = "dir" /\ (\E m \in Name : P[e][m] = j) <=>
                 K[j] = "dir" /\ (\E m \in Name : N[e][m] = j) /\ j # i
      BY <1>a, <1>b, <1>d, <1>e
    <3>1. Below(J, P, e) = Below(K, N, e) \ {i}
      BY <3>a DEF Below
    <3>2. i \in Below(K, N, e)
      BY <2>1 DEF Below
    <3>3. IsFiniteSet(Below(K, N, e)) /\ Cardinality(Below(K, N, e)) \in Nat
      BY BelowFinite
    <3>4. Cardinality(Below(J, P, e)) = Cardinality(Below(K, N, e)) - 1
      BY <3>1, <3>2, <3>3, OneOut
    <3>5. Cardinality(Below(J, P, e)) \in Nat
      BY BelowFinite
    <3>6. L[d] = 2 + Cardinality(Below(K, N, d))
      BY <1>0, <1>a DEF DirCounts
    <3>7. LessOne(L[d]) = L[d] - 1
      BY <2>1, <3>3, <3>6 DEF LessOne
    <3> QED
      BY <2>1, <3>3, <3>4, <3>6, <3>7
  <2>2. CASE e # d
    <3>a. ASSUME NEW j \in Ino \ {e}
          PROVE  J[j] = "dir" /\ (\E m \in Name : P[e][m] = j) <=>
                 K[j] = "dir" /\ (\E m \in Name : N[e][m] = j)
      BY <1>a, <1>b, <1>d, <1>e, <2>2
    <3>1. Below(J, P, e) = Below(K, N, e) /\ M[e] = L[e]
      BY <2>0, <2>2, <3>a DEF Below
    <3> QED
      BY <1>0, <2>0, <3>1 DEF DirCounts
  <2> QED
    BY <2>1, <2>2
<1>6. Parents(J, P, U)
  <2> SUFFICES ASSUME NEW e \in Ino, NEW m \in Name, P[e][m] # NoIno, J[P[e][m]] = "dir"
               PROVE  U[P[e][m]] = e
    BY DEF Parents
  <2>1. N[e][m] = P[e][m] /\ P[e][m] \in Ino /\ P[e][m] # i
    BY <1>a, <1>h
  <2> QED
    BY <1>0, <1>b, <2>1 DEF Parents
<1>7. Connected(J, P)
  <2> SUFFICES ASSUME NEW S \in SUBSET Ino, Root \in S, ClosedIn(P, S),
                      NEW e \in Ino, J[e] = "dir"
               PROVE  e \in S
    BY DEF Connected
  <2>1. K[e] = "dir" /\ e # i
    BY <1>b
  <2> DEFINE T == S \cup {i}
  <2>2. ClosedIn(N, T)
    <3> SUFFICES ASSUME NEW c \in T, NEW m \in Name, N[c][m] # NoIno PROVE N[c][m] \in T
      BY DEF ClosedIn
    <3>1. c \in S
      OBVIOUS
    <3>2. CASE N[c][m] # i
      <4>1. P[c][m] = N[c][m]
        BY <1>d, <3>1, <3>2
      <4> QED
        BY <3>1, <4>1 DEF ClosedIn
    <3> QED
      BY <3>2
  <2>3. T \in SUBSET Ino /\ Root \in T
    OBVIOUS
  <2> HIDE DEF T
  <2>4. e \in T
    BY <1>0, <2>1, <2>2, <2>3 DEF Connected
  <2> QED
    BY <2>1, <2>4 DEF T
<1> QED
  BY <1>2, <1>3, <1>4, <1>5, <1>6, <1>7 DEF TreeInv

-----------------------------------------------------------------------------
(* What moves a name *)

\* Q is between N and P: i has both its old name and the new one.
Shifts(N, Q, P, sd, sn, td, tn, i) ==
    At(N, Q, td, tn, i) /\ At(Q, P, sd, sn, NoIno)

Shifted(N, P, sd, sn, td, tn, i) ==
    /\ P[td][tn] = i /\ P[sd][sn] = NoIno
    /\ \A e \in Ino, m \in Name :
         (e # td \/ m # tn) /\ (e # sd \/ m # sn) => P[e][m] = N[e][m]
    /\ \A j \in Ino : Cardinality(SlotsIn(P, {j})) = Cardinality(SlotsIn(N, {j}))

LEMMA ShiftSlots ==
    ASSUME FiniteDisk, NEW N, NEW Q, NEW P, NEW sd \in Ino, NEW sn \in Name,
           NEW td \in Ino, NEW tn \in Name, sd # td \/ sn # tn, NEW i \in Ino,
           N[sd][sn] = i, N[td][tn] = NoIno, Shifts(N, Q, P, sd, sn, td, tn, i)
    PROVE  Shifted(N, P, sd, sn, td, tn, i)
<1>0. i # NoIno /\ NoIno \notin Ino /\ At(N, Q, td, tn, i) /\ At(Q, P, sd, sn, NoIno)
  BY RootAssumption DEF Shifts
<1>1. Q[td][tn] = i /\ Q[sd][sn] = i
      /\ \A e \in Ino, m \in Name : e # td \/ m # tn => Q[e][m] = N[e][m]
  BY <1>0 DEF At
<1>2. P[td][tn] = i /\ P[sd][sn] = NoIno
      /\ \A e \in Ino, m \in Name : e # sd \/ m # sn => P[e][m] = Q[e][m]
  BY <1>0, <1>1 DEF At
<1>3. ASSUME NEW j \in Ino
      PROVE  Cardinality(SlotsIn(P, {j})) = Cardinality(SlotsIn(N, {j}))
  <2>1. CASE j = i
    <3>1. Cardinality(SlotsIn(Q, {i})) = Cardinality(SlotsIn(N, {i})) + 1
      BY <1>0, SlotsUp
    <3>2. Cardinality(SlotsIn(P, {i})) = Cardinality(SlotsIn(Q, {i})) - 1
      BY <1>0, <1>1, SlotsDown
    <3>3. Cardinality(SlotsIn(N, {i})) \in Nat
      BY SlotsFinite
    <3> QED
      BY <2>1, <3>1, <3>2, <3>3
  <2>2. CASE j # i
    <3>1. N[td][tn] # j /\ i # j /\ Q[sd][sn] # j /\ NoIno # j
      BY <1>0, <1>1, <2>2
    <3>2. SameSlots(N, Q, j)
      BY <1>0, <3>1, OtherSlots
    <3>3. SameSlots(Q, P, j)
      BY <1>0, <3>1, OtherSlots
    <3> QED
      BY <3>2, <3>3 DEF SameSlots
  <2> QED
    BY <2>1, <2>2
<1> QED
  BY <1>1, <1>2, <1>3 DEF Shifted

\* A name that moves: of a file, or within a directory.
LEMMA MoveTree ==
    ASSUME FiniteDisk, NEW K, NEW N, NEW L, NEW U, TreeInv(K, N, L, U),
           NEW Q, NEW P, View(K, P, L, U),
           NEW sd \in Ino, NEW sn \in Name, NEW td \in Ino, NEW tn \in Name,
           sd # td \/ sn # tn, NEW i \in Ino, N[sd][sn] = i, N[td][tn] = NoIno,
           K[td] = "dir", K[i] # "dir" \/ sd = td,
           Shifts(N, Q, P, sd, sn, td, tn, i)
    PROVE  TreeInv(K, P, L, U)
<1>0. View(K, N, L, U) /\ Proper(K, N) /\ HasName(K, N) /\ FileCounts(K, N, L)
      /\ DirCounts(K, N, L) /\ Parents(K, N, U) /\ Connected(K, N)
  BY DEF TreeInv
<1>a. /\ \A e \in Ino, m \in Name : N[e][m] \in Ino \cup {NoIno}
      /\ \A e \in Ino, m \in Name : P[e][m] \in Ino \cup {NoIno}
      /\ NoIno \notin Ino /\ Root \in Ino /\ i # NoIno /\ K[sd] = "dir"
      /\ i # Root /\ K[i] # "none"
  BY <1>0, RootAssumption DEF View, Proper
<1>s. Shifted(N, P, sd, sn, td, tn, i)
  BY ShiftSlots
<1>d. /\ P[td][tn] = i /\ P[sd][sn] = NoIno
      /\ \A e \in Ino, m \in Name :
           (e # td \/ m # tn) /\ (e # sd \/ m # sn) => P[e][m] = N[e][m]
  BY <1>s DEF Shifted
<1>f. \A j \in Ino : Cardinality(SlotsIn(P, {j})) = Cardinality(SlotsIn(N, {j}))
  BY <1>s DEF Shifted
<1>h. ASSUME NEW e \in Ino, NEW m \in Name, P[e][m] # NoIno, e # td \/ m # tn
      PROVE  P[e][m] = N[e][m]
  BY <1>d, <1>h
<1>2. Proper(K, P)
  <2>2. ASSUME NEW e \in Ino, NEW m \in Name, P[e][m] # NoIno
        PROVE  K[e] = "dir" /\ K[P[e][m]] # "none" /\ P[e][m] # Root
    <3>1. CASE e = td /\ m = tn
      BY <1>a, <1>d, <3>1
    <3>2. CASE e # td \/ m # tn
      BY <1>0, <1>h, <2>2, <3>2 DEF Proper
    <3> QED
      BY <3>1, <3>2
  <2>3. ASSUME NEW e \in Ino, NEW c \in Ino, NEW m \in Name, NEW l \in Name,
               P[e][m] # NoIno, P[e][m] = P[c][l], K[P[e][m]] = "dir"
        PROVE  e = c /\ m = l
    <3>1. CASE P[e][m] = i
      <4>1. \A a \in Ino, o \in Name : N[a][o] = i => a = sd /\ o = sn
        BY <1>0, <1>a, <2>3, <3>1 DEF Proper
      <4>2. \A a \in Ino, o \in Name : P[a][o] = i => a = td /\ o = tn
        BY <1>a, <1>d, <4>1
      <4> QED
        BY <2>3, <3>1, <4>2
    <3>2. CASE P[e][m] # i
      <4>1. (e # td \/ m # tn) /\ (c # td \/ l # tn)
        BY <1>d, <2>3, <3>2
      <4>2. P[e][m] = N[e][m] /\ P[c][l] = N[c][l]
        BY <1>h, <2>3, <4>1
      <4>3. N[e][m] # NoIno /\ N[e][m] = N[c][l] /\ K[N[e][m]] = "dir"
        BY <2>3, <4>2
      <4> QED
        BY <1>0, <4>3 DEF Proper
    <3> QED
      BY <3>1, <3>2
  <2> QED
    BY <1>0, <2>2, <2>3 DEF Proper
<1>3. HasName(K, P)
  <2> SUFFICES ASSUME NEW j \in Ino \ {Root}, K[j] # "none"
               PROVE  \E e \in Ino, m \in Name : P[e][m] = j
    BY DEF HasName
  <2>1. CASE j = i
    BY <1>d, <2>1
  <2>2. CASE j # i
    <3>1. PICK e \in Ino, m \in Name : N[e][m] = j
      BY <1>0 DEF HasName
    <3>2. (e # td \/ m # tn) /\ (e # sd \/ m # sn)
      BY <1>a, <2>2, <3>1
    <3> QED
      BY <1>d, <3>1, <3>2
  <2> QED
    BY <2>1, <2>2
<1>4. FileCounts(K, P, L)
  BY <1>0, <1>f DEF FileCounts
<1>b. \A e \in Ino, j \in Ino : K[j] = "dir" =>
        ((\E m \in Name : P[e][m] = j) <=> (\E m \in Name : N[e][m] = j))
  <2> SUFFICES ASSUME NEW e \in Ino, NEW j \in Ino, K[j] = "dir"
               PROVE  (\E m \in Name : P[e][m] = j) <=> (\E m \in Name : N[e][m] = j)
    OBVIOUS
  <2>1. CASE j # i
    BY <1>a, <1>d, <2>1
  <2>2. CASE j = i
    <3>1. sd = td
      BY <2>2
    <3>2. \A a \in Ino, o \in Name : N[a][o] = i => a = sd /\ o = sn
      BY <1>0, <1>a, <2>2 DEF Proper
    <3> QED
      BY <1>a, <1>d, <2>2, <3>1, <3>2
  <2> QED
    BY <2>1, <2>2
<1>5. DirCounts(K, P, L)
  <2> SUFFICES ASSUME NEW e \in Ino, K[e] = "dir"
               PROVE  L[e] = 2 + Cardinality(Below(K, P, e))
    BY DEF DirCounts
  <2>1. Below(K, P, e) = Below(K, N, e)
    BY <1>b DEF Below
  <2> QED
    BY <1>0, <2>1 DEF DirCounts
<1>6. Parents(K, P, U)
  <2> SUFFICES ASSUME NEW e \in Ino, NEW m \in Name, P[e][m] # NoIno, K[P[e][m]] = "dir"
               PROVE  U[P[e][m]] = e
    BY DEF Parents
  <2>1. PICK j \in Ino : P[e][m] = j
    BY <1>a
  <2>2. PICK o \in Name : N[e][o] = j
    BY <1>b, <2>1
  <2> QED
    BY <1>0, <1>a, <2>1, <2>2 DEF Parents
<1>7. Connected(K, P)
  <2> SUFFICES ASSUME NEW S \in SUBSET Ino, Root \in S, ClosedIn(P, S),
                      NEW e \in Ino, K[e] = "dir"
               PROVE  e \in S
    BY DEF Connected
  <2>1. CASE sd = td
    <3>1. ClosedIn(N, S)
      <4> SUFFICES ASSUME NEW c \in S, NEW m \in Name, N[c][m] # NoIno PROVE N[c][m] \in S
        BY DEF ClosedIn
      <4>1. CASE c = sd /\ m = sn
        <5>1. P[td][tn] \in S
          BY <1>a, <1>d, <2>1, <4>1 DEF ClosedIn
        <5> QED
          BY <1>d, <4>1, <5>1
      <4>2. CASE c # sd \/ m # sn
        <5>1. P[c][m] = N[c][m]
          BY <1>d, <4>2
        <5> QED
          BY <5>1 DEF ClosedIn
      <4> QED
        BY <4>1, <4>2
    <3> QED
      BY <1>0, <3>1 DEF Connected
  <2>2. CASE sd # td
    <3>0. K[i] # "dir" /\ (\A m \in Name : N[i][m] = NoIno) /\ e # i
      BY <1>0, <2>2 DEF Proper
    <3> DEFINE T == S \cup {i}
    <3>1. ClosedIn(N, T)
      <4> SUFFICES ASSUME NEW c \in T, NEW m \in Name, N[c][m] # NoIno PROVE N[c][m] \in T
        BY DEF ClosedIn
      <4>1. c \in S
        BY <3>0
      <4>2. CASE N[c][m] # i
        <5>1. (c # td \/ m # tn) /\ (c # sd \/ m # sn)
          BY <4>2
        <5>2. P[c][m] = N[c][m]
          BY <1>d, <4>1, <5>1
        <5> QED
          BY <4>1, <5>2 DEF ClosedIn
      <4> QED
        BY <4>2
    <3>3. T \in SUBSET Ino /\ Root \in T
      OBVIOUS
    <3> HIDE DEF T
    <3>4. e \in T
      BY <1>0, <3>1, <3>3 DEF Connected
    <3> QED
      BY <3>0, <3>4 DEF T
  <2> QED
    BY <2>1, <2>2
<1> QED
  BY <1>2, <1>3, <1>4, <1>5, <1>6, <1>7 DEF TreeInv

\* The counts of the two directories a directory moves between.
CountedOver(L, M, sd, td) ==
    /\ M[sd] = LessOne(L[sd])
    /\ M[td] = L[td] + 1
    /\ \A j \in Ino : j # sd /\ j # td => M[j] = L[j]

\* The directory i goes from (sd, sn) to the free place (td, tn), out of
\* everything below it (the closed set C holds i and not td).
CarriedOut(K, N, sd, sn, td, tn, i, C) ==
    /\ sd \in Ino /\ sn \in Name /\ td \in Ino /\ tn \in Name /\ i \in Ino
    /\ sd # td /\ i # sd /\ i # td
    /\ N[sd][sn] = i /\ N[td][tn] = NoIno /\ K[td] = "dir" /\ K[i] = "dir"
    /\ C \in SUBSET Ino /\ i \in C /\ td \notin C /\ ClosedIn(N, C)

\* A directory that changes parents, C being what is below it.
LEMMA CarriedTree ==
    ASSUME FiniteDisk, NEW K, NEW N, NEW L, NEW U, NEW Q, NEW P, NEW M, NEW V,
           NEW sd, NEW sn, NEW td, NEW tn, NEW i, NEW C,
           TreeInv(K, N, L, U), View(K, P, M, V),
           Shifts(N, Q, P, sd, sn, td, tn, i), Is(U, V, i, td),
           CountedOver(L, M, sd, td), CarriedOut(K, N, sd, sn, td, tn, i, C)
    PROVE  TreeInv(K, P, M, V)
<1>p. /\ sd \in Ino /\ sn \in Name /\ td \in Ino /\ tn \in Name
      /\ sd # td /\ i \in Ino /\ N[sd][sn] = i /\ N[td][tn] = NoIno
      /\ K[td] = "dir" /\ K[i] = "dir" /\ i # sd /\ i # td
      /\ C \in SUBSET Ino /\ i \in C /\ td \notin C /\ ClosedIn(N, C)
  BY DEF CarriedOut
<1>q. /\ M[sd] = LessOne(L[sd]) /\ M[td] = L[td] + 1
      /\ \A j \in Ino : j # sd /\ j # td => M[j] = L[j]
  BY DEF CountedOver
<1> USE <1>p, <1>q
<1>0. View(K, N, L, U) /\ Proper(K, N) /\ HasName(K, N) /\ FileCounts(K, N, L)
      /\ DirCounts(K, N, L) /\ Parents(K, N, U) /\ Connected(K, N)
  BY DEF TreeInv
<1>a. /\ \A e \in Ino, m \in Name : N[e][m] \in Ino \cup {NoIno}
      /\ \A e \in Ino, m \in Name : P[e][m] \in Ino \cup {NoIno}
      /\ NoIno \notin Ino /\ Root \in Ino /\ i # NoIno /\ K[sd] = "dir"
      /\ i # Root
  BY <1>0, RootAssumption DEF View, Proper
<1>c. V[i] = td /\ \A j \in Ino : j # i => V[j] = U[j]
  BY DEF Is
<1>s. Shifted(N, P, sd, sn, td, tn, i)
  BY ShiftSlots
<1>d. /\ P[td][tn] = i /\ P[sd][sn] = NoIno
      /\ \A e \in Ino, m \in Name :
           (e # td \/ m # tn) /\ (e # sd \/ m # sn) => P[e][m] = N[e][m]
  BY <1>s DEF Shifted
<1>f. \A j \in Ino : Cardinality(SlotsIn(P, {j})) = Cardinality(SlotsIn(N, {j}))
  BY <1>s DEF Shifted
<1>h. ASSUME NEW e \in Ino, NEW m \in Name, P[e][m] # NoIno, e # td \/ m # tn
      PROVE  P[e][m] = N[e][m]
  BY <1>d, <1>h
<1>i. \A a \in Ino, o \in Name : N[a][o] = i => a = sd /\ o = sn
  BY <1>0, <1>a DEF Proper
<1>j. \A a \in Ino, o \in Name : P[a][o] = i => a = td /\ o = tn
  BY <1>a, <1>d, <1>i
<1>2. Proper(K, P)
  <2>2. ASSUME NEW e \in Ino, NEW m \in Name, P[e][m] # NoIno
        PROVE  K[e] = "dir" /\ K[P[e][m]] # "none" /\ P[e][m] # Root
    <3>1. CASE e = td /\ m = tn
      BY <1>a, <1>d, <3>1
    <3>2. CASE e # td \/ m # tn
      BY <1>0, <1>h, <2>2, <3>2 DEF Proper
    <3> QED
      BY <3>1, <3>2
  <2>3. ASSUME NEW e \in Ino, NEW c \in Ino, NEW m \in Name, NEW l \in Name,
               P[e][m] # NoIno, P[e][m] = P[c][l], K[P[e][m]] = "dir"
        PROVE  e = c /\ m = l
    <3>1. CASE P[e][m] = i
      BY <1>j, <2>3, <3>1
    <3>2. CASE P[e][m] # i
      <4>1. (e # td \/ m # tn) /\ (c # td \/ l # tn)
        BY <1>d, <2>3, <3>2
      <4>2. P[e][m] = N[e][m] /\ P[c][l] = N[c][l]
        BY <1>h, <2>3, <4>1
      <4>3. N[e][m] # NoIno /\ N[e][m] = N[c][l] /\ K[N[e][m]] = "dir"
        BY <2>3, <4>2
      <4> QED
        BY <1>0, <4>3 DEF Proper
    <3> QED
      BY <3>1, <3>2
  <2> QED
    BY <1>0, <2>2, <2>3 DEF Proper
<1>3. HasName(K, P)
  <2> SUFFICES ASSUME NEW j \in Ino \ {Root}, K[j] # "none"
               PROVE  \E e \in Ino, m \in Name : P[e][m] = j
    BY DEF HasName
  <2>1. CASE j = i
    BY <1>d, <2>1
  <2>2. CASE j # i
    <3>1. PICK e \in Ino, m \in Name : N[e][m] = j
      BY <1>0 DEF HasName
    <3>2. (e # td \/ m # tn) /\ (e # sd \/ m # sn)
      BY <1>a, <2>2, <3>1
    <3> QED
      BY <1>d, <3>1, <3>2
  <2> QED
    BY <2>1, <2>2
<1>4. FileCounts(K, P, M)
  <2> SUFFICES ASSUME NEW j \in Ino, K[j] \notin {"none", "dir"}
               PROVE  M[j] = Cardinality(SlotsIn(P, {j}))
    BY DEF FileCounts
  <2>1. M[j] = L[j]
    BY <1>a
  <2> QED
    BY <1>0, <1>f, <2>1 DEF FileCounts
<1>b. \A e \in Ino, j \in Ino : j # i =>
        ((\E m \in Name : P[e][m] = j) <=> (\E m \in Name : N[e][m] = j))
  BY <1>a, <1>d
<1>5. DirCounts(K, P, M)
  <2> SUFFICES ASSUME NEW e \in Ino, K[e] = "dir"
               PROVE  M[e] = 2 + Cardinality(Below(K, P, e))
    BY DEF DirCounts
  <2>0. /\ L[e] = 2 + Cardinality(Below(K, N, e))
        /\ IsFiniteSet(Below(K, N, e)) /\ Cardinality(Below(K, N, e)) \in Nat
        /\ IsFiniteSet(Below(K, P, e)) /\ Cardinality(Below(K, P, e)) \in Nat
    BY <1>0, BelowFinite DEF DirCounts
  <2>1. CASE e = sd
    <3>1. Below(K, P, e) = Below(K, N, e) \ {i}
      BY <1>b, <1>j, <2>1 DEF Below
    <3>2. i \in Below(K, N, e)
      BY <2>1 DEF Below
    <3>3. Cardinality(Below(K, P, e)) = Cardinality(Below(K, N, e)) - 1
      BY <2>0, <3>1, <3>2, OneOut
    <3>4. LessOne(L[sd]) = L[sd] - 1
      BY <2>0, <2>1 DEF LessOne
    <3> QED
      BY <2>0, <2>1, <3>3, <3>4
  <2>2. CASE e = td
    <3>1. Below(K, P, e) = Below(K, N, e) \cup {i}
      BY <1>b, <1>d, <2>2 DEF Below
    <3>2. i \notin Below(K, N, e)
      BY <1>i, <2>2 DEF Below
    <3>3. Cardinality(Below(K, P, e)) = Cardinality(Below(K, N, e)) + 1
      BY <2>0, <3>1, <3>2, FS_AddElement
    <3> QED
      BY <2>0, <2>2, <3>3
  <2>3. CASE e # sd /\ e # td
    <3>1. Below(K, P, e) = Below(K, N, e)
      BY <1>b, <1>i, <1>j, <2>3 DEF Below
    <3> QED
      BY <2>0, <2>3, <3>1
  <2> QED
    BY <2>1, <2>2, <2>3
<1>6. Parents(K, P, V)
  <2> SUFFICES ASSUME NEW e \in Ino, NEW m \in Name, P[e][m] # NoIno, K[P[e][m]] = "dir"
               PROVE  V[P[e][m]] = e
    BY DEF Parents
  <2>1. CASE P[e][m] = i
    BY <1>c, <1>j, <2>1
  <2>2. CASE P[e][m] # i
    <3>1. P[e][m] = N[e][m] /\ P[e][m] \in Ino
      BY <1>a, <1>d, <1>h, <2>2
    <3> QED
      BY <1>0, <1>c, <2>2, <3>1 DEF Parents
  <2> QED
    BY <2>1, <2>2
<1>7. Connected(K, P)
  <2> SUFFICES ASSUME NEW S \in SUBSET Ino, Root \in S, ClosedIn(P, S)
               PROVE  \A e \in Ino : K[e] = "dir" => e \in S
    BY DEF Connected
  <2>1. i \in S
    <3> SUFFICES ASSUME i \notin S PROVE FALSE
      OBVIOUS
    <3> DEFINE T == S \cup C
    <3>1. ClosedIn(N, T)
      <4> SUFFICES ASSUME NEW c \in T, NEW m \in Name, N[c][m] # NoIno PROVE N[c][m] \in T
        BY DEF ClosedIn
      <4>1. CASE c \in C
        BY <4>1 DEF ClosedIn
      <4>2. CASE c \in S /\ N[c][m] # i
        <5>1. (c # td \/ m # tn) /\ (c # sd \/ m # sn)
          BY <4>2
        <5>2. P[c][m] = N[c][m]
          BY <1>d, <4>2, <5>1
        <5> QED
          BY <4>2, <5>2 DEF ClosedIn
      <4> QED
        BY <4>1, <4>2
    <3>2. T \in SUBSET Ino /\ Root \in T
      OBVIOUS
    <3> HIDE DEF T
    <3>3. td \in T
      BY <1>0, <3>1, <3>2 DEF Connected
    <3>4. td \in S
      BY <3>3 DEF T
    <3>5. P[td][tn] \in S
      BY <1>a, <1>d, <3>4 DEF ClosedIn
    <3> QED
      BY <1>d, <3>5
  <2>2. ClosedIn(N, S)
    <3> SUFFICES ASSUME NEW c \in S, NEW m \in Name, N[c][m] # NoIno PROVE N[c][m] \in S
      BY DEF ClosedIn
    <3>1. CASE N[c][m] = i
      BY <2>1, <3>1
    <3>2. CASE N[c][m] # i
      <4>1. (c # td \/ m # tn) /\ (c # sd \/ m # sn)
        BY <3>2
      <4>2. P[c][m] = N[c][m]
        BY <1>d, <4>1
      <4> QED
        BY <4>2 DEF ClosedIn
    <3> QED
      BY <3>1, <3>2
  <2> QED
    BY <1>0, <2>2 DEF Connected
<1> QED
  BY <1>2, <1>3, <1>4, <1>5, <1>6, <1>7 DEF TreeInv

-----------------------------------------------------------------------------
(* The effects of the handlers keep the tree *)

\* What shows of f is a tree, and its counts and ".." are those of the tree.
TreeOf(f) == TreeInv(Kinds(f), Named(f), Counts(f), f.dotdot)
ViewOf(f) == View(Kinds(f), Named(f), Counts(f), f.dotdot)

\* What shows has the types of a tree, and agrees with the inodes in use.
LEMMA ShapeView ==
    ASSUME NEW f, Shape(f)
    PROVE  /\ ViewOf(f) /\ f \in FileSystem
           /\ \A d \in Dirs(f) : d \in Ino /\ Kinds(f)[d] = "dir"
           /\ \A i \in Live(f) : /\ i \in Ino
                                 /\ IsDir(f, i) <=> Kinds(f)[i] = "dir"
                                 /\ Kinds(f)[i] \in Kind
                                 /\ Counts(f)[i] = f.inode[i].links
           /\ \A i \in Ino \ f.imap : Kinds(f)[i] = "none"
           /\ \A i \in Ino : Kinds(f)[i] # "none" => i \in Live(f)
           /\ \A i \in Ino : Kinds(f)[i] = "dir" => i \in Dirs(f)
           /\ "none" \notin Kind
<1>0. f \in FileSystem
  BY DEF Shape
<1>1. Named(f) \in [Ino -> [Name -> Ino \cup {NoIno}]]
  BY <1>0, NamedTyped
<1>2. \A i \in Ino : f.inode[i].kind \in Kind /\ f.inode[i].links \in Nat
  BY <1>0, WidthAssumption DEF FileSystem, Inode
<1>3. Kinds(f) \in [Ino -> Kind \cup {"none"}]
  BY <1>2 DEF Kinds
<1>4. Counts(f) \in [Ino -> Nat]
  BY <1>2 DEF Counts
<1>5. f.dotdot \in [Ino -> Ino \cup {NoIno}]
  BY <1>0 DEF FileSystem
<1>6. ViewOf(f)
  BY <1>1, <1>3, <1>4, <1>5 DEF ViewOf, View
<1>7. "none" \notin Kind
  BY DEF Kind
<1>8. \A i \in Live(f) : i \in Ino /\ Kinds(f)[i] = f.inode[i].kind
                         /\ Counts(f)[i] = f.inode[i].links
  BY <1>0, CountOf
<1>9. \A i \in Ino : Kinds(f)[i] # "none" => i \in Live(f)
  BY DEF Kinds
<1>10. \A i \in Ino \ f.imap : Kinds(f)[i] = "none"
  BY <1>9 DEF Live
<1>11. \A d \in Dirs(f) : d \in Live(f) /\ IsDir(f, d)
  BY DEF Dirs, IsDir
<1>12. \A i \in Ino : Kinds(f)[i] = "dir" => i \in Dirs(f)
  BY <1>8, <1>9 DEF Dirs
<1> QED
  BY <1>0, <1>2, <1>6, <1>7, <1>8, <1>9, <1>10, <1>11, <1>12 DEF IsDir

\* Put and With change one place.
LEMMA PutAt ==
    ASSUME NEW K, NEW N, NEW L, NEW U, View(K, N, L, U),
           NEW d \in Ino, NEW n \in Name, NEW i \in Ino \cup {NoIno}
    PROVE  /\ At(N, Put(N, d, n, i), d, n, i)
           /\ Put(N, d, n, i) \in [Ino -> [Name -> Ino \cup {NoIno}]]
<1>1. N \in [Ino -> [Name -> Ino \cup {NoIno}]]
  BY DEF View
<1> QED
  BY <1>1 DEF At, Put

LEMMA WithIs ==
    ASSUME NEW F, DOMAIN F = Ino, NEW i \in Ino, NEW x
    PROVE  Is(F, With(F, i, x), i, x)
  BY DEF Is, With

LEMMA WithTwo ==
    ASSUME NEW F, DOMAIN F = Ino, NEW i \in Ino, NEW d \in Ino, NEW x, NEW y
    PROVE  /\ With(With(F, i, x), d, y)[d] = y
           /\ d # i => With(With(F, i, x), d, y)[i] = x
           /\ \A j \in Ino : j # i /\ j # d => With(With(F, i, x), d, y)[j] = F[j]
  BY DEF With

LEMMA ViewParts ==
    ASSUME NEW f, ViewOf(f)
    PROVE  /\ DOMAIN Kinds(f) = Ino /\ DOMAIN Counts(f) = Ino /\ DOMAIN f.dotdot = Ino
           /\ View(Kinds(f), Named(f), Counts(f), f.dotdot)
  BY DEF ViewOf, View

\* op_create, op_mknod and op_symlink keep the tree.
LEMMA MadeKeeps ==
    ASSUME FiniteDisk, NEW f, Shape(f), NEW g, Shape(g), TreeOf(f),
           NEW i, NEW k \in Kind \ {"dir"}, DidMake(f, g, i, k)
    PROVE  TreeOf(g)
<1>1. PICK d \in Dirs(f), n \in Name :
        /\ Nameless(f, d, n) /\ i \in Ino \ f.imap
        /\ Made(f, g, d, n, i, k)
  BY DEF DidMake
<1> DEFINE K == Kinds(f)  N == Named(f)  L == Counts(f)  U == f.dotdot
           J == Kinds(g)  P == Named(g)  M == Counts(g)
<1>2. /\ d \in Ino /\ K[d] = "dir" /\ K[i] = "none" /\ i \in Ino /\ ViewOf(f) /\ ViewOf(g)
  BY <1>1, ShapeView
<1>3. TreeInv(K, N, L, U) /\ N[d][n] = NoIno
  BY <1>1 DEF TreeOf, Nameless
<1>4. View(J, P, M, U) /\ View(K, N, L, U)
  BY <1>1, <1>2 DEF ViewOf, Made
<1>5. At(N, P, d, n, i)
  <2>1. At(N, Put(N, d, n, i), d, n, i)
    BY <1>2, <1>4, PutAt
  <2> QED
    BY <1>1, <2>1 DEF Made
<1>6. Is(K, J, i, k) /\ Is(L, M, i, 1)
  <2>1. DOMAIN K = Ino /\ DOMAIN L = Ino
    BY <1>2, ViewParts
  <2>2. J = With(K, i, k) /\ M = With(L, i, 1)
    BY <1>1 DEF Made
  <2> HIDE DEF K, L, J, M
  <2>3. Is(K, With(K, i, k), i, k) /\ Is(L, With(L, i, 1), i, 1)
    BY <1>2, <2>1, WithIs
  <2> QED
    BY <2>2, <2>3
<1> HIDE DEF K, N, L, U, J, P, M
<1>7. TreeInv(J, P, M, U)
  BY <1>2, <1>3, <1>4, <1>5, <1>6, MakeTree
<1> QED
  BY <1>1, <1>7 DEF TreeOf, Made, J, P, M, U

\* op_mkdir.
LEMMA MadeDirKeeps ==
    ASSUME FiniteDisk, NEW f, Shape(f), NEW g, Shape(g), TreeOf(f),
           NEW i, DidMkdir(f, g, i)
    PROVE  TreeOf(g)
<1>1. PICK d \in Dirs(f), n \in Name :
        /\ Nameless(f, d, n) /\ i \in Ino \ f.imap
        /\ DirMade(f, g, d, n, i)
  BY DEF DidMkdir
<1> DEFINE K == Kinds(f)  N == Named(f)  L == Counts(f)  U == f.dotdot
           J == Kinds(g)  P == Named(g)  M == Counts(g)  V == g.dotdot
<1>2. /\ d \in Ino /\ K[d] = "dir" /\ K[i] = "none" /\ i \in Ino /\ ViewOf(f) /\ ViewOf(g)
      /\ i # d
  BY <1>1, ShapeView
<1>3. TreeInv(K, N, L, U) /\ N[d][n] = NoIno
  BY <1>1 DEF TreeOf, Nameless
<1>4. View(J, P, M, V) /\ View(K, N, L, U)
  BY <1>1, <1>2 DEF ViewOf
<1>5. At(N, P, d, n, i)
  <2>1. At(N, Put(N, d, n, i), d, n, i)
    BY <1>2, <1>4, PutAt
  <2> QED
    BY <1>1, <2>1 DEF DirMade
<1>6. Is(K, J, i, "dir") /\ Is(U, V, i, d)
  <2>1. DOMAIN K = Ino /\ DOMAIN U = Ino
    BY <1>2, ViewParts
  <2>2. J = With(K, i, "dir") /\ V = With(U, i, d)
    BY <1>1 DEF DirMade
  <2> HIDE DEF K, U, J, V
  <2>3. Is(K, With(K, i, "dir"), i, "dir") /\ Is(U, With(U, i, d), i, d)
    BY <1>2, <2>1, WithIs
  <2> QED
    BY <2>2, <2>3
<1>7. M[i] = 2 /\ M[d] = L[d] + 1 /\ \A j \in Ino : j # i /\ j # d => M[j] = L[j]
  <2>1. DOMAIN L = Ino
    BY <1>2, ViewParts
  <2>2. M = With(With(L, i, 2), d, L[d] + 1)
    BY <1>1 DEF DirMade
  <2> HIDE DEF L, M
  <2>3. PICK y : y = L[d] + 1
    OBVIOUS
  <2> QED
    BY <1>2, <2>1, <2>2, <2>3, WithTwo
<1> HIDE DEF K, N, L, U, J, P, M, V
<1>8. TreeInv(J, P, M, V)
  BY <1>2, <1>3, <1>4, <1>5, <1>6, <1>7, MakeDirTree
<1> QED
  BY <1>8 DEF TreeOf, J, P, M, V

\* op_link.
LEMMA LinkedKeeps ==
    ASSUME FiniteDisk, NEW f, Shape(f), NEW g, Shape(g), TreeOf(f),
           NEW i, DidLink(f, g, i)
    PROVE  TreeOf(g)
<1>1. PICK d \in Dirs(f), n \in Name :
        /\ Nameless(f, d, n) /\ i \in Live(f) /\ ~ IsDir(f, i)
        /\ Linked(f, g, d, n, i)
  BY DEF DidLink
<1> DEFINE K == Kinds(f)  N == Named(f)  L == Counts(f)  U == f.dotdot
           P == Named(g)  M == Counts(g)
<1>2. /\ d \in Ino /\ K[d] = "dir" /\ K[i] \notin {"none", "dir"} /\ i \in Ino
      /\ ViewOf(f) /\ ViewOf(g)
  BY <1>1, ShapeView
<1>3. TreeInv(K, N, L, U) /\ N[d][n] = NoIno
  BY <1>1 DEF TreeOf, Nameless
<1>4. View(K, P, M, U) /\ View(K, N, L, U)
  BY <1>1, <1>2 DEF ViewOf, Linked
<1>5. At(N, P, d, n, i)
  <2>1. At(N, Put(N, d, n, i), d, n, i)
    BY <1>2, <1>4, PutAt
  <2> QED
    BY <1>1, <2>1 DEF Linked
<1>6. Is(L, M, i, L[i] + 1)
  <2>1. DOMAIN L = Ino
    BY <1>2, ViewParts
  <2>2. M = With(L, i, L[i] + 1)
    BY <1>1 DEF Linked
  <2> HIDE DEF L, M
  <2> QED
    BY <1>2, <2>1, <2>2, WithIs
<1> HIDE DEF K, N, L, U, P, M
<1>7. TreeInv(K, P, M, U)
  BY <1>2, <1>3, <1>4, <1>5, <1>6, LinkTree
<1> QED
  BY <1>1, <1>7 DEF TreeOf, Linked, K, P, M, U

\* A name less: unlink, rmdir and the removal rename begins with.
LEMMA DroppedKeeps ==
    ASSUME FiniteDisk, NEW f, Shape(f), NEW g, Shape(g), TreeOf(f),
           NEW d, NEW n, NEW i, Leads(f, d, n, i), ~ IsDir(f, i), Dropped(f, g, d, n, i)
    PROVE  TreeOf(g)
<1> DEFINE K == Kinds(f)  N == Named(f)  L == Counts(f)  U == f.dotdot
           J == Kinds(g)  P == Named(g)  M == Counts(g)
<1>1. d \in Dirs(f) /\ n \in Name /\ N[d][n] = i /\ i \in Live(f)
  BY DEF Leads
<1>2. /\ d \in Ino /\ K[i] \notin {"none", "dir"} /\ i \in Ino
      /\ ViewOf(f) /\ ViewOf(g)
  BY <1>1, ShapeView
<1>3. TreeInv(K, N, L, U)
  BY DEF TreeOf
<1>4. View(J, P, M, U) /\ View(K, N, L, U)
  BY <1>2 DEF ViewOf, Dropped
<1>5. At(N, P, d, n, NoIno)
  <2>1. At(N, Put(N, d, n, NoIno), d, n, NoIno)
    BY <1>1, <1>2, <1>4, PutAt
  <2> QED
    BY <2>1 DEF Dropped
<1>6. Is(L, M, i, L[i] - 1)
  <2>1. DOMAIN L = Ino
    BY <1>2, ViewParts
  <2>2. M = With(L, i, L[i] - 1)
    BY DEF Dropped
  <2> HIDE DEF L, M
  <2> QED
    BY <1>2, <2>1, <2>2, WithIs
<1>7. L[i] = 1 => Is(K, J, i, "none")
  <2>1. DOMAIN K = Ino
    BY <1>2, ViewParts
  <2>2. L[i] = 1 => J = With(K, i, "none")
    BY DEF Dropped
  <2> HIDE DEF L, K, J
  <2> QED
    BY <1>2, <2>1, <2>2, WithIs
<1>8. L[i] # 1 => J = K
  BY DEF Dropped
<1> HIDE DEF K, N, L, U, J, P, M
<1>9. TreeInv(J, P, M, U)
  BY <1>1, <1>2, <1>3, <1>4, <1>5, <1>6, <1>7, <1>8, DropTree
<1> QED
  BY <1>9 DEF TreeOf, Dropped, J, P, M, U

\* op_rmdir.
LEMMA DroppedDirKeeps ==
    ASSUME FiniteDisk, NEW f, Shape(f), NEW g, Shape(g), TreeOf(f),
           NEW d, NEW n, NEW i, Leads(f, d, n, i), IsDir(f, i), EmptyDir(f, i), i # d,
           DirDropped(f, g, d, n, i)
    PROVE  TreeOf(g)
<1> DEFINE K == Kinds(f)  N == Named(f)  L == Counts(f)  U == f.dotdot
           J == Kinds(g)  P == Named(g)  M == Counts(g)
<1>1. d \in Dirs(f) /\ n \in Name /\ N[d][n] = i /\ i \in Live(f)
  BY DEF Leads
<1>2. /\ d \in Ino /\ K[i] = "dir" /\ i \in Ino /\ ViewOf(f) /\ ViewOf(g)
  BY <1>1, ShapeView
<1>3. TreeInv(K, N, L, U) /\ \A m \in Name : N[i][m] = NoIno
  BY <1>2, EmptyNames DEF TreeOf
<1>4. View(J, P, M, U) /\ View(K, N, L, U)
  BY <1>2 DEF ViewOf, DirDropped
<1>5. At(N, P, d, n, NoIno)
  <2>1. At(N, Put(N, d, n, NoIno), d, n, NoIno)
    BY <1>1, <1>2, <1>4, PutAt
  <2> QED
    BY <2>1 DEF DirDropped
<1>6. Is(K, J, i, "none")
  <2>1. DOMAIN K = Ino
    BY <1>2, ViewParts
  <2>2. J = With(K, i, "none")
    BY DEF DirDropped
  <2> HIDE DEF K, J
  <2> QED
    BY <1>2, <2>1, <2>2, WithIs
<1>7. M[i] = 0 /\ M[d] = LessOne(L[d]) /\ \A j \in Ino : j # i /\ j # d => M[j] = L[j]
  <2>1. DOMAIN L = Ino
    BY <1>2, ViewParts
  <2>2. M = With(With(L, i, 0), d, LessOne(L[d]))
    BY DEF DirDropped
  <2> HIDE DEF L, M
  <2>3. PICK y : y = LessOne(L[d])
    OBVIOUS
  <2> QED
    BY <1>2, <2>1, <2>2, <2>3, WithTwo
<1> HIDE DEF K, N, L, U, J, P, M
<1>9. TreeInv(J, P, M, U)
  BY <1>1, <1>2, <1>3, <1>4, <1>5, <1>6, <1>7, DropDirTree
<1> QED
  BY <1>9 DEF TreeOf, DirDropped, J, P, M, U

\* What shows of a new file system: the root, and no name.
LEMMA MkfsShows ==
    ASSUME FiniteDisk, Init
    PROVE  /\ Shape(fs)
           /\ Kinds(fs)[Root] = "dir" /\ Counts(fs)[Root] = 2
           /\ \A i \in Ino : i # Root => Kinds(fs)[i] = "none"
           /\ \A d \in Ino, n \in Name : Named(fs)[d][n] = NoIno
<1> DEFINE K == Kinds(fs)  N == Named(fs)  L == Counts(fs)
<1>0. Shape(fs)
  BY InitGood, GoodShape DEF FiniteDisk
<1>1. fs = Mkfs(FirstBlock) /\ Root \in Ino
  BY RootAssumption DEF Init
<1>2. fs.imap = {Root}
  BY <1>1 DEF Mkfs
<1>3. fs.inode[Root] = [kind |-> "dir", links |-> 2, blk |-> {FirstBlock}]
  BY <1>1, RootAssumption DEF Mkfs
<1>4. Live(fs) = {Root}
  BY <1>2, <1>3 DEF Live
<1>5. K[Root] = "dir" /\ L[Root] = 2 /\ \A i \in Ino : i # Root => K[i] = "none"
  BY <1>1, <1>3, <1>4 DEF Kinds, Counts
<1>6. \A d \in Ino, n \in Name : N[d][n] = NoIno
  <2> SUFFICES ASSUME NEW d \in Ino, NEW n \in Name PROVE N[d][n] = NoIno
    OBVIOUS
  <2>1. \A b \in Block, m \in Name : fs.data[b][m] = NoIno
    BY <1>1 DEF Mkfs
  <2>2. fs \in FileSystem
    BY <1>0 DEF Shape
  <2>3. Held(fs, d, n) = {}
    BY <2>1, <2>2, BlocksTyped DEF Held, Holding
  <2> QED
    BY <2>3, NamedAt
<1> QED
  BY <1>0, <1>5, <1>6

LEMMA MkfsTree ==
    ASSUME FiniteDisk, Init
    PROVE  TreeOf(fs)
<1> DEFINE K == Kinds(fs)  N == Named(fs)  L == Counts(fs)  U == fs.dotdot
<1>1. Shape(fs) /\ Root \in Ino
  BY MkfsShows, RootAssumption
<1>5. K[Root] = "dir" /\ L[Root] = 2 /\ \A i \in Ino : i # Root => K[i] = "none"
  BY MkfsShows
<1>6. \A d \in Ino, n \in Name : N[d][n] = NoIno
  BY MkfsShows
<1>7. View(K, N, L, U)
  BY <1>1, ShapeView DEF ViewOf
<1> HIDE DEF K, N, L, U
<1>8. Proper(K, N) /\ HasName(K, N) /\ Parents(K, N, U)
  BY <1>1, <1>5, <1>6 DEF Proper, HasName, Parents
<1>9. FileCounts(K, N, L)
  BY <1>5 DEF FileCounts
<1>10. DirCounts(K, N, L)
  <2>1. Below(K, N, Root) = {}
    BY <1>6, RootAssumption DEF Below
  <2>2. 2 = 2 + Cardinality(Below(K, N, Root))
    BY <2>1, FS_EmptySet
  <2> QED
    BY <1>5, <2>2 DEF DirCounts
<1>11. Connected(K, N)
  BY <1>5 DEF Connected
<1> QED
  BY <1>7, <1>8, <1>9, <1>10, <1>11 DEF TreeInv, TreeOf, K, N, L, U

\* A set of directories closed under Children is closed under names.
LEMMA ClosedSlots ==
    ASSUME NEW f, Shape(f), NEW S \in SUBSET Ino
    PROVE  Closed(f, S) <=> ClosedIn(Named(f), S)
<1>0. Named(f) \in [Ino -> [Name -> Ino \cup {NoIno}]] /\ NoIno \notin Ino /\ Dirs(f) \subseteq Ino
  BY NamedTyped, BlocksTyped, RootAssumption DEF Shape
<1>1. ASSUME Closed(f, S), NEW d \in S, NEW n \in Name, Named(f)[d][n] # NoIno
      PROVE  Named(f)[d][n] \in S
  <2>1. Named(f)[d][n] \in Ino /\ d \in Ino
    BY <1>0, <1>1
  <2>2. /\ d \in Dirs(f)
        /\ \E b \in f.inode[d].blk : /\ Held(f, d, n) = {b}
                                     /\ f.data[b][n] = Named(f)[d][n]
    BY <2>1, SlotHeld
  <2>3. Named(f)[d][n] \in Children(f, S)
    BY <1>1, <2>2 DEF Children
  <2> QED
    BY <1>1, <2>1, <2>3 DEF Closed
<1>2. ASSUME ClosedIn(Named(f), S), NEW i \in Children(f, S) \cap Ino
      PROVE  i \in S
  <2>1. PICK e \in S \cap Dirs(f) :
          \E c \in f.inode[e].blk, m \in Name : f.data[c][m] = i
    BY DEF Children
  <2>2. PICK c \in f.inode[e].blk, m \in Name : f.data[c][m] = i
    BY <2>1
  <2>3. c \in Held(f, e, m) /\ i # NoIno
    BY <1>0, <2>1, <2>2 DEF Held, Holding
  <2>4. Held(f, e, m) = {c}
    BY <2>3, HeldOne DEF Shape
  <2>5. Named(f)[e][m] = i
    BY <1>0, <2>1, <2>2, <2>4, NamedAt
  <2> QED
    BY <1>2, <2>1, <2>3, <2>5 DEF ClosedIn
<1> QED
  BY <1>1, <1>2 DEF Closed, ClosedIn

\* The two changes of a move.
LEMMA PutTwoAt ==
    ASSUME NEW f, Shape(f), NEW sd \in Ino, NEW sn \in Name, NEW td \in Ino, NEW tn \in Name,
           NEW i \in Ino, NEW P, P = Put(Put(Named(f), td, tn, i), sd, sn, NoIno)
    PROVE  Shifts(Named(f), Put(Named(f), td, tn, i), P, sd, sn, td, tn, i)
<1> DEFINE N == Named(f)
           Q == Put(N, td, tn, i)
<1>1. N \in [Ino -> [Name -> Ino \cup {NoIno}]]
  BY NamedTyped DEF Shape
<1> HIDE DEF N
<1>2. Q \in [Ino -> [Name -> Ino \cup {NoIno}]] /\ At(N, Q, td, tn, i)
  BY <1>1 DEF At, Put
<1> HIDE DEF Q
<1>3. At(Q, Put(Q, sd, sn, NoIno), sd, sn, NoIno)
  BY <1>2 DEF At, Put
<1> QED
  BY <1>2, <1>3 DEF Shifts, Q, N

\* The place that takes the name is free: no name moves yet.
LEMMA MovedKeeps ==
    ASSUME FiniteDisk, NEW f, Shape(f), NEW g, Shape(g), TreeOf(f),
           NEW sd, NEW sn, NEW td \in Dirs(f), NEW tn \in Name, NEW i,
           Leads(f, sd, sn, i), <<sd, sn>> # <<td, tn>>, i # sd, i # td,
           Named(f)[td][tn] = NoIno,
           NEW C \in SUBSET Ino, IsDir(f, i) => i \in C /\ td \notin C /\ ClosedIn(Named(f), C),
           Moved(f, g, sd, sn, td, tn, i)
    PROVE  TreeOf(g)
<1> DEFINE K == Kinds(f)  N == Named(f)  L == Counts(f)  U == f.dotdot
           P == Named(g)  M == Counts(g)  V == g.dotdot
           Q == Put(N, td, tn, i)
<1>1. sd \in Dirs(f) /\ sn \in Name /\ N[sd][sn] = i /\ i \in Live(f)
      /\ (sd # td \/ sn # tn)
  BY DEF Leads
<1>2. /\ sd \in Ino /\ td \in Ino /\ i \in Ino /\ K[td] = "dir" /\ ViewOf(f) /\ ViewOf(g)
      /\ IsDir(f, i) <=> K[i] = "dir"
  BY <1>1, ShapeView
<1>3. TreeInv(K, N, L, U) /\ View(K, N, L, U) /\ View(K, P, M, V) /\ Kinds(g) = K
  BY <1>2 DEF TreeOf, ViewOf, Moved
<1>4. Shifts(N, Q, P, sd, sn, td, tn, i)
  <2>1. P = Put(Put(N, td, tn, i), sd, sn, NoIno)
    BY DEF Moved
  <2> HIDE DEF P
  <2> QED
    BY <1>1, <1>2, <2>1, PutTwoAt
<1> HIDE DEF Q
<1>5. CASE ~ Across(f, sd, td, i)
  <2>1. M = L /\ V = U
    BY <1>5 DEF Moved
  <2>2. K[i] # "dir" \/ sd = td
    BY <1>2, <1>5 DEF Across
  <2>3. View(K, P, L, U)
    BY <1>3, <2>1
  <2> HIDE DEF K, N, L, U, P, M, V
  <2>4. TreeInv(K, P, L, U)
    BY <1>1, <1>2, <1>3, <1>4, <2>2, <2>3, MoveTree DEF N
  <2> QED
    BY <1>3, <2>1, <2>4 DEF TreeOf, P, M, V
<1>6. CASE Across(f, sd, td, i)
  <2>1. K[i] = "dir" /\ sd # td /\ i \in C /\ td \notin C /\ ClosedIn(N, C)
    BY <1>2, <1>6 DEF Across
  <2>2. Is(U, V, i, td)
    <3>1. DOMAIN U = Ino
      BY <1>2, ViewParts
    <3>2. V = With(U, i, td)
      BY <1>6 DEF Moved, Carried
    <3> HIDE DEF U, V
    <3> QED
      BY <1>2, <3>1, <3>2, WithIs
  <2>3. M[sd] = LessOne(L[sd]) /\ M[td] = L[td] + 1
        /\ \A j \in Ino : j # sd /\ j # td => M[j] = L[j]
    <3>1. DOMAIN L = Ino
      BY <1>2, ViewParts
    <3>2. M = With(With(L, sd, LessOne(L[sd])), td, L[td] + 1)
      BY <1>6 DEF Moved, Carried
    <3> HIDE DEF L, M
    <3>3. PICK y : y = LessOne(L[sd])
      OBVIOUS
    <3>4. PICK z : z = L[td] + 1
      OBVIOUS
    <3> QED
      BY <1>2, <2>1, <3>1, <3>2, <3>3, <3>4, WithTwo
  <2>5. N[td][tn] = NoIno /\ i # sd /\ i # td
    OBVIOUS
  <2> HIDE DEF K, N, L, U, P, M, V
  <2>6. PICK kk, nn, ll, uu, pp, mm, vv :
           /\ kk = K /\ nn = N /\ ll = L /\ uu = U /\ pp = P /\ mm = M /\ vv = V
    OBVIOUS
  <2>7. /\ TreeInv(kk, nn, ll, uu) /\ View(kk, pp, mm, vv)
        /\ Shifts(nn, Q, pp, sd, sn, td, tn, i) /\ Is(uu, vv, i, td)
    BY <1>3, <1>4, <2>2, <2>6
  <2>8. CarriedOut(kk, nn, sd, sn, td, tn, i, C)
    BY <1>1, <1>2, <2>1, <2>5, <2>6 DEF CarriedOut
  <2>9. CountedOver(ll, mm, sd, td)
    BY <2>3, <2>6 DEF CountedOver
  <2>10. TreeInv(kk, pp, mm, vv)
    BY <2>7, <2>8, <2>9, CarriedTree
  <2>4. TreeInv(K, P, M, V)
    BY <2>6, <2>10
  <2> QED
    BY <1>3, <2>4 DEF TreeOf, P, M, V
<1> QED
  BY <1>5, <1>6

\* op_rename, its three cases: two names of one file, a free place, a place
\* that is freed first.
LEMMA RenamedKeeps ==
    ASSUME FiniteDisk, NEW f, Shape(f), NEW g, Shape(g), TreeOf(f),
           NEW i, DidRename(f, g, i)
    PROVE  TreeOf(g)
<1>1. PICK sd \in Dirs(f), sn \in Name, td \in Dirs(f), tn \in Name :
        /\ Movable(f, sd, sn, td, tn, i)
        /\ LET t == Named(f)[td][tn] IN
            \/ t = i /\ g = f
            \/ t = NoIno /\ Moved(f, g, sd, sn, td, tn, i)
            \/ /\ t \in Live(f) \ {i, Root} /\ RenameRefusal(f, i, t) = "ok"
               /\ \E h : Swept(f, h, td, tn, t) /\ Moved(h, g, sd, sn, td, tn, i)
  BY DEF DidRename
<1>2. /\ Leads(f, sd, sn, i) /\ <<sd, sn>> # <<td, tn>> /\ i # sd /\ i # td
      /\ IsDir(f, i) => td \notin Subtree(f, i)
      /\ Named(f)[sd][sn] = i /\ i \in Live(f)
  BY <1>1 DEF Movable, Leads
<1>3. /\ i \in Ino /\ td \in Ino /\ sd \in Ino
      /\ Named(f) \in [Ino -> [Name -> Ino \cup {NoIno}]]
      /\ i # NoIno
  BY <1>1, <1>2, ShapeView, NamedTyped, RootAssumption
<1> DEFINE C == Subtree(f, i)
           t == Named(f)[td][tn]
<1>4. C \in SUBSET Ino /\ i \in C /\ ClosedIn(Named(f), C)
  BY <1>3, SubtreeClosed, ClosedSlots DEF FiniteDisk
<1> HIDE DEF C
<1>5. CASE t = i /\ g = f
  BY <1>5
<1>6. CASE t = NoIno /\ Moved(f, g, sd, sn, td, tn, i)
  <2>1. IsDir(f, i) => i \in C /\ td \notin C /\ ClosedIn(Named(f), C)
    BY <1>2, <1>4 DEF C
  <2> QED
    BY <1>1, <1>2, <1>4, <1>6, <2>1, MovedKeeps
<1>7. CASE /\ t \in Live(f) \ {i, Root} /\ RenameRefusal(f, i, t) = "ok"
           /\ \E h : Swept(f, h, td, tn, t) /\ Moved(h, g, sd, sn, td, tn, i)
  <2>1. PICK h : Swept(f, h, td, tn, t) /\ Moved(h, g, sd, sn, td, tn, i)
    BY <1>7
  <2>2. Leads(f, td, tn, t) /\ t \in Ino /\ Shape(h)
    BY <1>1, <1>7, <2>1, ShapeView DEF Leads, Swept
  <2>3. IsDir(f, t) => EmptyDir(f, t) /\ t # td /\ t # sd
    <3> SUFFICES ASSUME IsDir(f, t) PROVE EmptyDir(f, t) /\ t # td /\ t # sd
      OBVIOUS
    <3>1. EmptyDir(f, t)
      BY <1>7 DEF RenameRefusal, do_check_empty_dir
    <3>2. \A n \in Name : Named(f)[t][n] = NoIno
      BY <2>2, <3>1, EmptyNames
    <3>3. t # NoIno
      BY <2>2, RootAssumption
    <3> QED
      BY <1>2, <1>3, <3>1, <3>2, <3>3
  <2>4. TreeOf(h)
    <3>1. CASE IsDir(f, t)
      <4>1. DirDropped(f, h, td, tn, t)
        BY <2>1, <3>1 DEF Swept
      <4> HIDE DEF t
      <4> QED
        BY <2>2, <2>3, <3>1, <4>1, DroppedDirKeeps
    <3>2. CASE ~ IsDir(f, t)
      <4>1. Dropped(f, h, td, tn, t)
        BY <2>1, <3>2 DEF Swept
      <4> HIDE DEF t
      <4> QED
        BY <2>2, <3>2, <4>1, DroppedKeeps
    <3> QED
      BY <3>1, <3>2
  <2>5. Named(h) = Put(Named(f), td, tn, NoIno)
    BY <2>1 DEF Swept, DirDropped, Dropped
  <2>6. /\ Named(h)[td][tn] = NoIno
        /\ \A e \in Ino, m \in Name : e # td \/ m # tn => Named(h)[e][m] = Named(f)[e][m]
    BY <1>3, <2>5, PutElse
  <2>7. Kinds(h)[i] = Kinds(f)[i] /\ Kinds(h)[sd] = Kinds(f)[sd] /\ Kinds(h)[td] = Kinds(f)[td]
    <3>1. \A j \in Ino : j # t => Kinds(h)[j] = Kinds(f)[j]
      BY <2>1 DEF Swept, DirDropped, Dropped, With, Kinds
    <3>2. sd # t /\ td # t
      <4>1. IsDir(f, sd) /\ IsDir(f, td)
        BY <1>1 DEF Dirs, IsDir
      <4> QED
        BY <2>3, <4>1
    <3> QED
      BY <1>3, <1>7, <3>1, <3>2
  <2>8. /\ i \in Live(h) /\ sd \in Dirs(h) /\ td \in Dirs(h)
        /\ IsDir(h, i) <=> IsDir(f, i)
    <3>1. /\ Kinds(f)[i] \in Kind /\ Kinds(f)[sd] = "dir" /\ Kinds(f)[td] = "dir"
          /\ IsDir(f, i) <=> Kinds(f)[i] = "dir"
      BY <1>1, <1>2, ShapeView
    <3>2. i \in Live(h)
      BY <1>3, <2>2, <2>7, <3>1, ShapeView
    <3>3. sd \in Dirs(h) /\ td \in Dirs(h)
      BY <1>3, <2>2, <2>7, <3>1, ShapeView
    <3>4. IsDir(h, i) <=> Kinds(h)[i] = "dir"
      BY <2>2, <3>2, ShapeView
    <3> QED
      BY <2>7, <3>1, <3>2, <3>3, <3>4
  <2>9. Leads(h, sd, sn, i)
    BY <1>1, <1>2, <1>3, <2>6, <2>8 DEF Leads
  <2>10. IsDir(h, i) => i \in C /\ td \notin C /\ ClosedIn(Named(h), C)
    <3>1. ClosedIn(Named(h), C)
      BY <1>1, <1>4, <2>6 DEF ClosedIn
    <3> QED
      BY <1>2, <1>4, <2>8, <3>1 DEF C
  <2> QED
    BY <1>1, <1>2, <1>4, <2>1, <2>2, <2>4, <2>6, <2>8, <2>9, <2>10, MovedKeeps
<1> QED
  BY <1>1, <1>5, <1>6, <1>7

LEMMA SameKeeps ==
    ASSUME NEW f, NEW g, TreeOf(f), SameTree(f, g)
    PROVE  TreeOf(g)
  BY DEF TreeOf, SameTree

\* Whatever a request did keeps the tree.
LEMMA DidKeeps ==
    ASSUME FiniteDisk, NEW f, Shape(f), NEW g, Shape(g), TreeOf(f),
           NEW op, NEW i, Did(f, g, op, i)
    PROVE  TreeOf(g)
<1>1. CASE DidUnlink(f, g, i)
  <2>1. PICK d \in Dirs(f), n \in Name :
          Leads(f, d, n, i) /\ ~ IsDir(f, i) /\ Dropped(f, g, d, n, i)
    BY <1>1 DEF DidUnlink
  <2> QED
    BY <2>1, DroppedKeeps
<1>2. CASE DidRmdir(f, g, i)
  <2>1. PICK d \in Dirs(f), n \in Name :
          /\ Leads(f, d, n, i) /\ IsDir(f, i) /\ EmptyDir(f, i) /\ i # d
          /\ DirDropped(f, g, d, n, i)
    BY <1>2 DEF DidRmdir
  <2> QED
    BY <2>1, DroppedDirKeeps
<1>3. CASE \E k \in Kind \ {"dir"} : DidMake(f, g, i, k)
  BY <1>3, MadeKeeps
<1>4. CASE DidMkdir(f, g, i)
  BY <1>4, MadeDirKeeps
<1>5. CASE DidLink(f, g, i)
  BY <1>5, LinkedKeeps
<1>6. CASE DidRename(f, g, i)
  BY <1>6, RenamedKeeps
<1>7. CASE SameTree(f, g)
  BY <1>7, SameKeeps
<1> QED
  BY <1>1, <1>2, <1>3, <1>4, <1>5, <1>6, <1>7 DEF Did

TreeFS == TreeOf(fs)

\* Every step keeps the tree.
LEMMA NextKeepsTree ==
    ASSUME FiniteDisk, NoFailure, Good(fs, NoIno), Good(fs', NoIno), Packed(fs),
           TreeOf(fs), [Next]_vars
    PROVE  TreeOf(fs')
<1>0. Shape(fs) /\ Shape(fs')
  BY GoodShape
<1>1. CASE UNCHANGED vars
  <2>1. fs' = fs
    BY <1>1 DEF vars
  <2> QED
    BY <2>1
<1>2. CASE Next
  <2>1. Tells(fs, fs', ret', {})
    BY <1>2, NextTellsAll
  <2>2. CASE ret'.rc = "ok"
    <3>1. Did(fs, fs', ret'.op, ret'.ino)
      BY <2>1, <2>2 DEF Tells
    <3> QED
      BY <1>0, <3>1, DidKeeps
  <2>3. CASE ret'.rc # "ok"
    <3>1. SameTree(fs, fs') \/ HalfLink(fs, fs', ret')
      BY <2>1, <2>3 DEF Tells
    <3>2. CASE SameTree(fs, fs')
      BY <3>2, SameKeeps
    <3>3. CASE HalfLink(fs, fs', ret')
      <4>1. DidMake(fs, fs', ret'.ino, "lnk") /\ "lnk" \in Kind \ {"dir"}
        BY <3>3 DEF HalfLink, Kind
      <4> QED
        BY <1>0, <4>1, MadeKeeps
    <3> QED
      BY <3>1, <3>2, <3>3
  <2> QED
    BY <2>2, <2>3
<1> QED
  BY <1>1, <1>2

\* What shows is a tree at all times, and the counts and ".." on the disk are
\* those of the tree: the invariant behind the ones below.
THEOREM TreeHolds ==
    ASSUME FiniteDisk, NoFailure
    PROVE  Spec => []TreeFS
<1>1. Init => TreeFS
  BY MkfsTree DEF TreeFS
<1>2. GoodFS /\ GoodFS' /\ Packed(fs) /\ TreeFS /\ [Next]_vars => TreeFS'
  BY NextKeepsTree DEF GoodFS, TreeFS
<1>4. Spec => []GoodFS
  BY NoSafe, GoodAlways DEF FiniteDisk
<1>5. Spec => []Packed(fs)
  BY BlocksFit DEF FiniteDisk, FiniteNames
<1> QED
  BY <1>1, <1>2, <1>4, <1>5, PTL DEF Spec

-----------------------------------------------------------------------------
(* Link counts and the tree *)

\* Subdirectories by entries are subdirectories by names.
LEMMA SubDirsBelow ==
    ASSUME NEW f, Shape(f), NEW d \in Dirs(f)
    PROVE  SubDirs(f, d) = Below(Kinds(f), Named(f), d)
<1>0. f \in FileSystem /\ d \in Ino /\ Dirs(f) \subseteq Ino /\ NoIno \notin Ino
  BY BlocksTyped, RootAssumption DEF Shape
<1>a. \A i \in Ino : Kinds(f)[i] = "dir" <=> i \in Dirs(f)
  BY <1>0, ShapeView
<1>1. ASSUME NEW i \in SubDirs(f, d) PROVE i \in Below(Kinds(f), Named(f), d)
  <2>1. PICK s \in Refs(f, i) : i \in Dirs(f) \ {d} /\ s[1] \in f.inode[d].blk
    BY DEF SubDirs
  <2>2. PICK b \in f.inode[d].blk, n \in Name : f.data[b][n] = i
    BY <2>1 DEF Refs
  <2>3. b \in Held(f, d, n)
    BY <1>0, <2>1, <2>2 DEF Held, Holding
  <2>4. Named(f)[d][n] = i
    BY <1>0, <2>2, <2>3, HeldOne, NamedAt DEF Shape
  <2> QED
    BY <1>0, <1>a, <2>1, <2>4 DEF Below
<1>2. ASSUME NEW i \in Below(Kinds(f), Named(f), d) PROVE i \in SubDirs(f, d)
  <2>1. i \in Ino \ {d} /\ i \in Dirs(f)
    BY <1>a DEF Below
  <2>2. PICK n \in Name : Named(f)[d][n] = i
    BY DEF Below
  <2>3. {i} \in SUBSET Ino
    BY <2>1
  <2>4. PICK b \in f.inode[d].blk : f.data[b][n] = Named(f)[d][n]
    BY <1>0, <2>2, <2>3, SlotHeld
  <2>5. <<b, n>> \in Refs(f, i)
    BY <2>2, <2>4 DEF Refs, DirBlocks
  <2>6. <<b, n>>[1] \in f.inode[d].blk
    OBVIOUS
  <2> QED
    BY <2>1, <2>5, <2>6 DEF SubDirs
<1> QED
  BY <1>1, <1>2

\* The counts of a tree are those the property asks for.
LEMMA TreeCounts ==
    ASSUME FiniteDisk, NEW f, Shape(f), TreeOf(f), NEW i \in Live(f)
    PROVE  f.inode[i].links = IF IsDir(f, i) THEN 2 + Cardinality(SubDirs(f, i))
                                             ELSE Cardinality(Refs(f, i))
<1> DEFINE K == Kinds(f)  N == Named(f)  L == Counts(f)
<1>1. /\ i \in Ino /\ K[i] # "none" /\ L[i] = f.inode[i].links
      /\ IsDir(f, i) <=> K[i] = "dir"
  BY ShapeView
<1>2. FileCounts(K, N, L) /\ DirCounts(K, N, L)
  BY DEF TreeOf, TreeInv
<1>3. CASE IsDir(f, i)
  <2>1. i \in Dirs(f)
    BY <1>3 DEF Dirs, IsDir
  <2>2. SubDirs(f, i) = Below(K, N, i)
    BY <2>1, SubDirsBelow
  <2>3. L[i] = 2 + Cardinality(Below(K, N, i))
    BY <1>1, <1>2, <1>3 DEF DirCounts
  <2> QED
    BY <1>1, <1>3, <2>2, <2>3
<1>4. CASE ~ IsDir(f, i)
  <2>1. L[i] = Cardinality(SlotsIn(N, {i}))
    BY <1>1, <1>2, <1>4 DEF FileCounts
  <2>2. Cardinality(Refs(f, i)) = Cardinality(SlotsIn(N, {i}))
    BY <1>1, CountRefs
  <2> QED
    BY <1>1, <1>4, <2>1, <2>2
<1> QED
  BY <1>3, <1>4

\* When no call fails, i_links_count is what the tree says of every file and
\* directory: op_link, op_unlink, op_rmdir and op_rename, over directories and
\* across directories, change the counts of exactly the inodes whose names they
\* change.
THEOREM LinkCountsHold ==
    ASSUME FiniteDisk, NoFailure
    PROVE  Spec => []LinkCountsExact
<1>1. GoodFS /\ TreeFS => LinkCountsExact
  BY GoodShape, TreeCounts DEF GoodFS, TreeFS, LinkCountsExact
<1>2. Spec => []GoodFS
  BY NoSafe, GoodAlways DEF FiniteDisk
<1>3. Spec => []TreeFS
  BY TreeHolds
<1> QED
  BY <1>1, <1>2, <1>3, PTL

\* A tree is what the property asks for: a set closed under names that holds
\* the root holds every directory, and Subtree(f, Root) is one.
LEMMA TreeReached ==
    ASSUME FiniteDisk, NEW f, Shape(f), TreeOf(f)
    PROVE  /\ Dirs(f) \subseteq Subtree(f, Root)
           /\ \A d \in Dirs(f), i \in Dirs(f) : i \in SubDirs(f, d) => f.dotdot[i] = d
<1> DEFINE K == Kinds(f)  N == Named(f)  U == f.dotdot
<1>0. f \in FileSystem /\ Dirs(f) \subseteq Ino /\ Root \in Ino /\ NoIno \notin Ino
  BY BlocksTyped, RootAssumption DEF Shape
<1>1. Connected(K, N) /\ Parents(K, N, U)
  BY DEF TreeOf, TreeInv
<1>2. \A d \in Dirs(f) : K[d] = "dir"
  BY ShapeView
<1>3. Root \in Subtree(f, Root) /\ Subtree(f, Root) \in SUBSET Ino /\ ClosedIn(N, Subtree(f, Root))
  BY <1>0, SubtreeClosed, ClosedSlots DEF FiniteDisk
<1>4. Dirs(f) \subseteq Subtree(f, Root)
  BY <1>0, <1>1, <1>2, <1>3 DEF Connected
<1>5. ASSUME NEW d \in Dirs(f), NEW i \in Dirs(f), i \in SubDirs(f, d) PROVE U[i] = d
  <2>1. i \in Below(K, N, d)
    BY <1>5, SubDirsBelow
  <2>2. PICK n \in Name : N[d][n] = i
    BY <2>1 DEF Below
  <2> QED
    BY <1>0, <1>1, <1>2, <2>2 DEF Parents
<1> QED
  BY <1>4, <1>5

\* When no call fails, the directories form one tree under the root and ".."
\* names the directory that holds the name: op_rename never puts a directory
\* below itself and rewrites ".." exactly when the parent changes.
THEOREM OneTreeHolds ==
    ASSUME FiniteDisk, NoFailure
    PROVE  Spec => []OneTree
<1>1. GoodFS /\ TreeFS => OneTree
  BY GoodShape, TreeReached DEF GoodFS, TreeFS, OneTree
<1>2. Spec => []GoodFS
  BY NoSafe, GoodAlways DEF FiniteDisk
<1>3. Spec => []TreeFS
  BY TreeHolds
<1> QED
  BY <1>1, <1>2, <1>3, PTL

LEMMA TwoElements ==
    ASSUME NEW S, IsFiniteSet(S), NEW x \in S, NEW y \in S, x # y
    PROVE  Cardinality(S) > 1
<1>1. IsFiniteSet(S \ {x}) /\ Cardinality(S \ {x}) = Cardinality(S) - 1
  BY FS_RemoveElement
<1>2. S \ {x} # {}
  OBVIOUS
<1>3. Cardinality(S \ {x}) # 0 /\ Cardinality(S \ {x}) \in Nat /\ Cardinality(S) \in Nat
  BY <1>1, <1>2, FS_EmptySet, FS_CardinalityType
<1> QED
  BY <1>1, <1>3

\* The slot of a name in a block of its directory.
LEMMA LeadsRef ==
    ASSUME NEW f, Shape(f), NEW i \in Ino, NEW d \in Ino, NEW n \in Name,
           Named(f)[d][n] = i
    PROVE  d \in Live(f) /\ \E b \in f.inode[d].blk : <<b, n>> \in Refs(f, i)
<1>1. {i} \in SUBSET Ino /\ Named(f)[d][n] \in {i}
  OBVIOUS
<1>2. d \in Dirs(f)
  BY <1>1, SlotHeld
<1>3. PICK b \in f.inode[d].blk : f.data[b][n] = i
  BY <1>1, SlotHeld
<1>4. <<b, n>> \in Refs(f, i)
  BY <1>2, <1>3 DEF Refs, DirBlocks
<1>5. d \in Live(f)
  BY <1>2 DEF Dirs
<1> QED
  BY <1>3, <1>4, <1>5

\* A file whose name shows in another place has its entry in another place.
LEMMA MovesRef ==
    ASSUME FiniteDisk, NEW f, Shape(f), NEW g, Shape(g), NEW i \in Ino,
           NEW sd \in Ino, NEW sn \in Name, NEW td \in Ino, NEW tn \in Name,
           <<sd, sn>> # <<td, tn>>,
           Named(f)[sd][sn] = i, Named(g)[td][tn] = i, sd \in Live(g),
           sd # td => g.inode[sd].blk = f.inode[sd].blk
    PROVE  Refs(g, i) # Refs(f, i) \/ Cardinality(Refs(f, i)) > 1
<1> SUFFICES ASSUME Refs(g, i) = Refs(f, i), ~ (Cardinality(Refs(f, i)) > 1) PROVE FALSE
  OBVIOUS
<1>1. PICK b \in f.inode[sd].blk : <<b, sn>> \in Refs(f, i)
  BY LeadsRef
<1>2. PICK c \in g.inode[td].blk : <<c, tn>> \in Refs(f, i)
  BY LeadsRef
<1>3. td \in Live(g)
  BY LeadsRef
<1>4. <<b, sn>> = <<c, tn>>
  <2>1. PICK S, x, y : S = Refs(f, i) /\ x = <<b, sn>> /\ y = <<c, tn>>
    OBVIOUS
  <2>2. IsFiniteSet(S) /\ x \in S /\ y \in S /\ ~ (Cardinality(S) > 1)
    <3>1. IsFiniteSet(Refs(f, i))
      BY RefsFinite DEF FiniteDisk, Shape
    <3> QED
      BY <1>1, <1>2, <2>1, <3>1
  <2>3. x = y
    BY <2>2, TwoElements
  <2> QED
    BY <2>1, <2>3
<1>5. b = c /\ sn = tn
  BY <1>4
<1>6. sd # td
  BY <1>5
<1>7. b \in g.inode[sd].blk /\ b \in g.inode[td].blk
  BY <1>5, <1>6
<1> QED
  BY <1>3, <1>6, <1>7 DEF Shape, Disjoint

\* A name that moved is in its new place.
LEMMA MovedPlace ==
    ASSUME NEW f, Shape(f), NEW g, NEW sd \in Ino, NEW sn \in Name,
           NEW td \in Ino, NEW tn \in Name, NEW i \in Ino, <<sd, sn>> # <<td, tn>>,
           Moved(f, g, sd, sn, td, tn, i)
    PROVE  Named(g)[td][tn] = i
<1> DEFINE N == Named(f)  Q == Put(N, td, tn, i)
<1>1. N \in [Ino -> [Name -> Ino \cup {NoIno}]]
  BY NamedTyped DEF Shape
<1>2. Q \in [Ino -> [Name -> Ino \cup {NoIno}]] /\ Q[td][tn] = i
  BY <1>1 DEF Put
<1>3. Named(g) = Put(Q, sd, sn, NoIno)
  BY DEF Moved
<1> HIDE DEF Q
<1> QED
  BY <1>2, <1>3 DEF Put

\* In each case of a rename.
LEMMA RenamedMoves ==
    ASSUME FiniteDisk, NEW f, Shape(f), NEW g, Shape(g), NEW i, DidRename(f, g, i)
    PROVE  Refs(g, i) # Refs(f, i) \/ Cardinality(Refs(f, i)) > 1
<1>1. PICK sd \in Dirs(f), sn \in Name, td \in Dirs(f), tn \in Name :
        /\ Movable(f, sd, sn, td, tn, i)
        /\ LET t == Named(f)[td][tn] IN
            \/ t = i /\ g = f
            \/ t = NoIno /\ Moved(f, g, sd, sn, td, tn, i)
            \/ /\ t \in Live(f) \ {i, Root} /\ RenameRefusal(f, i, t) = "ok"
               /\ \E h : Swept(f, h, td, tn, t) /\ Moved(h, g, sd, sn, td, tn, i)
  BY DEF DidRename
<1>2. /\ <<sd, sn>> # <<td, tn>> /\ Named(f)[sd][sn] = i /\ i \in Live(f)
  BY <1>1 DEF Movable, Leads
<1>3. /\ i \in Ino /\ td \in Ino /\ sd \in Ino /\ i # NoIno
      /\ Kinds(f)[sd] = "dir" /\ Kinds(f)[td] = "dir"
  BY <1>1, <1>2, ShapeView, RootAssumption
<1> DEFINE t == Named(f)[td][tn]
<1>5. CASE t = i /\ g = f
  <2>1. /\ <<sd, sn>> \in SlotsIn(Named(f), {i}) /\ <<td, tn>> \in SlotsIn(Named(f), {i})
    BY <1>2, <1>3, <1>5 DEF SlotsIn
  <2>2. Cardinality(SlotsIn(Named(f), {i})) > 1
    BY <1>2, <2>1, SlotsFinite, TwoElements
  <2> QED
    BY <1>3, <2>2, CountRefs
<1>6. CASE t = NoIno /\ Moved(f, g, sd, sn, td, tn, i)
  <2>1. Named(g)[td][tn] = i
    BY <1>1, <1>2, <1>3, <1>6, MovedPlace
  <2>2. Kinds(g) = Kinds(f) /\ (sd # td => g.inode[sd].blk = f.inode[sd].blk)
    BY <1>6 DEF Moved
  <2>3. sd \in Live(g)
    BY <1>3, <2>2, ShapeView
  <2> QED
    BY <1>1, <1>2, <1>3, <2>1, <2>2, <2>3, MovesRef
<1>7. CASE /\ t \in Live(f) \ {i, Root} /\ RenameRefusal(f, i, t) = "ok"
           /\ \E h : Swept(f, h, td, tn, t) /\ Moved(h, g, sd, sn, td, tn, i)
  <2>1. PICK h : Swept(f, h, td, tn, t) /\ Moved(h, g, sd, sn, td, tn, i)
    BY <1>7
  <2>2. t \in Ino /\ Shape(h) /\ Others(f, h, t, td)
    BY <1>7, <2>1, ShapeView DEF Swept
  <2>3. sd # t
    <3> SUFFICES ASSUME sd = t PROVE FALSE
      OBVIOUS
    <3>1. IsDir(f, t)
      BY <1>1 DEF Dirs, IsDir
    <3>2. EmptyDir(f, t)
      BY <1>7, <3>1 DEF RenameRefusal, do_check_empty_dir
    <3>3. Named(f)[t][sn] = NoIno
      BY <1>1, <2>2, <3>2, EmptyNames
    <3> QED
      BY <1>2, <1>3, <3>3
  <2>4. Kinds(h)[sd] = Kinds(f)[sd]
    BY <1>3, <2>1, <2>2, <2>3 DEF Swept, DirDropped, Dropped, With, Kinds
  <2>5. Named(g)[td][tn] = i
    BY <1>1, <1>2, <1>3, <2>1, <2>2, MovedPlace
  <2>6. Kinds(g) = Kinds(h) /\ (sd # td => g.inode[sd].blk = h.inode[sd].blk)
    BY <2>1 DEF Moved
  <2>7. sd \in Live(g)
    BY <1>3, <2>4, <2>6, ShapeView
  <2>8. sd # td => h.inode[sd] = f.inode[sd]
    BY <1>3, <2>2, <2>3 DEF Others
  <2> QED
    BY <1>1, <1>2, <1>3, <2>5, <2>6, <2>7, <2>8, MovesRef
<1> QED
  BY <1>1, <1>5, <1>6, <1>7

\* When no call fails, op_rename returns 0 only if the file it is about changed
\* place or has another name: its way out with rt = 0, after a destination that
\* could not be deleted, is then never taken.
THEOREM RenameTakesPlace ==
    ASSUME FiniteDisk, NoFailure
    PROVE  Spec => RenameMoves
<1> DEFINE A == ret'.op = "rename" /\ ret'.rc = "ok" =>
                   \/ Refs(fs', ret'.ino) # Refs(fs, ret'.ino)
                   \/ Cardinality(Refs(fs, ret'.ino)) > 1
<1>1. GoodFS /\ GoodFS' /\ Packed(fs) /\ [Next]_vars => [A]_vars
  <2> SUFFICES ASSUME Good(fs, NoIno), Good(fs', NoIno), Packed(fs), Next,
                      ret'.op = "rename", ret'.rc = "ok"
               PROVE  A
    BY DEF GoodFS
  <2>1. Tells(fs, fs', ret', {})
    BY NextTellsAll
  <2>2. DidRename(fs, fs', ret'.ino)
    BY <2>1 DEF Tells, Did
  <2> QED
    BY <2>2, GoodShape, RenamedMoves
<1>2. Spec => []GoodFS
  BY NoSafe, GoodAlways DEF FiniteDisk
<1>3. Spec => []Packed(fs)
  BY BlocksFit DEF FiniteDisk, FiniteNames
<1> QED
  BY <1>1, <1>2, <1>3, PTL DEF Spec, RenameMoves

-----------------------------------------------------------------------------
(* The daemon implements PosixTree *)

\* The nodes that are left when the names are P.
Left(K, P) == [i \in Ino |-> IF i # Root /\ \A d \in Ino, n \in Name : P[d][n] # i
                             THEN "none" ELSE K[i]]

\* A removal frees what has no name any more and nothing else: both before and
\* after it, what is in use is what has a name.
LEMMA FreesNameless ==
    ASSUME NEW K, NEW N, NEW L, NEW U, TreeInv(K, N, L, U),
           NEW J, NEW P, NEW M, NEW V, TreeInv(J, P, M, V),
           \A j \in Ino : J[j] = K[j] \/ J[j] = "none"
    PROVE  J = Left(K, P)
<1>1. /\ Proper(K, N) /\ Proper(J, P) /\ HasName(J, P)
      /\ J \in [Ino -> Kind \cup {"none"}]
      /\ \A d \in Ino, n \in Name : P[d][n] \in Ino \cup {NoIno}
      /\ NoIno \notin Ino
  BY RootAssumption DEF TreeInv, View
<1>2. ASSUME NEW j \in Ino PROVE J[j] = Left(K, P)[j]
  <2>1. CASE j = Root
    <3>1. J[j] = "dir" /\ K[j] = "dir"
      BY <1>1, <2>1 DEF Proper
    <3> QED
      BY <2>1, <3>1 DEF Left
  <2>2. CASE j # Root /\ \A d \in Ino, n \in Name : P[d][n] # j
    <3>1. J[j] = "none"
      BY <1>1, <2>2 DEF HasName
    <3> QED
      BY <2>2, <3>1 DEF Left
  <2>3. CASE j # Root /\ ~ (\A d \in Ino, n \in Name : P[d][n] # j)
    <3>1. J[j] # "none"
      BY <1>1, <2>3 DEF Proper
    <3>2. J[j] = K[j]
      BY <3>1
    <3> QED
      BY <2>3, <3>2 DEF Left
  <2> QED
    BY <2>1, <2>2, <2>3
<1>3. DOMAIN J = Ino /\ DOMAIN Left(K, P) = Ino
  BY <1>1 DEF Left
<1>4. Left(K, P) = [j \in Ino |-> Left(K, P)[j]] /\ J = [j \in Ino |-> J[j]]
  BY <1>1 DEF Left
<1> QED
  BY <1>2, <1>4

\* The actions of PosixTree, in terms of what shows.
LEMMA MakeStep ==
    ASSUME NEW d \in Ino, NEW n \in Name, NEW i \in Ino, NEW k \in Kind,
           Kinds(fs)[d] = "dir", Named(fs)[d][n] = NoIno, Kinds(fs)[i] = "none",
           Kinds(fs') = With(Kinds(fs), i, k), Named(fs') = Put(Named(fs), d, n, i),
           ret'.rc = "ok" \/ k = "lnk"
    PROVE  Tree!Next
<1>1. Tree!Make(d, n, i, k)
  BY DEF Tree!Make, Tree!Set, Kinds, Named, With, Put, Error
<1> QED
  BY <1>1 DEF Tree!Next, Kind

LEMMA LinkStep ==
    ASSUME NEW d \in Ino, NEW n \in Name, NEW i \in Ino,
           Kinds(fs)[d] = "dir", Named(fs)[d][n] = NoIno,
           Kinds(fs)[i] \notin {"none", "dir"},
           Kinds(fs') = Kinds(fs), Named(fs') = Put(Named(fs), d, n, i), ret'.rc = "ok"
    PROVE  Tree!Next
<1>1. Tree!Link(d, n, i)
  BY DEF Tree!Link, Tree!Set, Kinds, Named, Put, Error
<1> QED
  BY <1>1 DEF Tree!Next

LEMMA ReapLeft ==
    ASSUME NEW K, NEW P
    PROVE  Tree!Reap(K, P) = Left(K, P)
  BY DEF Tree!Reap, Left

LEMMA RemoveStep ==
    ASSUME NEW d \in Ino, NEW n \in Name, NEW i, Named(fs)[d][n] = i, i # NoIno,
           Kinds(fs)[d] = "dir",
           Kinds(fs)[i] = "dir" => \A m \in Name : Named(fs)[i][m] = NoIno,
           Kinds(fs') = Left(Kinds(fs), Named(fs')),
           Named(fs') = Put(Named(fs), d, n, NoIno), ret'.rc = "ok"
    PROVE  Tree!Next
<1>0. Kinds(fs') = Tree!Reap(Kinds(fs), Named(fs'))
  BY ReapLeft
<1>1. Tree!Remove(d, n)
  BY <1>0 DEF Tree!Remove, Tree!Set, Tree!Empty, Kinds, Named, Put, Error
<1> QED
  BY <1>1 DEF Tree!Next

LEMMA RenameStep ==
    ASSUME NEW sd \in Ino, NEW sn \in Name, NEW td \in Ino, NEW tn \in Name, NEW i, NEW j,
           Named(fs)[sd][sn] = i, Named(fs)[td][tn] = j,
           Kinds(fs)[sd] = "dir", Kinds(fs)[td] = "dir", i # NoIno, i # j,
           j # NoIno => /\ Kinds(fs)[i] = "dir" <=> Kinds(fs)[j] = "dir"
                        /\ Kinds(fs)[j] = "dir" => \A m \in Name : Named(fs)[j][m] = NoIno,
           Kinds(fs') = Left(Kinds(fs), Named(fs')),
           Named(fs') = Put(Put(Named(fs), td, tn, i), sd, sn, NoIno), ret'.rc = "ok"
    PROVE  Tree!Next
<1>0. Kinds(fs') = Tree!Reap(Kinds(fs), Named(fs'))
  BY ReapLeft
<1>a. LET a == Named(fs)[sd][sn]
          b == Named(fs)[td][tn]
      IN  /\ a # NoIno /\ a # b
          /\ b # NoIno => /\ Kinds(fs)[a] = "dir" <=> Kinds(fs)[b] = "dir"
                          /\ Kinds(fs)[b] = "dir" => \A m \in Name : Named(fs)[b][m] = NoIno
          /\ Named(fs') = [[Named(fs) EXCEPT ![td][tn] = a] EXCEPT ![sd][sn] = NoIno]
  BY DEF Put
<1>b. "ok" \notin Error
  BY DEF Error
<1>1. Tree!Rename(sd, sn, td, tn)
  BY <1>0, <1>a, <1>b, Zenon DEF Tree!Rename, Tree!Empty, Kinds, Named
<1> QED
  BY <1>1 DEF Tree!Next

LEMMA SameStep ==
    ASSUME SameTree(fs, fs')
    PROVE  Tree!Next
<1>1. Tree!Same
  BY DEF Tree!Same, SameTree, Kinds, Named
<1> QED
  BY <1>1 DEF Tree!Next

\* The last change of a place counts.
LEMMA PutTwice ==
    ASSUME NEW N \in [Ino -> [Name -> Ino \cup {NoIno}]],
           NEW d \in Ino, NEW n \in Name, NEW x, NEW y
    PROVE  Put(Put(N, d, n, x), d, n, y) = Put(N, d, n, y)
<1>1. PICK F : F = N[d]
  OBVIOUS
<1>2. F = [m \in Name |-> F[m]] /\ N = [e \in Ino |-> N[e]]
  BY <1>1
<1>3. [[F EXCEPT ![n] = x] EXCEPT ![n] = y] = [F EXCEPT ![n] = y]
  BY <1>2
<1> QED
  BY <1>1, <1>2, <1>3 DEF Put

\* What is left of the nodes after a removal.
LEMMA NodesLeft ==
    ASSUME TreeOf(fs), TreeOf(fs'),
           \A j \in Ino : Kinds(fs')[j] = Kinds(fs)[j] \/ Kinds(fs')[j] = "none"
    PROVE  Kinds(fs') = Left(Kinds(fs), Named(fs'))
  BY FreesNameless DEF TreeOf

\* A removal at most takes a node away.
LEMMA DroppedKinds ==
    ASSUME NEW f, NEW g, NEW d, NEW n, NEW i, Dropped(f, g, d, n, i) \/ DirDropped(f, g, d, n, i)
    PROVE  \A j \in Ino : Kinds(g)[j] = Kinds(f)[j] \/ Kinds(g)[j] = "none"
  BY DEF Dropped, DirDropped, With, Kinds

LEMMA MakeDidStep ==
    ASSUME Shape(fs), NEW i, NEW k \in Kind \ {"dir"}, DidMake(fs, fs', i, k),
           ret'.rc = "ok" \/ k = "lnk"
    PROVE  Tree!Next
<1>1. PICK d \in Dirs(fs), n \in Name :
        /\ Nameless(fs, d, n) /\ i \in Ino \ fs.imap
        /\ Made(fs, fs', d, n, i, k)
  BY DEF DidMake
<1>2. d \in Ino /\ Kinds(fs)[d] = "dir" /\ Kinds(fs)[i] = "none" /\ i \in Ino
  BY <1>1, ShapeView
<1> QED
  BY <1>1, <1>2, MakeStep DEF Nameless, Made

LEMMA MkdirDidStep ==
    ASSUME Shape(fs), NEW i, DidMkdir(fs, fs', i), ret'.rc = "ok"
    PROVE  Tree!Next
<1>1. PICK d \in Dirs(fs), n \in Name :
        /\ Nameless(fs, d, n) /\ i \in Ino \ fs.imap
        /\ DirMade(fs, fs', d, n, i)
  BY DEF DidMkdir
<1>2. /\ d \in Ino /\ Kinds(fs)[d] = "dir" /\ Kinds(fs)[i] = "none" /\ i \in Ino
      /\ "dir" \in Kind
  BY <1>1, ShapeView DEF Kind
<1> QED
  BY <1>1, <1>2, MakeStep DEF Nameless, DirMade

LEMMA LinkDidStep ==
    ASSUME Shape(fs), NEW i, DidLink(fs, fs', i), ret'.rc = "ok"
    PROVE  Tree!Next
<1>1. PICK d \in Dirs(fs), n \in Name :
        /\ Nameless(fs, d, n) /\ i \in Live(fs) /\ ~ IsDir(fs, i)
        /\ Linked(fs, fs', d, n, i)
  BY DEF DidLink
<1>2. /\ d \in Ino /\ Kinds(fs)[d] = "dir" /\ i \in Ino
      /\ Kinds(fs)[i] \notin {"none", "dir"}
  BY <1>1, ShapeView
<1> QED
  BY <1>1, <1>2, LinkStep DEF Nameless, Linked

LEMMA UnlinkDidStep ==
    ASSUME Shape(fs), TreeOf(fs), TreeOf(fs'), NEW i,
           DidUnlink(fs, fs', i), ret'.rc = "ok"
    PROVE  Tree!Next
<1>1. PICK d \in Dirs(fs), n \in Name :
        Leads(fs, d, n, i) /\ ~ IsDir(fs, i) /\ Dropped(fs, fs', d, n, i)
  BY DEF DidUnlink
<1>2. /\ d \in Ino /\ Kinds(fs)[d] = "dir" /\ i \in Ino /\ i # NoIno
      /\ Kinds(fs)[i] # "dir" /\ Named(fs)[d][n] = i
  BY <1>1, ShapeView, RootAssumption DEF Leads
<1>3. Kinds(fs') = Left(Kinds(fs), Named(fs'))
  BY <1>1, DroppedKinds, NodesLeft
<1>4. Named(fs') = Put(Named(fs), d, n, NoIno)
  BY <1>1 DEF Dropped
<1> QED
  BY <1>2, <1>3, <1>4, RemoveStep

LEMMA RmdirDidStep ==
    ASSUME Shape(fs), TreeOf(fs), TreeOf(fs'), NEW i,
           DidRmdir(fs, fs', i), ret'.rc = "ok"
    PROVE  Tree!Next
<1>1. PICK d \in Dirs(fs), n \in Name :
        /\ Leads(fs, d, n, i) /\ IsDir(fs, i) /\ EmptyDir(fs, i)
        /\ DirDropped(fs, fs', d, n, i)
  BY DEF DidRmdir
<1>2. /\ d \in Ino /\ Kinds(fs)[d] = "dir" /\ i \in Ino /\ i # NoIno
      /\ Named(fs)[d][n] = i
  BY <1>1, ShapeView, RootAssumption DEF Leads
<1>3. \A m \in Name : Named(fs)[i][m] = NoIno
  BY <1>1, <1>2, EmptyNames
<1>4. Kinds(fs') = Left(Kinds(fs), Named(fs'))
  BY <1>1, DroppedKinds, NodesLeft
<1>5. Named(fs') = Put(Named(fs), d, n, NoIno)
  BY <1>1 DEF DirDropped
<1> QED
  BY <1>2, <1>3, <1>4, <1>5, RemoveStep

LEMMA RenameDidStep ==
    ASSUME Shape(fs), TreeOf(fs), TreeOf(fs'), NEW i,
           DidRename(fs, fs', i), ret'.rc = "ok"
    PROVE  Tree!Next
<1>1. PICK sd \in Dirs(fs), sn \in Name, td \in Dirs(fs), tn \in Name :
        /\ Movable(fs, sd, sn, td, tn, i)
        /\ LET t == Named(fs)[td][tn] IN
            \/ t = i /\ fs' = fs
            \/ t = NoIno /\ Moved(fs, fs', sd, sn, td, tn, i)
            \/ /\ t \in Live(fs) \ {i, Root} /\ RenameRefusal(fs, i, t) = "ok"
               /\ \E h : Swept(fs, h, td, tn, t) /\ Moved(h, fs', sd, sn, td, tn, i)
  BY DEF DidRename
<1>2. Named(fs)[sd][sn] = i /\ i \in Live(fs)
  BY <1>1 DEF Movable, Leads
<1>3. /\ i \in Ino /\ td \in Ino /\ sd \in Ino /\ i # NoIno
      /\ Kinds(fs)[sd] = "dir" /\ Kinds(fs)[td] = "dir"
      /\ Named(fs) \in [Ino -> [Name -> Ino \cup {NoIno}]]
  BY <1>1, <1>2, ShapeView, NamedTyped, RootAssumption
<1> DEFINE t == Named(fs)[td][tn]
<1>5. CASE t = i /\ fs' = fs
  BY <1>5, SameStep DEF SameTree
<1>6. CASE t = NoIno /\ Moved(fs, fs', sd, sn, td, tn, i)
  <2>1. /\ Named(fs') = Put(Put(Named(fs), td, tn, i), sd, sn, NoIno)
        /\ Kinds(fs') = Kinds(fs)
    BY <1>6 DEF Moved
  <2>2. Kinds(fs') = Left(Kinds(fs), Named(fs'))
    BY <2>1, NodesLeft
  <2> QED
    BY <1>1, <1>2, <1>3, <1>6, <2>1, <2>2, RenameStep
<1>7. CASE /\ t \in Live(fs) \ {i, Root} /\ RenameRefusal(fs, i, t) = "ok"
           /\ \E h : Swept(fs, h, td, tn, t) /\ Moved(h, fs', sd, sn, td, tn, i)
  <2>1. PICK h : Swept(fs, h, td, tn, t) /\ Moved(h, fs', sd, sn, td, tn, i)
    BY <1>7
  <2>2. /\ Named(h) = Put(Named(fs), td, tn, NoIno)
        /\ \A j \in Ino : Kinds(h)[j] = Kinds(fs)[j] \/ Kinds(h)[j] = "none"
    BY <2>1, DroppedKinds DEF Swept, Dropped, DirDropped
  <2>3. /\ Named(fs') = Put(Put(Named(h), td, tn, i), sd, sn, NoIno)
        /\ Kinds(fs') = Kinds(h)
    BY <2>1 DEF Moved
  <2>4. Named(fs') = Put(Put(Named(fs), td, tn, i), sd, sn, NoIno)
    BY <1>1, <1>3, <2>2, <2>3, PutTwice
  <2>5. Kinds(fs') = Left(Kinds(fs), Named(fs'))
    BY <2>2, <2>3, NodesLeft
  <2>6. /\ Kinds(fs)[i] = "dir" <=> IsDir(fs, i)
        /\ Kinds(fs)[t] = "dir" <=> IsDir(fs, t)
    BY <1>2, <1>7, ShapeView
  <2>7. /\ IsDir(fs, i) <=> IsDir(fs, t)
        /\ IsDir(fs, t) => EmptyDir(fs, t)
    BY <1>7 DEF RenameRefusal, do_check_empty_dir, IsDir
  <2>8. Kinds(fs)[t] = "dir" => \A m \in Name : Named(fs)[t][m] = NoIno
    <3>1. t \in Ino
      BY <1>7, ShapeView
    <3> QED
      BY <2>6, <2>7, <3>1, EmptyNames
  <2>9. i # t
    BY <1>7
  <2> QED
    BY <1>1, <1>2, <1>3, <2>4, <2>5, <2>6, <2>7, <2>8, <2>9, RenameStep
<1> QED
  BY <1>1, <1>5, <1>6, <1>7

\* What a request did, as a step of the tree.
LEMMA DidStep ==
    ASSUME Shape(fs), TreeOf(fs), TreeOf(fs'), NEW op, NEW i,
           Did(fs, fs', op, i), ret'.rc = "ok"
    PROVE  Tree!Next
  BY SameStep, MakeDidStep, MkdirDidStep, LinkDidStep, UnlinkDidStep,
     RmdirDidStep, RenameDidStep DEF Did

\* Every step of the daemon is a step of the tree, or none.
LEMMA NextIsTree ==
    ASSUME FiniteDisk, NoFailure, Good(fs, NoIno), Packed(fs),
           TreeOf(fs), TreeOf(fs'), [Next]_vars
    PROVE  [Tree!Next]_(Tree!vars)
<1>0. Shape(fs)
  BY GoodShape
<1>1. CASE UNCHANGED vars
  BY <1>1 DEF vars, Tree!vars
<1>2. CASE Next
  <2>1. Tells(fs, fs', ret', {})
    BY <1>2, NextTellsAll
  <2>2. CASE ret'.rc = "ok"
    <3>1. Did(fs, fs', ret'.op, ret'.ino)
      BY <2>1, <2>2 DEF Tells
    <3> QED
      BY <1>0, <2>2, <3>1, DidStep
  <2>3. CASE ret'.rc # "ok"
    <3>1. SameTree(fs, fs') \/ HalfLink(fs, fs', ret')
      BY <2>1, <2>3 DEF Tells
    <3>2. CASE HalfLink(fs, fs', ret')
      <4>1. DidMake(fs, fs', ret'.ino, "lnk") /\ "lnk" \in Kind \ {"dir"}
        BY <3>2 DEF HalfLink, Kind
      <4> QED
        BY <1>0, <4>1, MakeDidStep
    <3> QED
      BY <3>1, <3>2, SameStep
  <2> QED
    BY <2>2, <2>3
<1> QED
  BY <1>1, <1>2

\* mkfs makes the tree of one root.
LEMMA InitIsTree ==
    ASSUME FiniteDisk, Init
    PROVE  Tree!Init
<1>1. /\ Shape(fs) /\ Kinds(fs)[Root] = "dir"
      /\ \A i \in Ino : i # Root => Kinds(fs)[i] = "none"
      /\ \A d \in Ino, n \in Name : Named(fs)[d][n] = NoIno
  BY MkfsShows
<1>2. Kinds(fs) = [i \in Ino |-> IF i = Root THEN "dir" ELSE "none"]
  <2>1. Kinds(fs) = [i \in Ino |-> Kinds(fs)[i]]
    BY DEF Kinds
  <2> QED
    BY <1>1, <2>1
<1>3. Named(fs) = [d \in Ino |-> [n \in Name |-> NoIno]]
  <2>1. Named(fs) \in [Ino -> [Name -> Ino \cup {NoIno}]]
    BY <1>1, NamedTyped DEF Shape
  <2>2. PICK N : N = Named(fs)
    OBVIOUS
  <2>3. \A d \in Ino : N[d] = [n \in Name |-> NoIno]
    BY <1>1, <2>1, <2>2
  <2> QED
    BY <2>1, <2>2, <2>3
<1>4. ret.rc \notin Error
  BY DEF Init, Error
<1> QED
  BY <1>2, <1>3, <1>4 DEF Tree!Init, Kinds, Named

\* When no call fails, the daemon is the tree POSIX promises: each handler, with
\* all its inodes, blocks and counts, is one step of PosixTree that does what
\* was asked or refuses and changes no name, and what is in use is what has a
\* name.
THEOREM TreeAsPromised ==
    ASSUME FiniteDisk, NoFailure
    PROVE  Spec => ImplementsPosixTree
<1>1. Init => Tree!Init
  BY InitIsTree
<1>2. GoodFS /\ Packed(fs) /\ TreeFS /\ TreeFS' /\ [Next]_vars => [Tree!Next]_(Tree!vars)
  BY NextIsTree DEF GoodFS, TreeFS
<1>3. Spec => []GoodFS
  BY NoSafe, GoodAlways DEF FiniteDisk
<1>4. Spec => []Packed(fs)
  BY BlocksFit DEF FiniteDisk, FiniteNames
<1>5. Spec => []TreeFS
  BY TreeHolds
<1> QED
  BY <1>1, <1>2, <1>3, <1>4, <1>5, PTL DEF Spec, ImplementsPosixTree, Tree!Spec

=============================================================================
