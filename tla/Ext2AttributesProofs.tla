------------------------ MODULE Ext2AttributesProofs ------------------------
(***************************************************************************)
(* stat shows what mknod, chmod, chown and utimens were given, for every   *)
(* set of modes, of owners of 32 bits, of device numbers and of failing    *)
(* calls: Ext2Attributes implements PosixAttr.                             *)
(*                                                                         *)
(* First the arithmetic of the disk format, a number at a time; then what  *)
(* each change of an inode does to what stat shows of it; then the steps.  *)
(*                                                                         *)
(* And statfs is right, for every super block mke2fs can leave: test_root  *)
(* finds the powers of its prime and nothing else, so that the blocks are  *)
(* counted in the groups that have them; group by group, what op_statfs    *)
(* adds up is the size of what the layout takes.                           *)
(***************************************************************************)
EXTENDS Ext2Attributes, FiniteSetTheorems, WellFoundedInduction, TLAPS

-----------------------------------------------------------------------------
(* Numbers *)

LEMMA Units ==
    /\ Perms \in Nat /\ Perms > 0 /\ Half \in Nat /\ Half > 0
    /\ Majors \in Nat /\ Minors \in Nat
  BY SMT DEF Perms, Half, Majors, Minors

LEMMA DeviceParts ==
    ASSUME NEW dev \in DeviceNumber
    PROVE  /\ dev[1] \in Nat /\ dev[2] \in Nat /\ dev[1] < 4096
           /\ dev = <<dev[1], dev[2]>>
<1>1. /\ dev[1] \in 0 .. Majors - 1 /\ dev[2] \in 0 .. Minors - 1
      /\ dev = <<dev[1], dev[2]>>
  BY DEF DeviceNumber
<1>2. dev[1] \in Nat /\ dev[2] \in Nat /\ dev[1] < Majors
  BY <1>1, Units
<1> QED
  BY <1>1, <1>2, SMT DEF Majors

\* op_chmod keeps the type and takes the permissions.
LEMMA ModeParts ==
    ASSUME NEW m \in Nat, NEW n \in Nat, Perms <= m, m <= 16 * Perms - 1,
           NEW k, k = (m - (m % Perms)) + (n % Perms)
    PROVE  /\ k \in Nat /\ Perms <= k /\ k <= 16 * Perms - 1
           /\ k \div Perms = m \div Perms
           /\ k % Perms = n % Perms
  BY SMT DEF Perms

LEMMA TypeNotZero ==
    /\ \A m \in Nat : Perms <= m => m \div Perms # 0
    /\ 0 \div Perms = 0 /\ 0 % Perms = 0
  BY SMT DEF Perms

LEMMA ModesAreModes ==
    \A m \in Perms .. 16 * Perms - 1 :
        m \in Nat /\ Perms <= m /\ m <= 16 * Perms - 1 /\ m # 0 /\ m \div Perms # 0
<1>1. \A m \in Perms .. 16 * Perms - 1 :
        m \in Nat /\ Perms <= m /\ m <= 16 * Perms - 1 /\ m # 0
  BY Units, SMT
<1> QED
  BY <1>1, TypeNotZero

\* An owner of 32 bits in two halves.
LEMMA HalvesJoin ==
    ASSUME NEW u \in Nat, u \div Half < Half
    PROVE  /\ u % Half \in Word
           /\ (u \div Half) % Half \in Word
           /\ ((u \div Half) % Half) * Half + (u % Half) = u
<1>1. /\ Half \in Nat
      /\ u \div Half \in Nat
      /\ u % Half \in Nat /\ u % Half < Half
      /\ (u \div Half) * Half + (u % Half) = u
  BY SMT DEF Half
<1>2. (u \div Half) % Half = u \div Half
  BY <1>1, SMT DEF Half
<1>3. u % Half \in Word /\ u \div Half \in Word
  BY <1>1 DEF Word
<1> QED
  BY <1>1, <1>2, <1>3

\* A device number in 16 bits, and one in 32.
LEMMA SmallParts ==
    ASSUME NEW a \in Nat, NEW b \in Nat, a < 256, b < 256,
           NEW x \in Int, x = a * 256 + b
    PROVE  /\ x \in Nat /\ x % 65536 = x
           /\ (x \div 256) % 256 = a /\ x % 256 = b
           /\ x = 0 => a = 0 /\ b = 0
<1>1. x \in Nat /\ x < 65536 /\ x \div 256 = a /\ x % 256 = b
  BY SMT
<1> QED
  BY <1>1, SMT

LEMMA LargeParts ==
    ASSUME NEW a \in Nat, NEW b \in Nat, a < 4096,
           NEW x \in Int, x = (b % 256) + a * 256 + (b \div 256) * 1048576
    PROVE  /\ x \in Nat
           /\ (x \div 256) % 4096 = a
           /\ (x % 256) + (x \div 1048576) * 256 = b
<1> DEFINE low == b % 256
           high == b \div 256
<1>1. low \in Nat /\ low < 256 /\ high \in Nat /\ b = high * 256 + low
  BY SMT
<1>2. x = low + a * 256 + high * 1048576
  OBVIOUS
<1> HIDE DEF low, high
<1>3. x \in Nat /\ x \div 256 = a + high * 4096
  BY <1>1, <1>2, SMT
<1>4. (x \div 256) % 4096 = a
  BY <1>1, <1>3, SMT
<1>5. x % 256 = low
  BY <1>1, <1>2, SMT
<1>6. x \div 1048576 = high
  BY <1>1, <1>2, SMT
<1> QED
  BY <1>1, <1>3, <1>4, <1>5, <1>6, SMT

-----------------------------------------------------------------------------
(* What stat shows of a changed inode *)

Asked(new, old) == IF new = Keep THEN old ELSE new

OwnersAsked(st, uid, gid) ==
    [[st EXCEPT !.uid = Asked(uid, st.uid)] EXCEPT !.gid = Asked(gid, st.gid)]
TimesAsked(st, atime, mtime) ==
    [[st EXCEPT !.atime = Asked(atime, st.atime)] EXCEPT !.mtime = Asked(mtime, st.mtime)]

LEMMA UidWritten ==
    ASSUME NEW r \in Inode, NEW o \in Owner
    PROVE  /\ ext2_write_uid(r, o) \in Inode
           /\ do_fillstatbuf(ext2_write_uid(r, o)) = [do_fillstatbuf(r) EXCEPT !.uid = o]
<1>1. /\ o % Half \in Word /\ (o \div Half) % Half \in Word
      /\ ((o \div Half) % Half) * Half + (o % Half) = o
  BY OwnerAssumption, HalvesJoin
<1>2. ext2_write_uid(r, o) \in Inode
  BY <1>1 DEF ext2_write_uid, Inode
<1>3. ext2_read_uid(ext2_write_uid(r, o)) = o
  BY <1>1 DEF ext2_write_uid, ext2_read_uid, Inode
<1>4. do_fillstatbuf(ext2_write_uid(r, o)) = [do_fillstatbuf(r) EXCEPT !.uid = o]
  BY <1>3 DEF ext2_write_uid, do_fillstatbuf, ext2_read_gid, Inode
<1> QED
  BY <1>2, <1>4

LEMMA GidWritten ==
    ASSUME NEW r \in Inode, NEW o \in Owner
    PROVE  /\ ext2_write_gid(r, o) \in Inode
           /\ do_fillstatbuf(ext2_write_gid(r, o)) = [do_fillstatbuf(r) EXCEPT !.gid = o]
<1>1. /\ o % Half \in Word /\ (o \div Half) % Half \in Word
      /\ ((o \div Half) % Half) * Half + (o % Half) = o
  BY OwnerAssumption, HalvesJoin
<1>2. ext2_write_gid(r, o) \in Inode
  BY <1>1 DEF ext2_write_gid, Inode
<1>3. ext2_read_gid(ext2_write_gid(r, o)) = o
  BY <1>1 DEF ext2_write_gid, ext2_read_gid, Inode
<1>4. do_fillstatbuf(ext2_write_gid(r, o)) = [do_fillstatbuf(r) EXCEPT !.gid = o]
  BY <1>3 DEF ext2_write_gid, do_fillstatbuf, ext2_read_uid, Inode
<1> QED
  BY <1>2, <1>4

LEMMA Chmodded ==
    ASSUME NEW r \in Inode, r.i_mode # 0, NEW mode \in Mode, NEW tm \in Time
    PROVE  /\ op_chmod(r, mode, tm) \in Inode
           /\ do_fillstatbuf(op_chmod(r, mode, tm)) =
                [do_fillstatbuf(r) EXCEPT !.perm = mode % Perms]
<1> DEFINE k == (r.i_mode - (r.i_mode % Perms)) + (mode % Perms)
<1>1. r.i_mode \in Perms .. 16 * Perms - 1 /\ mode \in Perms .. 16 * Perms - 1
  BY ModeAssumption DEF Inode
<1>2. /\ k \in Nat /\ Perms <= k /\ k <= 16 * Perms - 1
      /\ k \div Perms = r.i_mode \div Perms
      /\ k % Perms = mode % Perms
  BY <1>1, ModesAreModes, ModeParts
<1>3. k \in Perms .. 16 * Perms - 1
  BY <1>2, Units
<1>4. op_chmod(r, mode, tm) = [r EXCEPT !.i_mode = k, !.i_ctime = tm]
  BY DEF op_chmod
<1> HIDE DEF k
<1>5. op_chmod(r, mode, tm) \in Inode
  BY <1>3, <1>4 DEF Inode
<1>6. IsDevice(k) = IsDevice(r.i_mode)
  BY <1>2 DEF IsDevice
<1> QED
  BY <1>2, <1>4, <1>5, <1>6 DEF do_fillstatbuf, Asked, ext2_read_uid, ext2_read_gid, Inode

LEMMA Chowned ==
    ASSUME NEW r \in Inode, NEW uid \in Owner \cup {Keep}, NEW gid \in Owner \cup {Keep},
           NEW tm \in Time
    PROVE  /\ op_chown(r, uid, gid, tm) \in Inode
           /\ do_fillstatbuf(op_chown(r, uid, gid, tm)) =
                OwnersAsked(do_fillstatbuf(r), uid, gid)
<1> DEFINE st == do_fillstatbuf(r)
           u == IF uid = Keep THEN r ELSE ext2_write_uid(r, uid)
           g == IF gid = Keep THEN u ELSE ext2_write_gid(u, gid)
           su == [st EXCEPT !.uid = Asked(uid, st.uid)]
<1>1. /\ u \in Inode
      /\ do_fillstatbuf(u) = su
      /\ su.gid = st.gid
  BY UidWritten DEF do_fillstatbuf, Asked
<1>2. op_chown(r, uid, gid, tm) = [g EXCEPT !.i_ctime = tm]
  BY DEF op_chown
<1> HIDE DEF u, su
<1>3. /\ g \in Inode
      /\ do_fillstatbuf(g) = [su EXCEPT !.gid = Asked(gid, su.gid)]
  <2>1. CASE gid = Keep
    <3>1. su = [su EXCEPT !.gid = su.gid]
      BY <1>1 DEF do_fillstatbuf
    <3> QED
      BY <1>1, <2>1, <3>1 DEF Asked
  <2>2. CASE gid # Keep
    BY <1>1, <2>2, GidWritten DEF Asked
  <2> QED
    BY <2>1, <2>2
<1> HIDE DEF g
<1>4. op_chown(r, uid, gid, tm) \in Inode
  BY <1>2, <1>3 DEF Inode
<1>5. do_fillstatbuf(op_chown(r, uid, gid, tm)) = do_fillstatbuf(g)
  BY <1>2, <1>3 DEF do_fillstatbuf, ext2_read_uid, ext2_read_gid, Inode
<1> QED
  BY <1>1, <1>3, <1>4, <1>5 DEF su, OwnersAsked

LEMMA Utimed ==
    ASSUME NEW r \in Inode, NEW atime \in Time \cup {Keep}, NEW mtime \in Time \cup {Keep},
           NEW st, st = do_fillstatbuf(r)
    PROVE  /\ op_utimens(r, atime, mtime) \in Inode
           /\ do_fillstatbuf(op_utimens(r, atime, mtime)) = TimesAsked(st, atime, mtime)
<1> DEFINE a == [r EXCEPT !.i_atime = Asked(atime, r.i_atime)]
           m == [a EXCEPT !.i_mtime = Asked(mtime, r.i_mtime)]
           sa == [st EXCEPT !.atime = Asked(atime, st.atime)]
<1>1. a \in Inode /\ a.i_mtime = r.i_mtime
  BY DEF Inode, Asked
<1>2. do_fillstatbuf(a) = sa /\ st.mtime = r.i_mtime
  BY DEF do_fillstatbuf, ext2_read_uid, ext2_read_gid, Inode
<1>3. op_utimens(r, atime, mtime) = m
  BY <1>1 DEF op_utimens, Asked
<1> HIDE DEF a, sa
<1>4. m \in Inode
  BY <1>1 DEF Inode, Asked
<1>5. do_fillstatbuf(m) = [sa EXCEPT !.mtime = Asked(mtime, r.i_mtime)]
  BY <1>1, <1>2 DEF do_fillstatbuf, ext2_read_uid, ext2_read_gid, Inode
<1> QED
  BY <1>2, <1>3, <1>4, <1>5 DEF sa, TimesAsked

-----------------------------------------------------------------------------
(* New inodes *)

LEMMA SmallDevice ==
    ASSUME NEW dev \in DeviceNumber, old_valid_dev(dev)
    PROVE  /\ old_encode_dev(dev) \in Nat
           /\ old_encode_dev(dev) = 0 => dev = <<0, 0>>
           /\ old_decode_dev(old_encode_dev(dev) % Half) = dev
<1>1. /\ dev[1] \in Nat /\ dev[2] \in Nat /\ dev[1] < 256 /\ dev[2] < 256
      /\ dev = <<dev[1], dev[2]>>
  BY DeviceParts DEF old_valid_dev
<1> DEFINE x == dev[1] * 256 + dev[2]
<1>2. x \in Int
  BY <1>1, SMT
<1>3. /\ x \in Nat /\ x % 65536 = x
      /\ (x \div 256) % 256 = dev[1] /\ x % 256 = dev[2]
      /\ x = 0 => dev[1] = 0 /\ dev[2] = 0
  BY <1>1, <1>2, SmallParts, SMT
<1> HIDE DEF x
<1>4. old_encode_dev(dev) = x
  BY SMT DEF old_encode_dev, x
<1> QED
  BY <1>1, <1>3, <1>4, SMT DEF old_decode_dev, Half

LEMMA LargeDevice ==
    ASSUME NEW dev \in DeviceNumber
    PROVE  /\ new_encode_dev(dev) \in Nat
           /\ new_decode_dev(new_encode_dev(dev)) = dev
<1>1. /\ dev[1] \in Nat /\ dev[2] \in Nat /\ dev[1] < 4096
      /\ dev = <<dev[1], dev[2]>>
  BY DeviceParts
<1> DEFINE x == (dev[2] % 256) + dev[1] * 256 + (dev[2] \div 256) * 1048576
<1>2. x \in Int
  BY <1>1, SMT
<1>3. /\ x \in Nat
      /\ (x \div 256) % 4096 = dev[1]
      /\ (x % 256) + (x \div 1048576) * 256 = dev[2]
  BY <1>1, <1>2, LargeParts, SMT
<1> HIDE DEF x
<1>4. new_encode_dev(dev) = x
  BY SMT DEF new_encode_dev, x
<1> QED
  BY <1>1, <1>3, <1>4, SMT DEF new_decode_dev

LEMMA BlocksTyped ==
    ASSUME NEW mode, NEW dev \in DeviceNumber
    PROVE  /\ Blocks(mode, dev) \in Nat \X Nat
           /\ LinuxBlocks(mode, dev) \in Nat \X Nat
  BY SmallDevice, LargeDevice, SMT DEF Blocks, LinuxBlocks, ExtentHeader

\* stat shows the number of a device, but one of those in Hidden.
LEMMA DeviceShown ==
    ASSUME NEW mode \in Mode, NEW dev \in Device, IsDevice(mode) \/ dev = <<0, 0>>,
           dev \notin Hidden,
           NEW r, r.i_mode = mode, r.i_block = Blocks(mode, dev)
    PROVE  do_fillstatbuf(r).rdev = dev
<1>1. dev \in DeviceNumber
  BY DeviceAssumption
<1>2. CASE ~ IsDevice(mode)
  BY <1>2 DEF do_fillstatbuf
<1>3. CASE IsDevice(mode) /\ old_valid_dev(dev)
  <2>1. r.i_block[1] = old_encode_dev(dev)
    BY <1>3 DEF Blocks
  <2>2. CASE r.i_block[1] # 0
    BY <1>1, <1>3, <2>1, <2>2, SmallDevice DEF do_fillstatbuf
  <2>3. CASE r.i_block[1] = 0
    <3>1. dev = <<0, 0>>
      BY <1>1, <1>3, <2>1, <2>3, SmallDevice
    <3>2. ~ extents
      BY <3>1 DEF Hidden
    <3>3. r.i_block[2] = 0
      BY <1>3, <3>2 DEF Blocks
    <3>4. new_decode_dev(0) = <<0, 0>>
      BY SMT DEF new_decode_dev
    <3> QED
      BY <1>3, <2>3, <3>1, <3>3, <3>4 DEF do_fillstatbuf
  <2> QED
    BY <2>2, <2>3
<1>4. CASE IsDevice(mode) /\ ~ old_valid_dev(dev)
  <2>1. ~ extents
    BY <1>4 DEF Hidden
  <2>2. r.i_block[1] = 0 /\ r.i_block[2] = new_encode_dev(dev)
    BY <1>4, <2>1 DEF Blocks
  <2> QED
    BY <1>1, <1>4, <2>2, LargeDevice DEF do_fillstatbuf
<1> QED
  BY <1>2, <1>3, <1>4

LEMMA FilledTyped ==
    ASSUME NEW mode \in Mode, NEW uid \in Owner, NEW gid \in Owner,
           NEW block \in Nat \X Nat, NEW tm \in Time,
           NEW r, r = Filled(mode, uid, gid, block, tm)
    PROVE  /\ r \in Inode /\ r.i_mode = mode /\ r.i_block = block
           /\ do_fillstatbuf(r) =
                [type |-> mode \div Perms, perm |-> mode % Perms, uid |-> uid, gid |-> gid,
                 rdev |-> do_fillstatbuf(r).rdev, atime |-> tm, mtime |-> tm]
<1> DEFINE new == NewInode(mode, block, tm)
           u   == ext2_write_uid(new, uid)
<1>1. new \in Inode
  <2>1. mode \in Perms .. 16 * Perms - 1 /\ 0 \in Word
    BY ModeAssumption, Units DEF Word
  <2> QED
    BY <2>1 DEF NewInode, Inode
<1>2. /\ new.i_mode = mode /\ new.i_block = block
      /\ new.i_atime = tm /\ new.i_mtime = tm
  BY DEF NewInode
<1> HIDE DEF new
<1>3. /\ u \in Inode
      /\ do_fillstatbuf(u) = [do_fillstatbuf(new) EXCEPT !.uid = uid]
      /\ u.i_mode = mode /\ u.i_block = block
  BY <1>1, <1>2, UidWritten DEF ext2_write_uid, Inode
<1> HIDE DEF u
<1>4. /\ r \in Inode
      /\ do_fillstatbuf(r) = [do_fillstatbuf(u) EXCEPT !.gid = gid]
      /\ r.i_mode = mode /\ r.i_block = block
  <2>1. r = ext2_write_gid(u, gid)
    BY DEF Filled, u, new
  <2>2. r.i_mode = u.i_mode /\ r.i_block = u.i_block
    <3>1. u \in Inode
      BY <1>3
    <3> QED
      BY <2>1, <3>1 DEF ext2_write_gid, Inode
  <2>3. /\ r \in Inode
        /\ do_fillstatbuf(r) = [do_fillstatbuf(u) EXCEPT !.gid = gid]
    <3>1. u \in Inode
      BY <1>3
    <3>2. /\ ext2_write_gid(u, gid) \in Inode
          /\ do_fillstatbuf(ext2_write_gid(u, gid)) = [do_fillstatbuf(u) EXCEPT !.gid = gid]
      BY <3>1, GidWritten
    <3> QED
      BY <2>1, <3>2, Zenon
  <2> QED
    BY <1>3, <2>2, <2>3
<1>5. /\ do_fillstatbuf(new).type = mode \div Perms
      /\ do_fillstatbuf(new).perm = mode % Perms
      /\ do_fillstatbuf(new).atime = tm
      /\ do_fillstatbuf(new).mtime = tm
  BY <1>2 DEF do_fillstatbuf
<1>6. /\ do_fillstatbuf(r).type = mode \div Perms
      /\ do_fillstatbuf(r).perm = mode % Perms
      /\ do_fillstatbuf(r).uid = uid
      /\ do_fillstatbuf(r).gid = gid
      /\ do_fillstatbuf(r).atime = tm
      /\ do_fillstatbuf(r).mtime = tm
  BY <1>3, <1>4, <1>5 DEF do_fillstatbuf
<1>7. do_fillstatbuf(r) =
        [type |-> do_fillstatbuf(r).type, perm |-> do_fillstatbuf(r).perm,
         uid |-> do_fillstatbuf(r).uid, gid |-> do_fillstatbuf(r).gid,
         rdev |-> do_fillstatbuf(r).rdev,
         atime |-> do_fillstatbuf(r).atime, mtime |-> do_fillstatbuf(r).mtime]
  BY DEF do_fillstatbuf
<1> QED
  BY <1>4, <1>6, <1>7

LEMMA AbsentTyped ==
    Absent \in Inode /\ Absent.i_mode = 0 /\ do_fillstatbuf(Absent).type = 0
<1>1. 0 \in Word /\ 0 \in Time
  BY TimeAssumption, Units DEF Word
<1>2. Absent \in Inode /\ Absent.i_mode = 0
  BY <1>1 DEF Absent, NewInode, Inode
<1> QED
  BY <1>2, TypeNotZero DEF do_fillstatbuf

-----------------------------------------------------------------------------
(* Steps *)

LEMMA Unchanged ==
    ASSUME UNCHANGED <<inode, extents, rw>>
    PROVE  /\ [i \in File |-> do_fillstatbuf(inode[i])]' = [i \in File |-> do_fillstatbuf(inode[i])]
           /\ Hidden' = Hidden
  BY DEF Hidden

LEMMA FailedStep ==
    ASSUME UNCHANGED <<inode, extents, rw>>,
           ret'.rc \in {"EIO", "ENOENT"} \/ ret'.req.op = "statfs"
    PROVE  Attributes!Next
  BY Unchanged DEF Attributes!Next, Attributes!Failed

LEMMA ReadWriteStep ==
    ASSUME TypeOK, NEW q, NEW r, NEW bad, ReadWrite(q, r, bad)
    PROVE  \/ ret'.rc \in {"EIO", "ENOENT"} /\ UNCHANGED <<inode, extents, rw>>
           \/ /\ rw /\ UNCHANGED <<extents, rw>>
              /\ ret' = [req |-> q, rc |-> "ok", st |-> <<>>]
              /\ inode' = [inode EXCEPT ![q.file] = r]
  BY DEF ReadWrite, Answer, do_readinode

LEMMA ReadWriteTyped ==
    ASSUME TypeOK, NEW q, NEW r \in Inode, NEW bad, ReadWrite(q, r, bad)
    PROVE  TypeOK'
<1>1. inode' \in [File -> Inode]
  BY ReadWriteStep DEF TypeOK
<1>2. extents' \in BOOLEAN /\ rw' \in BOOLEAN
  BY DEF ReadWrite, TypeOK
<1>3. ret'.rc \in {"ok", "EIO", "ENOENT", "EACCES"}
  BY ReadWriteStep
<1> QED
  BY <1>1, <1>2, <1>3 DEF TypeOK

\* Writing r to the inode of i shows as what stat makes of r.
LEMMA ChangeStep ==
    ASSUME TypeOK, NEW i \in File, NEW r, NEW a, a = do_fillstatbuf(r),
           inode' = [inode EXCEPT ![i] = r],
           rw, UNCHANGED <<extents, rw>>, ret'.rc = "ok"
    PROVE  Attributes!Changes(i, a)
<1>1. [j \in File |-> do_fillstatbuf(inode[j])]' =
        [[j \in File |-> do_fillstatbuf(inode[j])] EXCEPT ![i] = a]
  BY DEF TypeOK
<1>2. Hidden' = Hidden
  BY DEF Hidden
<1> QED
  BY <1>1, <1>2 DEF Attributes!Changes

LEMMA Shows ==
    ASSUME TypeOK, NEW i \in File, Exists(i)
    PROVE  /\ inode[i] \in Inode /\ inode[i].i_mode # 0
           /\ Attributes!Exists(i)
<1>1. inode[i] \in Inode /\ inode[i].i_mode # 0
  BY DEF TypeOK, Exists
<1>2. inode[i].i_mode \in Perms .. 16 * Perms - 1
  BY <1>1 DEF Inode
<1>3. do_fillstatbuf(inode[i]).type # 0
  BY <1>2, ModesAreModes DEF do_fillstatbuf
<1> QED
  BY <1>1, <1>3 DEF Attributes!Exists

LEMMA Bits ==
    \A mode : Attributes!TypeBits(mode) = mode \div Perms
              /\ Attributes!PermBits(mode) = mode % Perms
  BY SMT DEF Attributes!TypeBits, Attributes!PermBits, Perms

LEMMA ChmodStep ==
    ASSUME TypeOK, NEW i \in File, NEW mode \in Mode, NEW tm \in Time, NEW bad,
           Chmod(i, mode, tm, bad)
    PROVE  TypeOK' /\ Attributes!Next
<1> DEFINE q == [op |-> "chmod", file |-> i, mode |-> mode]
           r == op_chmod(inode[i], mode, tm)
<1>1. /\ inode[i] \in Inode /\ inode[i].i_mode # 0
      /\ Attributes!Exists(i)
  BY Shows DEF Chmod
<1>2. ReadWrite(q, r, bad)
  BY DEF Chmod
<1>3. /\ r \in Inode
      /\ do_fillstatbuf(r) = [do_fillstatbuf(inode[i]) EXCEPT !.perm = mode % Perms]
  BY <1>1, Chmodded
<1>4. q.op = "chmod" /\ q.file = i /\ q.mode = mode
  OBVIOUS
<1> HIDE DEF q, r
<1>5. TypeOK'
  BY <1>2, <1>3, ReadWriteTyped
<1>6. CASE ret'.rc \in {"EIO", "ENOENT"} /\ UNCHANGED <<inode, extents, rw>>
  BY <1>5, <1>6, FailedStep
<1>7. CASE /\ rw /\ UNCHANGED <<extents, rw>>
           /\ ret' = [req |-> q, rc |-> "ok", st |-> <<>>]
           /\ inode' = [inode EXCEPT ![q.file] = r]
  <2>1. Attributes!Changes(i, do_fillstatbuf(r))
    BY <1>4, <1>7, ChangeStep
  <2>2. ret'.req.op = "chmod" /\ ret'.req.mode = mode /\ ret'.req.file = i
    BY <1>4, <1>7
  <2>3. Attributes!Chmod(i)
    BY <1>1, <1>3, <2>1, <2>2, Bits DEF Attributes!Chmod
  <2> QED
    BY <1>5, <2>2, <2>3 DEF Attributes!Next
<1> QED
  BY <1>2, <1>5, <1>6, <1>7, ReadWriteStep

LEMMA ChownStep ==
    ASSUME TypeOK, NEW i \in File, NEW uid \in Owner \cup {Keep}, NEW gid \in Owner \cup {Keep},
           NEW tm \in Time, NEW bad, Chown(i, uid, gid, tm, bad)
    PROVE  TypeOK' /\ Attributes!Next
<1> DEFINE q  == [op |-> "chown", file |-> i, uid |-> uid, gid |-> gid]
           r  == op_chown(inode[i], uid, gid, tm)
           st == do_fillstatbuf(inode[i])
<1>1. /\ inode[i] \in Inode /\ inode[i].i_mode # 0
      /\ Attributes!Exists(i)
  BY Shows DEF Chown
<1>2. ReadWrite(q, r, bad)
  BY DEF Chown
<1>3. /\ r \in Inode
      /\ do_fillstatbuf(r) = OwnersAsked(st, uid, gid)
  BY <1>1, Chowned
<1>4. q.op = "chown" /\ q.file = i /\ q.uid = uid /\ q.gid = gid
  OBVIOUS
<1> HIDE DEF q, r
<1>5. TypeOK'
  BY <1>2, <1>3, ReadWriteTyped
<1>6. CASE ret'.rc \in {"EIO", "ENOENT"} /\ UNCHANGED <<inode, extents, rw>>
  BY <1>5, <1>6, FailedStep
<1>7. CASE /\ rw /\ UNCHANGED <<extents, rw>>
           /\ ret' = [req |-> q, rc |-> "ok", st |-> <<>>]
           /\ inode' = [inode EXCEPT ![q.file] = r]
  <2>1. Attributes!Changes(i, do_fillstatbuf(r))
    BY <1>4, <1>7, ChangeStep
  <2>2. /\ ret'.req.op = "chown" /\ ret'.req.file = i
        /\ ret'.req.uid = uid /\ ret'.req.gid = gid
    BY <1>4, <1>7
  <2>3. do_fillstatbuf(r) = [st EXCEPT !.uid = Attributes!Asked(uid, @),
                                       !.gid = Attributes!Asked(gid, @)]
    BY <1>3 DEF Asked, Attributes!Asked, do_fillstatbuf, OwnersAsked
  <2>4. Attributes!Chown(i)
    BY <1>1, <2>1, <2>2, <2>3 DEF Attributes!Chown
  <2> QED
    BY <1>5, <2>2, <2>4 DEF Attributes!Next
<1> QED
  BY <1>2, <1>5, <1>6, <1>7, ReadWriteStep

LEMMA UtimensStep ==
    ASSUME TypeOK, NEW i \in File, NEW atime \in Time \cup {Keep}, NEW mtime \in Time \cup {Keep},
           NEW bad, Utimens(i, atime, mtime, bad)
    PROVE  TypeOK' /\ Attributes!Next
<1> DEFINE q  == [op |-> "utimens", file |-> i, atime |-> atime, mtime |-> mtime]
           r  == op_utimens(inode[i], atime, mtime)
           st == do_fillstatbuf(inode[i])
<1>1. /\ inode[i] \in Inode /\ inode[i].i_mode # 0
      /\ Attributes!Exists(i)
  BY Shows DEF Utimens
<1>2. ReadWrite(q, r, bad)
  BY DEF Utimens
<1>3. /\ r \in Inode
      /\ do_fillstatbuf(r) = TimesAsked(st, atime, mtime)
  <2>1. inode[i] \in Inode /\ st = do_fillstatbuf(inode[i])
    BY <1>1
  <2> HIDE DEF st
  <2> QED
    BY <2>1, Utimed
<1>4. q.op = "utimens" /\ q.file = i /\ q.atime = atime /\ q.mtime = mtime
  OBVIOUS
<1> HIDE DEF q, r
<1>5. TypeOK'
  BY <1>2, <1>3, ReadWriteTyped
<1>6. CASE ret'.rc \in {"EIO", "ENOENT"} /\ UNCHANGED <<inode, extents, rw>>
  BY <1>5, <1>6, FailedStep
<1>7. CASE /\ rw /\ UNCHANGED <<extents, rw>>
           /\ ret' = [req |-> q, rc |-> "ok", st |-> <<>>]
           /\ inode' = [inode EXCEPT ![q.file] = r]
  <2>1. Attributes!Changes(i, do_fillstatbuf(r))
    BY <1>4, <1>7, ChangeStep
  <2>2. /\ ret'.req.op = "utimens" /\ ret'.req.file = i
        /\ ret'.req.atime = atime /\ ret'.req.mtime = mtime
    BY <1>4, <1>7
  <2>3. do_fillstatbuf(r) = [st EXCEPT !.atime = Attributes!Asked(atime, @),
                                       !.mtime = Attributes!Asked(mtime, @)]
    BY <1>3 DEF Asked, Attributes!Asked, do_fillstatbuf, TimesAsked
  <2>4. Attributes!Utimens(i)
    BY <1>1, <2>1, <2>2, <2>3 DEF Attributes!Utimens
  <2> QED
    BY <1>5, <2>2, <2>4 DEF Attributes!Next
<1> QED
  BY <1>2, <1>5, <1>6, <1>7, ReadWriteStep

LEMMA UnlinkStep ==
    ASSUME TypeOK, NEW i \in File, Unlink(i)
    PROVE  TypeOK' /\ Attributes!Next
<1> DEFINE q == [op |-> "unlink", file |-> i]
<1>1. Attributes!Exists(i)
  BY Shows DEF Unlink
<1>2. ReadWrite(q, Absent, {})
  BY DEF Unlink
<1>3. q.op = "unlink" /\ q.file = i
  OBVIOUS
<1> HIDE DEF q
<1>4. TypeOK'
  BY <1>2, AbsentTyped, ReadWriteTyped
<1>5. CASE ret'.rc \in {"EIO", "ENOENT"} /\ UNCHANGED <<inode, extents, rw>>
  BY <1>4, <1>5, FailedStep
<1>6. CASE /\ rw /\ UNCHANGED <<extents, rw>>
           /\ ret' = [req |-> q, rc |-> "ok", st |-> <<>>]
           /\ inode' = [inode EXCEPT ![q.file] = Absent]
  <2>1. Attributes!Changes(i, do_fillstatbuf(Absent))
    BY <1>3, <1>6, ChangeStep
  <2>2. ret'.req.op = "unlink" /\ ret'.req.file = i
    BY <1>3, <1>6
  <2>3. [j \in File |-> do_fillstatbuf(inode[j])]'[i] = do_fillstatbuf(Absent)
    BY <1>3, <1>6 DEF TypeOK
  <2>4. Attributes!Remove(i)
    BY <1>1, <2>1, <2>2, <2>3, AbsentTyped DEF Attributes!Remove
  <2> QED
    BY <1>4, <2>2, <2>4 DEF Attributes!Next
<1> QED
  BY <1>2, <1>4, <1>5, <1>6, ReadWriteStep

LEMMA MknodStep ==
    ASSUME TypeOK, NEW i \in File, NEW mode \in Mode, NEW dev \in Device,
           NEW uid \in Owner, NEW gid \in Owner, NEW tm \in Time,
           Mknod(i, mode, dev, uid, gid, tm)
    PROVE  TypeOK' /\ Attributes!Next
<1> DEFINE q == [op |-> "mknod", file |-> i, mode |-> mode, dev |-> dev,
                 uid |-> uid, gid |-> gid]
           r == Filled(mode, uid, gid, Blocks(mode, dev), tm)
           a == [type |-> mode \div Perms, perm |-> mode % Perms, uid |-> uid, gid |-> gid,
                 rdev |-> do_fillstatbuf(r).rdev, atime |-> tm, mtime |-> tm]
<1>1. ~ Attributes!Exists(i)
  <2>1. inode[i].i_mode = 0
    BY DEF Mknod, Exists
  <2>2. do_fillstatbuf(inode[i]).type = 0
    BY <2>1, TypeNotZero DEF do_fillstatbuf
  <2> QED
    BY <2>2 DEF Attributes!Exists
<1>2. ReadWrite(q, r, {})
  BY DEF Mknod
<1>3. Blocks(mode, dev) \in Nat \X Nat
  BY BlocksTyped, DeviceAssumption
<1>4. /\ r \in Inode /\ r.i_mode = mode /\ r.i_block = Blocks(mode, dev)
      /\ do_fillstatbuf(r) = a
  BY <1>3, FilledTyped
<1>5. a.rdev = dev \/ dev \in Hidden
  <2>1. IsDevice(mode) \/ dev = <<0, 0>>
    BY DEF Mknod
  <2>2. dev \notin Hidden => do_fillstatbuf(r).rdev = dev
    BY <1>4, <2>1, DeviceShown
  <2> QED
    BY <2>2
<1>6. /\ q.op = "mknod" /\ q.file = i /\ q.mode = mode /\ q.dev = dev
      /\ q.uid = uid /\ q.gid = gid
  OBVIOUS
<1> HIDE DEF q, r
<1>7. TypeOK'
  BY <1>2, <1>4, ReadWriteTyped
<1>8. CASE ret'.rc \in {"EIO", "ENOENT"} /\ UNCHANGED <<inode, extents, rw>>
  BY <1>7, <1>8, FailedStep
<1>9. CASE /\ rw /\ UNCHANGED <<extents, rw>>
           /\ ret' = [req |-> q, rc |-> "ok", st |-> <<>>]
           /\ inode' = [inode EXCEPT ![q.file] = r]
  <2>1. Attributes!Changes(i, do_fillstatbuf(r))
    BY <1>6, <1>9, ChangeStep
  <2>2. /\ ret'.req.op = "mknod" /\ ret'.req.file = i /\ ret'.req.mode = mode
        /\ ret'.req.dev = dev /\ ret'.req.uid = uid /\ ret'.req.gid = gid
    BY <1>6, <1>9
  <2>3. [j \in File |-> do_fillstatbuf(inode[j])]'[i] = a
    BY <1>4, <1>6, <1>9 DEF TypeOK
  <2>4. a.rdev \in {dev, [j \in File |-> do_fillstatbuf(inode[j])]'[i].rdev}
    BY <2>3
  <2>5. a = [type |-> Attributes!TypeBits(mode), perm |-> Attributes!PermBits(mode),
             uid |-> uid, gid |-> gid, rdev |-> a.rdev, atime |-> tm, mtime |-> tm]
    BY Bits
  <2> HIDE DEF a
  <2>6. Attributes!Make(i)
    BY <1>1, <1>4, <1>5, <2>1, <2>2, <2>4, <2>5 DEF Attributes!Make
  <2> QED
    BY <1>7, <2>2, <2>6 DEF Attributes!Next
<1> QED
  BY <1>2, <1>7, <1>8, <1>9, ReadWriteStep

LEMMA ReaderTyped ==
    ASSUME TypeOK, UNCHANGED <<inode, extents, rw>>,
           ret'.rc \in {"ok", "EIO", "ENOENT", "EACCES"}
    PROVE  TypeOK'
  BY DEF TypeOK

LEMMA GetattrStep ==
    ASSUME TypeOK, NEW i \in File, NEW bad, Getattr(i, bad)
    PROVE  TypeOK' /\ Attributes!Next
<1>1. UNCHANGED <<inode, extents, rw>>
  BY DEF Getattr
<1>2. CASE do_readinode(bad) # "ok"
  <2>1. ret'.rc \in {"EIO", "ENOENT"}
    BY <1>2 DEF Getattr, Answer, do_readinode
  <2> QED
    BY <1>1, <2>1, FailedStep, ReaderTyped
<1>3. CASE do_readinode(bad) = "ok"
  <2>1. /\ ret'.rc = "ok" /\ ret'.req.op = "getattr" /\ ret'.req.file = i
        /\ ret'.st = do_fillstatbuf(inode[i])
    BY <1>3 DEF Getattr, Answer
  <2>2. Attributes!Exists(i)
    BY Shows DEF Getattr
  <2>3. Attributes!Stat(i)
    BY <1>1, <2>1, <2>2, Unchanged DEF Attributes!Stat
  <2> QED
    BY <1>1, <2>1, <2>3, ReaderTyped DEF Attributes!Next
<1> QED
  BY <1>2, <1>3

LEMMA AccessStep ==
    ASSUME TypeOK, NEW write \in BOOLEAN, op_access(write)
    PROVE  TypeOK' /\ Attributes!Next
<1>1. UNCHANGED <<inode, extents, rw>>
  BY DEF op_access
<1>2. /\ ret'.rc = IF write /\ ~ rw THEN "EACCES" ELSE "ok"
      /\ ret'.req.op = "access" /\ ret'.req.write = write
  BY DEF op_access, Answer
<1>3. Attributes!Access
  BY <1>1, <1>2, Unchanged DEF Attributes!Access
<1> QED
  BY <1>1, <1>2, <1>3, ReaderTyped DEF Attributes!Next

LEMMA StatfsStep ==
    ASSUME TypeOK, NEW s \in Super, Statfs(s)
    PROVE  TypeOK' /\ Attributes!Next
<1>1. UNCHANGED <<inode, extents, rw>>
  BY DEF Statfs
<1>2. ret'.rc = "ok" /\ ret'.req.op = "statfs"
  BY DEF Statfs, Answer
<1> QED
  BY <1>1, <1>2, FailedStep, ReaderTyped

LEMMA StepOK ==
    ASSUME TypeOK, Next
    PROVE  TypeOK' /\ Attributes!Next
<1>1. CASE \E i \in File, mode \in Mode, dev \in Device, uid, gid \in Owner, tm \in Time :
            Mknod(i, mode, dev, uid, gid, tm)
  BY <1>1, MknodStep
<1>2. CASE \E i \in File, bad \in Faults : Change(i, bad)
  BY <1>2, ChmodStep, ChownStep, UtimensStep DEF Change
<1>3. CASE \E i \in File, bad \in Faults : Getattr(i, bad) \/ Fgetattr(i, bad)
  BY <1>3, GetattrStep DEF Fgetattr
<1>4. CASE \E i \in File : Unlink(i)
  BY <1>4, UnlinkStep
<1>5. CASE \E write \in BOOLEAN : op_access(write)
  BY <1>5, AccessStep
<1>6. CASE \E s \in Super : Statfs(s)
  BY <1>6, StatfsStep
<1> QED
  BY <1>1, <1>2, <1>3, <1>4, <1>5, <1>6 DEF Next

LEMMA InitTyped == Init => TypeOK
<1> SUFFICES ASSUME Init PROVE TypeOK
  OBVIOUS
<1>1. PICK dev \in Device, mode \in Mode, uid \in Owner, gid \in Owner, tm \in Time :
        inode \in [File -> {Absent, Filled(mode, uid, gid, LinuxBlocks(mode, dev), tm)}]
  BY DEF Init
<1>2. Filled(mode, uid, gid, LinuxBlocks(mode, dev), tm) \in Inode
  BY BlocksTyped, DeviceAssumption, FilledTyped
<1>3. inode \in [File -> Inode]
  BY <1>1, <1>2, AbsentTyped
<1>4. extents \in BOOLEAN /\ rw \in BOOLEAN
  BY DEF Init
<1>5. ret.rc = "ok"
  BY DEF Init
<1> QED
  BY <1>3, <1>4, <1>5 DEF TypeOK

-----------------------------------------------------------------------------
(* statfs: division *)

\* Division, for a divisor that is no numeral.
LEMMA DivisionStep ==
    ASSUME NEW x \in Int, NEW d \in Int, d > 0,
           NEW q \in Int, NEW r \in Int, q = x \div d, r = x % d
    PROVE  x = d * q + r
  BY SMT

LEMMA Quotient ==
    ASSUME NEW x \in Nat, NEW d \in Nat, d > 0
    PROVE  \E q, r \in Nat :
             q = x \div d /\ r = x % d /\ r < d /\ x = d * q + r
<1>1. x \div d \in Int /\ x % d \in Nat /\ x % d < d
  BY SMT
<1>2. x \div d >= 0
  BY SMT
<1>3. PICK q \in Nat, r \in Nat : q = x \div d /\ r = x % d /\ r < d
  BY <1>1, <1>2
<1>4. x = d * q + r
  BY <1>3, DivisionStep
<1> QED
  BY <1>3, <1>4

\* A number less than d is a multiple of d only when it is 0.
LEMMA NoMultiple ==
    ASSUME NEW r \in Nat, NEW d \in Nat, r < d, NEW e \in Int, r = d * e
    PROVE  r = 0
<1>1. CASE e >= 1
  <2>1. d * e >= d
    BY <1>1, SMT
  <2> QED
    BY <2>1
<1>2. CASE e <= -1
  <2>1. d * e <= -d
    BY <1>2, SMT
  <2> QED
    BY <2>1
<1>3. CASE e = 0
  BY <1>3
<1> QED
  BY <1>1, <1>2, <1>3

\* A multiple of d leaves no remainder.
LEMMA MultipleLeavesNothing ==
    ASSUME NEW d \in Nat, d > 0, NEW m \in Nat
    PROVE  (d * m) % d = 0
<1> DEFINE y == d * m
           r == y % d
           q == y \div d
<1>1. y \in Nat
  BY SMT
<1> HIDE DEF y, q, r
<1>2. q \in Nat /\ r \in Nat /\ r < d /\ y = d * q + r
  BY <1>1, Quotient DEF q, r
<1>3. y = d * m
  BY DEF y
<1>4. r = d * (m - q)
  BY <1>1, <1>2, <1>3, SMT
<1>5. r = 0
  BY <1>2, <1>4, NoMultiple, m - q \in Int
<1> QED
  BY <1>5 DEF r, y

\* Euclid's lemma for the primes of ext2_group_spare.
LEMMA PrimeDivides ==
    ASSUME NEW b \in {3, 5, 7}, NEW d \in Nat, NEW k \in Nat, NEW y \in Nat,
           d * k = b * y, d % b # 0
    PROVE  k % b = 0
<1> DEFINE q == d \div b
           r == d % b
           p == k \div b
           s == k % b
           t == q * k
<1>1. /\ q \in Nat /\ r \in 1 .. b - 1 /\ d = b * q + r
      /\ p \in Nat /\ s \in 0 .. b - 1 /\ k = b * p + s
  BY SMT
<1>2. t \in Nat
  BY <1>1, SMT
<1>3. d * k = b * t + r * k
  BY <1>1, SMT
<1>4. r * k = b * (r * p) + r * s
  BY <1>1, SMT
<1> DEFINE u == y - t - r * p
<1>5. u \in Int /\ r * s = b * u
  BY <1>1, <1>2, <1>3, <1>4, SMT
<1> HIDE DEF q, r, p, s, t, u
<1>6. CASE b = 3
  BY <1>1, <1>5, <1>6, SMT DEF s
<1>7. CASE b = 5
  <2>1. s = 0
    <3>1. CASE r = 1 BY <1>1, <1>5, <1>7, <3>1, SMT
    <3>2. CASE r = 2 BY <1>1, <1>5, <1>7, <3>2, SMT
    <3>3. CASE r = 3 BY <1>1, <1>5, <1>7, <3>3, SMT
    <3>4. CASE r = 4 BY <1>1, <1>5, <1>7, <3>4, SMT
    <3> QED BY <1>1, <1>7, <3>1, <3>2, <3>3, <3>4, SMT
  <2> QED BY <2>1 DEF s
<1>8. CASE b = 7
  <2>1. s = 0
    <3>1. CASE r = 1 BY <1>1, <1>5, <1>8, <3>1, SMT
    <3>2. CASE r = 2 BY <1>1, <1>5, <1>8, <3>2, SMT
    <3>3. CASE r = 3 BY <1>1, <1>5, <1>8, <3>3, SMT
    <3>4. CASE r = 4 BY <1>1, <1>5, <1>8, <3>4, SMT
    <3>5. CASE r = 5 BY <1>1, <1>5, <1>8, <3>5, SMT
    <3>6. CASE r = 6 BY <1>1, <1>5, <1>8, <3>6, SMT
    <3> QED BY <1>1, <1>8, <3>1, <3>2, <3>3, <3>4, <3>5, <3>6, SMT
  <2> QED BY <2>1 DEF s
<1> QED
  BY <1>6, <1>7, <1>8

-----------------------------------------------------------------------------
(* test_root *)

\* The powers of a prime, as test_root finds them: it divides, as long as it can.
LEMMA PowersStart ==
    ASSUME NEW b \in {3, 5, 7}
    PROVE  /\ \A x \in Nat : x < b => ~ PowerOf(b, x)
           /\ PowerOf(b, b)
<1>1. ASSUME NEW x \in Nat, x < b, PowerOf(b, x) PROVE FALSE
  <2>1. x \in 2 .. x /\ x % x = 0 /\ x % b = x
    BY <1>1, SMT DEF PowerOf
  <2>2. x % b = 0
    BY <1>1, <2>1 DEF PowerOf
  <2> QED
    BY <2>1, <2>2, SMT
<1>2. \A d \in 2 .. b : b % d = 0 => d % b = 0
  <2>1. CASE b = 3
    <3>1. 2 .. 3 = {2, 3} BY SMT
    <3> QED BY <2>1, <3>1, SMT
  <2>2. CASE b = 5
    <3>1. 2 .. 5 = {2, 3, 4, 5} BY SMT
    <3> QED BY <2>2, <3>1, SMT
  <2>3. CASE b = 7
    <3>1. 2 .. 7 = {2, 3, 4, 5, 6, 7} BY SMT
    <3> QED BY <2>3, <3>1, SMT
  <2> QED
    BY <2>1, <2>2, <2>3
<1> QED
  BY <1>1, <1>2 DEF PowerOf

\* The cases of test_root: no multiple of b is no power ...
LEMMA PowersAreMultiples ==
    ASSUME NEW b \in {3, 5, 7}, NEW x \in Nat, PowerOf(b, x)
    PROVE  x % b = 0
<1>1. x > 1
  BY DEF PowerOf
<1>2. x \in 2 .. x
  BY <1>1, SMT
<1>3. x % x = 0
  BY <1>1, SMT
<1> QED
  BY <1>2, <1>3 DEF PowerOf

\* ... and a multiple is one when its quotient is.
LEMMA PowersDivide ==
    ASSUME NEW b \in {3, 5, 7}, NEW x \in Nat, NEW y \in Nat, x = b * y, y > 1
    PROVE  PowerOf(b, x) <=> PowerOf(b, y)
<1>1. ASSUME PowerOf(b, x), NEW d \in 2 .. y, y % d = 0 PROVE d % b = 0
  <2>1. d \in Nat /\ d > 0
    BY SMT
  <2>2. PICK m \in Nat : y = d * m
    BY <1>1, <2>1, Quotient, SMT
  <2>3. x = d * (b * m) /\ b * m \in Nat
    BY <2>1, <2>2, SMT
  <2>4. x % d = 0
    BY <2>1, <2>3, MultipleLeavesNothing
  <2>5. d \in 2 .. x
    BY SMT
  <2> QED
    BY <1>1, <2>4, <2>5 DEF PowerOf
<1>2. ASSUME PowerOf(b, y), NEW d \in 2 .. x, x % d = 0, d % b # 0 PROVE FALSE
  <2>1. d \in Nat /\ d > 0 /\ d > 1
    BY SMT
  <2>2. PICK k \in Nat : x = d * k
    BY <1>2, <2>1, Quotient, SMT
  <2>3. k % b = 0
    <3>1. d * k = b * y
      BY <2>2
    <3> QED
      BY <1>2, <2>1, <3>1, PrimeDivides
  <2>4. PICK m \in Nat : k = b * m
    BY <2>3, SMT
  <2>5. y = d * m
    <3> DEFINE n == d * m
    <3>1. n \in Nat /\ d * k = b * n
      BY <2>1, <2>4, SMT
    <3> HIDE DEF n
    <3>2. y = n
      BY <2>2, <3>1, SMT
    <3> QED BY <3>2 DEF n
  <2>6. y % d = 0
    BY <2>1, <2>5, MultipleLeavesNothing
  <2>7. m > 0
    BY <2>1, <2>5, SMT
  <2>8. d <= y
    BY <2>1, <2>5, <2>7, SMT
  <2>9. d \in 2 .. y
    BY <2>1, <2>8
  <2> QED
    BY <1>2, <2>6, <2>9 DEF PowerOf
<1>3. x > 1
  BY SMT
<1> QED
  BY <1>1, <1>2, <1>3 DEF PowerOf

\* One round of test_root.
RootStep(b, f) ==
    [x \in Nat |-> IF x < b THEN FALSE
                   ELSE IF x = b THEN TRUE
                   ELSE IF x % b # 0 THEN FALSE
                   ELSE f[x \div b]]

\* What it should come to.
PowersOf(b) == [x \in Nat |-> PowerOf(b, x)]

\* The quotient test_root goes on with.
LEMMA QuotientSmaller ==
    ASSUME NEW b \in {3, 5, 7}, NEW x \in Nat, ~ (x < b), x # b, x % b = 0
    PROVE  x \div b \in Nat /\ x \div b < x /\ x \div b > 1 /\ x = b * (x \div b)
  BY SMT

\* The powers satisfy the recursion of test_root ...
LEMMA PowersAreRoots ==
    ASSUME NEW b \in {3, 5, 7}
    PROVE  PowersOf(b) = RootStep(b, PowersOf(b))
<1> SUFFICES ASSUME NEW x \in Nat
             PROVE PowersOf(b)[x] = RootStep(b, PowersOf(b))[x]
  BY Zenon DEF PowersOf, RootStep
<1> DEFINE P == PowersOf(b)
           R == RootStep(b, P)
<1>1. P[x] = PowerOf(b, x)
  BY Zenon DEF PowersOf
<1>2. CASE x < b
  <2>1. PowerOf(b, x) = FALSE
    BY <1>2, PowersStart DEF PowerOf
  <2>2. R[x] = FALSE
    BY <1>2, Zenon DEF RootStep
  <2> QED BY <1>1, <2>1, <2>2, Zenon
<1>3. CASE x = b
  <2>1. PowerOf(b, x) = TRUE
    BY <1>3, PowersStart DEF PowerOf
  <2>2. ~ (x < b)
    BY <1>3, SMT
  <2>3. R[x] = TRUE
    BY <1>3, <2>2, Zenon DEF RootStep
  <2> QED BY <1>1, <2>1, <2>3, Zenon
<1>4. CASE ~ (x < b) /\ x # b /\ x % b # 0
  <2>1. PowerOf(b, x) = FALSE
    BY <1>4, PowersAreMultiples DEF PowerOf
  <2>2. R[x] = FALSE
    BY <1>4, Zenon DEF RootStep
  <2> QED BY <1>1, <2>1, <2>2, Zenon
<1>5. CASE ~ (x < b) /\ x # b /\ x % b = 0
  <2>1. PICK y \in Nat : y = x \div b /\ x = b * y /\ y > 1
    BY <1>5, QuotientSmaller
  <2>2. PowerOf(b, x) = PowerOf(b, y)
    BY <2>1, PowersDivide DEF PowerOf
  <2>3. R[x] = P[y]
    BY <1>5, <2>1, Zenon DEF RootStep
  <2>4. P[y] = PowerOf(b, y)
    BY Zenon DEF PowersOf
  <2> QED BY <1>1, <2>2, <2>3, <2>4, Zenon
<1> QED
  BY <1>2, <1>3, <1>4, <1>5

\* Sets of numbers have a least element, and so the numbers have induction.
LEMMA LeastNat ==
    ASSUME NEW T, T \subseteq Nat, T # {}
    PROVE  \E x \in T : \A y \in T : x <= y
<1>1. PICK x \in T : \A y \in T : ~ (<<y, x>> \in OpToRel(<, Nat))
  BY NatLessThanWellFounded, WFMin
<1>2. \A y \in T : ~ (y < x)
  BY <1>1 DEF OpToRel
<1> QED
  BY <1>2

\* ... and nothing else does.
LEMMA RootsAgree ==
    ASSUME NEW b \in {3, 5, 7}, NEW f, NEW g,
           f = RootStep(b, f), g = RootStep(b, g), NEW a \in Nat
    PROVE  f[a] = g[a]
<1> SUFFICES ASSUME f[a] # g[a] PROVE FALSE
  OBVIOUS
<1> DEFINE T == {x \in Nat : f[x] # g[x]}
<1>1. T # {} /\ T \subseteq Nat
  OBVIOUS
<1> HIDE DEF T
<1>2. PICK x \in T : \A y \in T : x <= y
  BY <1>1, LeastNat
<1>3. x \in Nat /\ f[x] # g[x]
  BY <1>2 DEF T
<1>4. /\ f[x] = RootStep(b, f)[x]
      /\ g[x] = RootStep(b, g)[x]
  BY Zenon
<1>5. ~ (x < b)
  BY <1>3, <1>4, Zenon DEF RootStep
<1>6. x # b
  BY <1>3, <1>4, Zenon DEF RootStep
<1>7. x % b = 0
  BY <1>3, <1>4, Zenon DEF RootStep
<1>8. PICK y \in Nat : y = x \div b /\ y < x
  BY <1>3, <1>5, <1>6, <1>7, QuotientSmaller
<1>9. RootStep(b, f)[x] = f[y] /\ RootStep(b, g)[x] = g[y]
  BY <1>3, <1>5, <1>6, <1>7, <1>8, Zenon DEF RootStep
<1>10. y \in T
  BY <1>3, <1>4, <1>8, <1>9, Zenon DEF T
<1>11. x <= y
  BY <1>2, <1>10
<1> QED
  BY <1>3, <1>8, <1>11

\* test_root finds the powers of b.
LEMMA TestRoot ==
    ASSUME NEW b \in {3, 5, 7}, NEW a \in Nat
    PROVE  test_root(a, b) = PowerOf(b, a)
<1> DEFINE root == CHOOSE f : f = RootStep(b, f)
<1>1. root = RootStep(b, root)
  BY PowersAreRoots
<1> HIDE DEF root
<1>2. root[a] = PowersOf(b)[a]
  <2>1. PICK r : r = root
    OBVIOUS
  <2>2. PICK p : p = PowersOf(b)
    OBVIOUS
  <2>3. r = RootStep(b, r)
    BY <1>1, <2>1, Zenon
  <2>4. p = RootStep(b, p)
    BY PowersAreRoots, <2>2, Zenon
  <2>5. r[a] = p[a]
    BY <2>3, <2>4, RootsAgree
  <2> QED
    BY <2>1, <2>2, <2>5, Zenon
<1>3. PowersOf(b)[a] = PowerOf(b, a)
  BY Zenon DEF PowersOf
<1>4. test_root(a, b) = root[a]
  BY Zenon DEF test_root, RootStep, root
<1> QED
  BY <1>2, <1>3, <1>4, Zenon

\* ext2_bg_has_super finds the groups of the layout that back it up.
LEMMA SpareGroups ==
    ASSUME NEW s \in SuperBlock, NEW g \in Nat
    PROVE  ext2_bg_has_super(s, g) = IF Backup(s, g) THEN 1 ELSE 0
<1>1. \A b \in {3, 5, 7} : test_root(g, b) <=> PowerOf(b, g)
  BY TestRoot
<1>2. ext2_group_spare(g) <=> g <= 1 \/ \E b \in {3, 5, 7} : PowerOf(b, g)
  BY <1>1, Zenon DEF ext2_group_spare
<1>3. g <= 1 <=> g \in {0, 1}
  BY SMT
<1>4. Backup(s, g) <=> ~ (s.sparse /\ ~ ext2_group_spare(g))
  BY <1>2, <1>3, Zenon DEF Backup
<1> QED
  BY <1>4, Zenon DEF ext2_bg_has_super

LEMMA Induction ==
    ASSUME NEW S, 0 \in S, \A n \in Nat : n \in S => n + 1 \in S
    PROVE  \A n \in Nat : n \in S
<1> SUFFICES ASSUME Nat \ S # {} PROVE FALSE
  OBVIOUS
<1>1. PICK x \in Nat \ S : \A y \in Nat \ S : x <= y
  BY LeastNat
<1>2. x # 0 /\ x - 1 \in Nat /\ x - 1 \in S
  BY <1>1
<1> QED
  BY <1>1, <1>2

-----------------------------------------------------------------------------
(* The blocks of the layout, group by group *)

\* The blocks of the inodes of a group.
Table(s) == s.inodes_per_group \div s.inodes_per_block

LEMMA QuotientIsNat ==
    ASSUME NEW x \in Nat, NEW d \in Nat, d > 0
    PROVE  x \div d \in Nat
<1>1. PICK q \in Nat : q = x \div d
  BY Quotient
<1> QED
  BY <1>1

\* The numbers op_statfs makes of a super block are natural numbers.
LEMMA SuperTypes ==
    ASSUME NEW s \in SuperBlock, s.first < s.blocks
    PROVE  /\ s.first \in Nat /\ s.blocks \in Nat /\ s.per_group \in Nat
           /\ s.free \in Nat /\ s.reserved \in Nat
           /\ Table(s) \in Nat /\ Groups(s) \in Nat /\ GdbCount(s) \in Nat
<1>1. /\ s.first \in Nat /\ s.blocks \in Nat /\ s.free \in Nat /\ s.reserved \in Nat
      /\ s.inodes_per_group \in Nat
      /\ s.per_group \in Nat /\ s.per_group > 0
      /\ s.desc_per_block \in Nat /\ s.desc_per_block > 0
      /\ s.inodes_per_block \in Nat /\ s.inodes_per_block > 0
  BY SMT DEF SuperBlock
<1>2. Table(s) \in Nat
  BY <1>1, QuotientIsNat DEF Table
<1>3. Groups(s) \in Nat
  <2>1. PICK x \in Nat : x = s.blocks - s.first - 1
    BY <1>1
  <2>2. x \div s.per_group \in Nat
    BY <1>1, QuotientIsNat
  <2> QED
    BY <2>1, <2>2 DEF Groups
<1>4. GdbCount(s) \in Nat
  <2>1. PICK x \in Nat : x = Groups(s) + s.desc_per_block - 1
    BY <1>1, <1>3
  <2>2. x \div s.desc_per_block \in Nat
    BY <1>1, QuotientIsNat
  <2> QED
    BY <2>1, <2>2 DEF GdbCount
<1> QED
  BY <1>1, <1>2, <1>3, <1>4

\* The groups before n that back the super block up, the blocks of group g
\* that op_statfs takes off, and all it took off in the groups before n.
Backups(s, n) == {g \in 0 .. n - 1 : Backup(s, g)}
OffOf(s, g)   == UNION {Parts(s, g)[p] : p \in {1, 3, 4, 5}}
Off(s, n)     == (0 .. s.first - 1) \cup UNION {OffOf(s, g) : g \in 0 .. n - 1}

\* The invariant of the loop that adds them up.
CountedTo(s, n) ==
    /\ IsFiniteSet(Backups(s, n))
    /\ IsFiniteSet(Off(s, n))
    /\ Cardinality(Off(s, n)) =
         s.first + Cardinality(Backups(s, n)) * (1 + GdbCount(s)) + n * (2 + Table(s))

\* The parts of a group, by their numbers.
LEMMA PartsOf ==
    ASSUME NEW s, NEW g
    PROVE  /\ Parts(s, g)[1] = GroupStart(s, g) ..
                 GroupStart(s, g) + (IF Backup(s, g) THEN 1 + GdbCount(s) ELSE 0) - 1
           /\ Parts(s, g)[3] = {s.group_desc[g + 1].bg_block_bitmap}
           /\ Parts(s, g)[4] = {s.group_desc[g + 1].bg_inode_bitmap}
           /\ Parts(s, g)[5] = s.group_desc[g + 1].bg_inode_table ..
                 s.group_desc[g + 1].bg_inode_table + Table(s) - 1
  BY DEF Parts, Table

\* A range that starts somewhere and is so long.
LEMMA Stretch ==
    ASSUME NEW from \in Nat, NEW len \in Nat
    PROVE  IsFiniteSet(from .. from + len - 1) /\ Cardinality(from .. from + len - 1) = len
<1>1. PICK to \in Int : to = from + len - 1
  OBVIOUS
<1>2. /\ IsFiniteSet(from .. to)
      /\ Cardinality(from .. to) = IF from > to THEN 0 ELSE to - from + 1
  BY FS_Interval
<1> QED
  BY <1>1, <1>2

\* Two sets with nothing in common.
LEMMA Together ==
    ASSUME NEW A, NEW B, IsFiniteSet(A), IsFiniteSet(B), A \cap B = {}
    PROVE  IsFiniteSet(A \cup B) /\ Cardinality(A \cup B) = Cardinality(A) + Cardinality(B)
<1>1. Cardinality(A \cap B) = 0
  BY FS_EmptySet
<1>2. Cardinality(A) \in Nat /\ Cardinality(B) \in Nat
  BY FS_CardinalityType
<1>3. /\ IsFiniteSet(A \cup B)
      /\ Cardinality(A \cup B) = Cardinality(A) + Cardinality(B) - Cardinality(A \cap B)
  BY FS_Union, Zenon
<1> QED
  BY <1>1, <1>2, <1>3

\* The blocks op_statfs takes off for one group.
LEMMA OffCounted ==
    ASSUME NEW s \in SuperBlock, Consistent(s), NEW n \in 0 .. Groups(s) - 1
    PROVE  /\ IsFiniteSet(OffOf(s, n))
           /\ Cardinality(OffOf(s, n)) =
                (IF Backup(s, n) THEN 1 + GdbCount(s) ELSE 0) + 2 + Table(s)
<1> DEFINE width == IF Backup(s, n) THEN 1 + GdbCount(s) ELSE 0
           d     == s.group_desc[n + 1]
           P     == Parts(s, n)
<1>1. s.first < s.blocks
  BY DEF Consistent
<1>2. /\ width \in Nat /\ GroupStart(s, n) \in Nat /\ Table(s) \in Nat
  <2>1. /\ s.first \in Nat /\ s.per_group \in Nat /\ GdbCount(s) \in Nat
        /\ Table(s) \in Nat /\ n \in Nat
    BY <1>1, SuperTypes, SMT
  <2>2. GroupStart(s, n) \in Nat
    BY <2>1, SMT DEF GroupStart
  <2> QED
    BY <2>1, <2>2
<1>3. d.bg_inode_table \in Nat
  <2>1. s.group_desc \in Seq(GroupDesc)
    BY DEF SuperBlock
  <2>2. Len(s.group_desc) = Groups(s) /\ Groups(s) \in Nat
    BY <1>1, SuperTypes DEF Consistent
  <2>3. n + 1 \in 1 .. Len(s.group_desc)
    BY <2>2
  <2>4. d \in GroupDesc
    BY <2>1, <2>3
  <2> QED
    BY <2>4 DEF GroupDesc
<1>4. \A p, q \in 1 .. 5 : p # q => P[p] \cap P[q] = {}
  BY DEF Consistent
<1>5. IsFiniteSet(P[1]) /\ Cardinality(P[1]) = width
  <2>1. P[1] = GroupStart(s, n) .. GroupStart(s, n) + width - 1
    BY PartsOf
  <2> HIDE DEF width, P
  <2> QED
    BY <1>2, <2>1, Stretch
<1>6. IsFiniteSet(P[3]) /\ Cardinality(P[3]) = 1 /\ IsFiniteSet(P[4]) /\ Cardinality(P[4]) = 1
  <2>1. P[3] = {d.bg_block_bitmap} /\ P[4] = {d.bg_inode_bitmap}
    BY PartsOf
  <2> HIDE DEF P
  <2>2. \A x : IsFiniteSet({x}) /\ Cardinality({x}) = 1
    BY FS_Singleton
  <2> QED
    BY <2>1, <2>2
<1>7. IsFiniteSet(P[5]) /\ Cardinality(P[5]) = Table(s)
  <2>1. P[5] = d.bg_inode_table .. d.bg_inode_table + Table(s) - 1
    BY PartsOf
  <2>2. PICK from \in Nat : from = d.bg_inode_table
    BY <1>3
  <2> HIDE DEF P, d
  <2> QED
    BY <1>2, <2>1, <2>2, Stretch
<1>8. OffOf(s, n) = ((P[1] \cup P[3]) \cup P[4]) \cup P[5]
  BY DEF OffOf
<1>9. 1 \in 1 .. 5 /\ 3 \in 1 .. 5 /\ 4 \in 1 .. 5 /\ 5 \in 1 .. 5
  OBVIOUS
<1> HIDE DEF P, d, width
<1>10. /\ P[1] \cap P[3] = {} /\ P[1] \cap P[4] = {} /\ P[1] \cap P[5] = {}
       /\ P[3] \cap P[4] = {} /\ P[3] \cap P[5] = {} /\ P[4] \cap P[5] = {}
  BY <1>4, <1>9, SMT
<1>11. IsFiniteSet(P[1] \cup P[3]) /\ Cardinality(P[1] \cup P[3]) = width + 1
  BY <1>5, <1>6, <1>10, Together
<1>12. /\ IsFiniteSet((P[1] \cup P[3]) \cup P[4])
       /\ Cardinality((P[1] \cup P[3]) \cup P[4]) = (width + 1) + 1
  <2>1. (P[1] \cup P[3]) \cap P[4] = {}
    BY <1>10
  <2> QED
    BY <1>6, <1>11, <2>1, Together
<1>13. /\ IsFiniteSet(OffOf(s, n))
       /\ Cardinality(OffOf(s, n)) = ((width + 1) + 1) + Table(s)
  <2>1. ((P[1] \cup P[3]) \cup P[4]) \cap P[5] = {}
    BY <1>10
  <2> QED
    BY <1>7, <1>8, <1>12, <2>1, Together
<1>14. ((width + 1) + 1) + Table(s) = width + 2 + Table(s)
  BY <1>2
<1> QED
  BY <1>13, <1>14 DEF width

\* What is taken off for one group lies behind the first block and in no other
\* group's part.
LEMMA OffApart ==
    ASSUME NEW s \in SuperBlock, Consistent(s), NEW n \in 0 .. Groups(s) - 1
    PROVE  Off(s, n) \cap OffOf(s, n) = {}
<1>1. s.first < s.blocks
  BY DEF Consistent
<1>2. s.first \in Nat /\ s.blocks \in Nat /\ Groups(s) \in Nat
  BY <1>1, SuperTypes
<1>3. OffOf(s, n) \subseteq s.first .. s.blocks - 1
  <2>1. OffOf(s, n) \subseteq MetadataOf(s, n)
    BY DEF OffOf, MetadataOf
  <2>2. MetadataOf(s, n) \subseteq s.first .. s.blocks - 1
    BY DEF Consistent
  <2> QED
    BY <2>1, <2>2
<1>4. (0 .. s.first - 1) \cap OffOf(s, n) = {}
  <2>1. \A b \in s.first .. s.blocks - 1 : b \notin 0 .. s.first - 1
    BY <1>2
  <2> QED
    BY <1>3, <2>1
<1>5. ASSUME NEW g \in 0 .. n - 1 PROVE OffOf(s, g) \cap OffOf(s, n) = {}
  <2>1. g \in 0 .. Groups(s) - 1 /\ g # n
    BY <1>2
  <2>2. \A p, q \in 1 .. 5 : Parts(s, g)[p] \cap Parts(s, n)[q] = {}
    BY <2>1 DEF Consistent
  <2>3. \A p \in {1, 3, 4, 5} : p \in 1 .. 5
    OBVIOUS
  <2>4. \A p, q \in {1, 3, 4, 5} : Parts(s, g)[p] \cap Parts(s, n)[q] = {}
    BY <2>2, <2>3
  <2> QED
    BY <2>4, SMT DEF OffOf
<1> QED
  BY <1>4, <1>5 DEF Off

\* Before the first round of the loop, and from one round to the next.
LEMMA CountStart ==
    ASSUME NEW s \in SuperBlock, s.first < s.blocks
    PROVE  CountedTo(s, 0)
<1>1. 0 .. 0 - 1 = {}
  BY SMT
<1>2. s.first \in Nat /\ GdbCount(s) \in Nat /\ Table(s) \in Nat
  BY SuperTypes
<1>3. Backups(s, 0) = {} /\ Off(s, 0) = 0 .. 0 + s.first - 1
  <2>1. s.first - 1 = 0 + s.first - 1
    BY <1>2
  <2> QED
    BY <1>1, <2>1 DEF Backups, Off
<1>4. IsFiniteSet(0 .. 0 + s.first - 1) /\ Cardinality(0 .. 0 + s.first - 1) = s.first
  BY <1>2, Stretch
<1>5. IsFiniteSet({}) /\ Cardinality({}) = 0
  BY FS_EmptySet
<1>6. s.first + 0 * (1 + GdbCount(s)) + 0 * (2 + Table(s)) = s.first
  BY <1>2, SMT
<1> QED
  BY <1>3, <1>4, <1>5, <1>6 DEF CountedTo

LEMMA Distribute ==
    ASSUME NEW c \in Nat, NEW w \in Nat
    PROVE  (c + 1) * w = c * w + w
  BY SMT

LEMMA CountStep ==
    ASSUME NEW s \in SuperBlock, Consistent(s), NEW n \in 0 .. Groups(s) - 1,
           CountedTo(s, n)
    PROVE  CountedTo(s, n + 1)
<1> DEFINE M == OffOf(s, n)
           T == Off(s, n)
           H == Backups(s, n)
           W == 1 + GdbCount(s)
           t == 2 + Table(s)
<1>1. s.first < s.blocks
  BY DEF Consistent
<1>2. n \in Nat /\ Groups(s) \in Nat /\ GdbCount(s) \in Nat /\ Table(s) \in Nat /\ s.first \in Nat
  BY <1>1, SuperTypes, SMT
<1>3. 0 .. (n + 1) - 1 = (0 .. n - 1) \cup {n}
  BY <1>2, SMT
<1>4. Off(s, n + 1) = T \cup M
  BY <1>3 DEF Off
<1>5. Backups(s, n + 1) = IF Backup(s, n) THEN H \cup {n} ELSE H
  BY <1>3 DEF Backups
<1>6. n \notin H
  BY <1>2, SMT DEF Backups
<1>7. /\ IsFiniteSet(M)
      /\ Cardinality(M) = (IF Backup(s, n) THEN W ELSE 0) + t
  <2>1. Cardinality(M) = (IF Backup(s, n) THEN 1 + GdbCount(s) ELSE 0) + 2 + Table(s)
    BY OffCounted
  <2>2. Cardinality(M) = (IF Backup(s, n) THEN W ELSE 0) + t
    BY <1>2, <2>1
  <2> QED
    BY <2>2, OffCounted
<1>8. /\ IsFiniteSet(H) /\ IsFiniteSet(T)
      /\ Cardinality(T) = s.first + Cardinality(H) * W + n * t
  BY DEF CountedTo
<1>9. T \cap M = {}
  BY OffApart
<1> HIDE DEF M, T, H
<1>10. IsFiniteSet(T \cup M) /\ Cardinality(T \cup M) = Cardinality(T) + Cardinality(M)
  BY <1>7, <1>8, <1>9, Together
<1>11. PICK c \in Nat : c = Cardinality(H)
  BY <1>8, FS_CardinalityType
<1>12. W \in Nat /\ t \in Nat
  BY <1>2
<1> HIDE DEF W, t
<1>13. (n + 1) * t = n * t + t /\ n * t \in Nat
  BY <1>2, <1>12, Distribute, SMT
<1>14. CASE Backup(s, n)
  <2>1. IsFiniteSet(H \cup {n}) /\ Cardinality(H \cup {n}) = c + 1
    BY <1>6, <1>8, <1>11, FS_AddElement
  <2>2. (c + 1) * W = c * W + W /\ c * W \in Nat
    BY <1>11, <1>12, Distribute, SMT
  <2>3. Cardinality(T \cup M) = s.first + (c + 1) * W + (n + 1) * t
    BY <1>2, <1>7, <1>8, <1>10, <1>11, <1>12, <1>13, <1>14, <2>2, SMT
  <2>4. Backups(s, n + 1) = H \cup {n}
    BY <1>5, <1>14
  <2> QED
    BY <1>4, <1>10, <2>1, <2>3, <2>4 DEF CountedTo, W, t
<1>15. CASE ~ Backup(s, n)
  <2>1. c * W \in Nat
    BY <1>11, <1>12, SMT
  <2>2. Cardinality(T \cup M) = s.first + c * W + (n + 1) * t
    BY <1>2, <1>7, <1>8, <1>10, <1>11, <1>12, <1>13, <1>15, <2>1, SMT
  <2>3. Backups(s, n + 1) = H
    BY <1>5, <1>15
  <2> QED
    BY <1>4, <1>8, <1>10, <1>11, <2>2, <2>3 DEF CountedTo, W, t
<1> QED
  BY <1>14, <1>15

\* What op_statfs takes off is the number of blocks of the layout, those of the
\* resize inode excepted.
LEMMA OverheadIsMetadata ==
    ASSUME NEW s \in SuperBlock, Consistent(s)
    PROVE  /\ Cardinality(Metadata(s)) \in Nat
           /\ Cardinality(Metadata(s) \ ResizeInode(s)) \in Nat
           /\ Cardinality(Metadata(s) \ ResizeInode(s)) <= Cardinality(Metadata(s))
           /\ Overhead(s) =
                IF s.minix_df THEN 0 ELSE Cardinality(Metadata(s) \ ResizeInode(s))
<1> DEFINE G == 0 .. Groups(s) - 1
<1>1. s.first < s.blocks
  BY DEF Consistent
<1>2. Groups(s) \in Nat /\ s.first \in Nat /\ s.blocks \in Nat
  BY <1>1, SuperTypes
<1>3. CountedTo(s, Groups(s))
  <2> DEFINE S == {n \in Nat : n <= Groups(s) => CountedTo(s, n)}
  <2>1. 0 \in S
    BY <1>1, CountStart
  <2>2. ASSUME NEW n \in Nat, n \in S PROVE n + 1 \in S
    <3> SUFFICES ASSUME n + 1 <= Groups(s) PROVE CountedTo(s, n + 1)
      OBVIOUS
    <3>1. n \in G /\ n <= Groups(s)
      BY <1>2
    <3>2. CountedTo(s, n)
      BY <2>2, <3>1
    <3> QED
      BY <3>1, <3>2, CountStep
  <2> HIDE DEF S
  <2>3. Groups(s) \in S
    BY <1>2, <2>1, <2>2, Induction
  <2> QED
    BY <1>2, <2>3 DEF S
<1>4. Metadata(s) \ ResizeInode(s) = Off(s, Groups(s))
  <2>1. ASSUME NEW g \in G PROVE MetadataOf(s, g) = OffOf(s, g) \cup Parts(s, g)[2]
    <3>1. 1 .. 5 = {1, 3, 4, 5} \cup {2}
      OBVIOUS
    <3> QED
      BY <3>1 DEF MetadataOf, OffOf
  <2>2. ASSUME NEW g \in G, NEW h \in G PROVE OffOf(s, g) \cap Parts(s, h)[2] = {}
    <3>1. \A p \in {1, 3, 4, 5} : p \in 1 .. 5 /\ p # 2
      OBVIOUS
    <3>2. 2 \in 1 .. 5
      OBVIOUS
    <3>3. \A p \in {1, 3, 4, 5} : Parts(s, g)[p] \cap Parts(s, h)[2] = {}
      BY <3>1, <3>2 DEF Consistent
    <3> QED
      BY <3>3, Zenon DEF OffOf
  <2>3. ASSUME NEW h \in G PROVE (0 .. s.first - 1) \cap Parts(s, h)[2] = {}
    <3>1. Parts(s, h)[2] \subseteq s.first .. s.blocks - 1
      BY <2>1 DEF Consistent
    <3>2. \A b \in s.first .. s.blocks - 1 : b \notin 0 .. s.first - 1
      BY <1>2
    <3> QED
      BY <3>1, <3>2
  <2> HIDE DEF G
  <2>4. Metadata(s) = (0 .. s.first - 1) \cup UNION {MetadataOf(s, g) : g \in G}
    BY DEF Metadata, G
  <2>5. Off(s, Groups(s)) = (0 .. s.first - 1) \cup UNION {OffOf(s, g) : g \in G}
    BY DEF Off, G
  <2>6. ResizeInode(s) = UNION {Parts(s, g)[2] : g \in G}
    BY DEF ResizeInode, G
  <2>7. Metadata(s) = Off(s, Groups(s)) \cup ResizeInode(s)
    BY <2>1, <2>4, <2>5, <2>6
  <2>8. Off(s, Groups(s)) \cap ResizeInode(s) = {}
    BY <2>2, <2>3, <2>5, <2>6
  <2> QED
    BY <2>7, <2>8
<1>5. IsFiniteSet(Metadata(s))
  <2>1. \A b \in Metadata(s) : b \in 0 .. s.blocks - 1
    <3>1. \A b \in 0 .. s.first - 1 : b \in 0 .. s.blocks - 1
      BY <1>1, <1>2
    <3>2. ASSUME NEW g \in G PROVE \A b \in MetadataOf(s, g) : b \in 0 .. s.blocks - 1
      <4>1. MetadataOf(s, g) \subseteq s.first .. s.blocks - 1
        BY DEF Consistent
      <4>2. \A b \in s.first .. s.blocks - 1 : b \in 0 .. s.blocks - 1
        BY <1>2
      <4> QED
        BY <4>1, <4>2
    <3> QED
      BY <3>1, <3>2 DEF Metadata
  <2>2. IsFiniteSet(0 .. s.blocks - 1)
    BY <1>2, FS_Interval
  <2>3. Metadata(s) \subseteq 0 .. s.blocks - 1
    BY <2>1
  <2> QED
    BY <2>2, <2>3, FS_Subset
<1>6. /\ Cardinality(Metadata(s)) \in Nat
      /\ Cardinality(Metadata(s) \ ResizeInode(s)) \in Nat
      /\ Cardinality(Metadata(s) \ ResizeInode(s)) <= Cardinality(Metadata(s))
  <2>1. Metadata(s) \ ResizeInode(s) \subseteq Metadata(s)
    OBVIOUS
  <2> QED
    BY <1>5, <2>1, FS_Subset, FS_CardinalityType
<1>7. {g \in G : ext2_bg_has_super(s, g) = 1} = Backups(s, Groups(s))
  <2>1. ASSUME NEW g \in G PROVE ext2_bg_has_super(s, g) = 1 <=> Backup(s, g)
    <3>1. g \in Nat
      BY <1>2
    <3> QED
      BY <3>1, SpareGroups
  <2> QED
    BY <2>1 DEF Backups
<1> QED
  BY <1>3, <1>4, <1>6, <1>7 DEF CountedTo, Overhead, Table

-----------------------------------------------------------------------------
(* The requests *)

\* What statfs answers.
LEMMA StatfsAnswers ==
    ASSUME NEW s \in Super, Statfs(s)
    PROVE  /\ ~ s.minix_df =>
                ret'.st.f_blocks = s.blocks - Cardinality(Metadata(s) \ ResizeInode(s))
           /\ 0 <= ret'.st.f_bavail
           /\ ret'.st.f_bavail <= ret'.st.f_bfree
           /\ ret'.st.f_bfree <= ret'.st.f_blocks
           /\ ret'.req.super = s
<1>1. s \in SuperBlock /\ Consistent(s)
  BY SuperAssumption
<1>2. PICK c \in Nat : c = Cardinality(Metadata(s))
  BY <1>1, OverheadIsMetadata
<1>3. PICK o \in Nat : o = Cardinality(Metadata(s) \ ResizeInode(s))
  BY <1>1, OverheadIsMetadata
<1>4. o <= c /\ Overhead(s) = IF s.minix_df THEN 0 ELSE o
  BY <1>1, <1>2, <1>3, OverheadIsMetadata
<1>5. s.free + c <= s.blocks /\ s.first < s.blocks
  BY <1>1, <1>2 DEF Consistent
<1>6. s.free \in Nat /\ s.blocks \in Nat /\ s.reserved \in Nat
  BY <1>1, <1>5, SuperTypes
<1>7. /\ ret'.req.super = s
      /\ ret'.st.f_blocks = s.blocks - Overhead(s)
      /\ ret'.st.f_bfree = s.free
      /\ ret'.st.f_bavail = IF s.free < s.reserved THEN 0 ELSE s.free - s.reserved
  BY DEF Statfs, Answer, op_statfs
<1>8. ~ s.minix_df => ret'.st.f_blocks = s.blocks - Cardinality(Metadata(s) \ ResizeInode(s))
  BY <1>3, <1>4, <1>7
<1>9. Overhead(s) \in Nat /\ Overhead(s) <= c
  BY <1>4
<1> QED
  BY <1>5, <1>6, <1>7, <1>8, <1>9, SMT

\* No other request is one for statfs.
LEMMA OnlyStatfs ==
    ASSUME Next, ret'.req.op = "statfs"
    PROVE  \E s \in Super : Statfs(s)
<1> USE DEF ReadWrite, Answer
<1>1. ASSUME NEW i \in File, NEW mode \in Mode, NEW dev \in Device,
             NEW uid \in Owner, NEW gid \in Owner, NEW tm \in Time,
             Mknod(i, mode, dev, uid, gid, tm)
      PROVE  ret'.req.op = "mknod"
  BY <1>1 DEF Mknod
<1>2. ASSUME NEW i \in File, NEW bad \in Faults, Change(i, bad)
      PROVE  ret'.req.op \in {"chmod", "chown", "utimens"}
  <2>1. ASSUME NEW mode \in Mode, NEW tm \in Time, Chmod(i, mode, tm, bad)
        PROVE  ret'.req.op = "chmod"
    BY <2>1 DEF Chmod
  <2>2. ASSUME NEW uid, NEW gid, NEW tm \in Time, Chown(i, uid, gid, tm, bad)
        PROVE  ret'.req.op = "chown"
    BY <2>2 DEF Chown
  <2>3. ASSUME NEW atime, NEW mtime, Utimens(i, atime, mtime, bad)
        PROVE  ret'.req.op = "utimens"
    BY <2>3 DEF Utimens
  <2> QED
    BY <1>2, <2>1, <2>2, <2>3 DEF Change
<1>3. ASSUME NEW i \in File, NEW bad \in Faults, Getattr(i, bad) \/ Fgetattr(i, bad)
      PROVE  ret'.req.op = "getattr"
  BY <1>3 DEF Fgetattr, Getattr
<1>4. ASSUME NEW i \in File, Unlink(i) PROVE ret'.req.op = "unlink"
  BY <1>4 DEF Unlink
<1>5. ASSUME NEW write \in BOOLEAN, op_access(write) PROVE ret'.req.op = "access"
  BY <1>5 DEF op_access
<1> QED
  BY <1>1, <1>2, <1>3, <1>4, <1>5, Zenon DEF Next

LEMMA StatfsTells ==
    ASSUME Next, ret'.req.op = "statfs"
    PROVE  /\ ~ ret'.req.super.minix_df =>
                ret'.st.f_blocks =
                    ret'.req.super.blocks -
                        Cardinality(Metadata(ret'.req.super) \ ResizeInode(ret'.req.super))
           /\ 0 <= ret'.st.f_bavail
           /\ ret'.st.f_bavail <= ret'.st.f_bfree
           /\ ret'.st.f_bfree <= ret'.st.f_blocks
<1>1. PICK s \in Super : Statfs(s)
  BY OnlyStatfs
<1>2. ret'.req.super = s
  BY <1>1, StatfsAnswers
<1> QED
  BY <1>1, <1>2, StatfsAnswers

-----------------------------------------------------------------------------
(* Theorems *)

\* Every inode the requests leave is one of the disk format: the halves of
\* the owners are 16 bits, i_mode keeps a type, i_block holds two words.
THEOREM AttributesTyping == Spec => []TypeOK
<1>1. TypeOK /\ [Next]_vars => TypeOK'
  <2>1. ASSUME TypeOK, UNCHANGED vars PROVE TypeOK'
    BY <2>1 DEF TypeOK, vars
  <2> QED
    BY <2>1, StepOK
<1> QED
  BY <1>1, InitTyped, PTL DEF Spec

\* stat shows what mknod, chmod, chown and utimens were given, a call changes
\* what it is for and nothing else, and one that fails changes nothing: for
\* every mode, every owner of 32 bits, every time, every device that is not in
\* Hidden, and every set of failing calls.
THEOREM AttributesAsPromised == Spec => ImplementsPosixAttr
<1>1. ASSUME TypeOK, [Next]_vars PROVE [Attributes!Next]_(Attributes!vars)
  <2>1. CASE UNCHANGED vars
    BY <2>1, Unchanged DEF vars, Attributes!vars
  <2> QED
    BY <1>1, <2>1, StepOK
<1>2. Spec => []TypeOK
  BY AttributesTyping
<1> QED
  BY <1>1, <1>2, PTL DEF Spec, ImplementsPosixAttr, Attributes!Spec

\* f_blocks leaves out the blocks of the layout, those of the resize inode
\* excepted, no more and no less: for every layout of mke2fs without meta_bg,
\* of any number of groups, with sparse_super, resize_inode and flex_bg or
\* without.
THEOREM StatfsCounts == Spec => StatfsCountsLayout
<1>1. [Next]_vars =>
        [ret'.req.op = "statfs" /\ ~ ret'.req.super.minix_df =>
            ret'.st.f_blocks =
                ret'.req.super.blocks -
                    Cardinality(Metadata(ret'.req.super) \ ResizeInode(ret'.req.super))]_vars
  BY StatfsTells
<1> QED
  BY <1>1, PTL DEF Spec, StatfsCountsLayout

\* The numbers df subtracts from one another are in order, reserved blocks that
\* are no longer free and minixdf included.
THEOREM StatfsNeverNegative == Spec => StatfsAddsUp
<1>1. [Next]_vars =>
        [ret'.req.op = "statfs" =>
            /\ 0 <= ret'.st.f_bavail
            /\ ret'.st.f_bavail <= ret'.st.f_bfree
            /\ ret'.st.f_bfree <= ret'.st.f_blocks]_vars
  BY StatfsTells
<1> QED
  BY <1>1, PTL DEF Spec, StatfsAddsUp
=============================================================================
