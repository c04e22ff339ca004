--------------------------- MODULE Ext2Attributes ---------------------------
(***************************************************************************)
(* The attributes of files: mknod and create as far as they fill in the    *)
(* inode, chmod, chown, utimens, getattr, fgetattr, access, and statfs.    *)
(*                                                                         *)
(* The numbers are those of the disk format: an owner in two halves of 16  *)
(* bits, the type and the permissions in one i_mode, a device in one of    *)
(* two words of i_block, which on a file system with extents hold the      *)
(* header of the extents as well.  Names are for Ext2Daemon; a file is     *)
(* there or is not.                                                        *)
(*                                                                         *)
(* As in Ext2Ops, X_Something is X with a mistake in it, used by nothing.  *)
(***************************************************************************)
EXTENDS Integers, FiniteSets, Sequences

CONSTANTS
    File,
    Mode,       \* modes a request may bring, the type of a file and 12 bits
    Device,     \* device numbers it may bring
    Owner,      \* users and groups it may bring
    Time,
    Keep,       \* (uid_t) -1, UTIME_OMIT
    Super,      \* super blocks of file systems
    Faults      \* sets of call sites that may fail together in a request

S_IFCHR == 2
S_IFBLK == 6
Perms   == 4096     \* 1 + the mask of op_chmod
Half    == 65536

Majors  == 4096     \* 2 to the 12 bits of a major number
Minors  == 1048576  \* 2 to the 20 of a minor one

DeviceNumber == (0 .. Majors - 1) \X (0 .. Minors - 1)

ASSUME ModeAssumption   == Mode \subseteq Perms .. 16 * Perms - 1
ASSUME DeviceAssumption == Device \subseteq DeviceNumber /\ <<0, 0>> \in Device
ASSUME OwnerAssumption  == \A o \in Owner : o \in Nat /\ o \div Half < Half
ASSUME TimeAssumption   == 0 \in Time
ASSUME KeepAssumption   == Keep \notin Owner \cup Time
ASSUME FaultAssumption  == Faults \subseteq SUBSET {"namei", "readinode", "writeinode"}

VARIABLES
    inode,      \* the inodes of the files
    extents,    \* EXT3_FEATURE_INCOMPAT_EXTENTS
    rw,         \* EXT2_FLAG_RW
    ret         \* the last request and its answer

vars  == <<inode, extents, rw, ret>>
\* What the next request depends on: all but the answer to the last one.
State == <<inode, extents, rw>>

Word  == 0 .. Half - 1
Inode ==
    [i_mode : {0} \cup Perms .. 16 * Perms - 1, i_uid : Word, uid_high : Word,
     i_gid : Word, gid_high : Word, i_block : Nat \X Nat,
     i_atime : Time, i_mtime : Time, i_ctime : Time]

TypeOK ==
    /\ inode \in [File -> Inode]
    /\ extents \in BOOLEAN /\ rw \in BOOLEAN
    /\ ret.rc \in {"ok", "EIO", "ENOENT", "EACCES"}

-----------------------------------------------------------------------------
(* Owners *)

ext2_write_uid_Whole(r, uid) == [r EXCEPT !.i_uid = uid, !.uid_high = uid \div Half]

ext2_write_uid(r, uid) ==
    [r EXCEPT !.i_uid = uid % Half, !.uid_high = (uid \div Half) % Half]
ext2_write_gid(r, gid) ==
    [r EXCEPT !.i_gid = gid % Half, !.gid_high = (gid \div Half) % Half]

ext2_read_uid(r) == r.uid_high * Half + r.i_uid
ext2_read_gid(r) == r.gid_high * Half + r.i_gid

-----------------------------------------------------------------------------
(* Devices: <<major, minor>> *)

old_valid_dev_MajorOnly(dev) == dev[1] < 256

old_valid_dev(dev)  == dev[1] < 256 /\ dev[2] < 256
old_encode_dev(dev) == dev[1] * 256 + dev[2]
\* The low byte of the minor number, the major number, the rest of the minor.
new_encode_dev(dev) ==
    (dev[2] % 256) + dev[1] * 256 + (dev[2] \div 256) * 1048576

old_decode_dev(val) == <<(val \div 256) % 256, val % 256>>
new_decode_dev(dev) ==
    <<(dev \div 256) % 4096, (dev % 256) + (dev \div 1048576) * 256>>

\* eh_magic and eh_entries, eh_max and eh_depth.
ExtentHeader == <<62218, 4>>

IsDevice(mode) == mode \div Perms \in {S_IFCHR, S_IFBLK}

\* What do_create leaves in i_block[0] and i_block[1].
Blocks(mode, dev) ==
    LET b == IF extents THEN ExtentHeader ELSE <<0, 0>> IN
    IF ~ IsDevice(mode) THEN b
    ELSE IF old_valid_dev(dev) THEN <<old_encode_dev(dev), b[2]>>
    ELSE <<b[1], new_encode_dev(dev)>>

\* What Linux leaves there, which gives no extents to a device.
LinuxBlocks(mode, dev) ==
    IF ~ IsDevice(mode) THEN <<0, 0>>
    ELSE IF old_valid_dev(dev) THEN <<old_encode_dev(dev), 0>>
    ELSE <<0, new_encode_dev(dev)>>

do_fillstatbuf(r) ==
    [type |-> r.i_mode \div Perms, perm |-> r.i_mode % Perms,
     uid |-> ext2_read_uid(r), gid |-> ext2_read_gid(r),
     rdev |-> IF ~ IsDevice(r.i_mode) THEN <<0, 0>>
              ELSE IF r.i_block[1] # 0 THEN old_decode_dev(r.i_block[1] % Half)
              ELSE new_decode_dev(r.i_block[2]),
     atime |-> r.i_atime, mtime |-> r.i_mtime]

-----------------------------------------------------------------------------
(* statfs: the blocks that are not for files are counted, group by group *)

test_root(a, b) ==
    LET root[x \in Nat] ==
            IF x < b THEN FALSE
            ELSE IF x = b THEN TRUE
            ELSE IF x % b # 0 THEN FALSE
            ELSE root[x \div b]
    IN  root[a]

ext2_group_spare_OddOnly(group) == group <= 1 \/ group % 2 = 1

ext2_group_spare(group) == group <= 1 \/ \E b \in {3, 5, 7} : test_root(group, b)

ext2_bg_has_super(s, group) == IF s.sparse /\ ~ ext2_group_spare(group) THEN 0 ELSE 1

Groups(s)   == (s.blocks - s.first - 1) \div s.per_group + 1
GdbCount(s) == (Groups(s) + s.desc_per_block - 1) \div s.desc_per_block

Overhead(s) ==
    LET HasSuper == {g \in 0 .. Groups(s) - 1 : ext2_bg_has_super(s, g) = 1} IN
    IF s.minix_df THEN 0
    ELSE s.first + Cardinality(HasSuper) * (1 + GdbCount(s))
            + Groups(s) * (2 + s.inodes_per_group \div s.inodes_per_block)

op_statfs_NoReserve(s) ==
    [f_blocks |-> s.blocks - Overhead(s), f_bfree |-> s.free,
     f_bavail |-> s.free - s.reserved]

op_statfs(s) ==
    [f_blocks |-> s.blocks - Overhead(s), f_bfree |-> s.free,
     f_bavail |-> IF s.free < s.reserved THEN 0 ELSE s.free - s.reserved]

\* A power of the prime b has no divisor, but 1, that b does not divide.
PowerOf(b, g) == g > 1 /\ \A d \in 2 .. g : g % d = 0 => d % b = 0

\* The layout mke2fs makes, block by block.  A group that keeps a copy of the
\* super block keeps one of the descriptors behind it, and, with resize_inode,
\* room for descriptors to come.  The descriptor of a group says where its
\* bitmaps and its inodes are, which flex_bg puts into other groups.
Backup(s, g) == ~ s.sparse \/ g \in {0, 1} \/ \E b \in {3, 5, 7} : PowerOf(b, g)
GroupStart(s, g) == s.first + g * s.per_group
Parts(s, g) ==
    LET copy  == IF Backup(s, g) THEN 1 + GdbCount(s) ELSE 0
        room  == IF Backup(s, g) THEN s.reserved_gdt ELSE 0
        table == s.inodes_per_group \div s.inodes_per_block
        from  == GroupStart(s, g)
        desc  == s.group_desc[g + 1]
    IN  << from .. from + copy - 1,
           from + copy .. from + copy + room - 1,
           {desc.bg_block_bitmap}, {desc.bg_inode_bitmap},
           desc.bg_inode_table .. desc.bg_inode_table + table - 1 >>
MetadataOf(s, g) == UNION {Parts(s, g)[p] : p \in 1 .. 5}
Metadata(s) ==
    (0 .. s.first - 1) \cup UNION {MetadataOf(s, g) : g \in 0 .. Groups(s) - 1}

\* The blocks for descriptors to come are those of the resize inode.
ResizeInode(s) == UNION {Parts(s, g)[2] : g \in 0 .. Groups(s) - 1}

\* A super block that mke2fs and the use of its file system can leave, without
\* meta_bg, sparse_super2 and bigalloc: whole blocks of inodes, a disk that
\* holds its metadata, no block in two parts of it, no more free blocks than
\* there are for files.
Consistent(s) ==
    /\ s.first < s.blocks
    /\ s.inodes_per_group % s.inodes_per_block = 0
    /\ Len(s.group_desc) = Groups(s)
    /\ \A g \in 0 .. Groups(s) - 1 : MetadataOf(s, g) \subseteq s.first .. s.blocks - 1
    /\ \A g, h \in 0 .. Groups(s) - 1, p, q \in 1 .. 5 :
        g # h \/ p # q => Parts(s, g)[p] \cap Parts(s, h)[q] = {}
    /\ s.free + Cardinality(Metadata(s)) <= s.blocks

GroupDesc == [bg_block_bitmap : Nat, bg_inode_bitmap : Nat, bg_inode_table : Nat]

SuperBlock ==
    [blocks : Nat, first : Nat, per_group : Nat \ {0}, desc_per_block : Nat \ {0},
     reserved_gdt : Nat, inodes_per_group : Nat, inodes_per_block : Nat \ {0},
     group_desc : Seq(GroupDesc), sparse : BOOLEAN, minix_df : BOOLEAN,
     free : Nat, reserved : Nat]

ASSUME SuperAssumption == \A s \in Super : s \in SuperBlock /\ Consistent(s)

-----------------------------------------------------------------------------
(* Requests *)

NewInode(mode, block, tm) ==
    [i_mode |-> mode, i_uid |-> 0, uid_high |-> 0, i_gid |-> 0, gid_high |-> 0,
     i_block |-> block, i_atime |-> tm, i_mtime |-> tm, i_ctime |-> tm]

Absent == NewInode(0, <<0, 0>>, 0)

Filled(mode, uid, gid, block, tm) ==
    ext2_write_gid(ext2_write_uid(NewInode(mode, block, tm), uid), gid)

\* Files of Linux, and of nobody.
Init ==
    /\ extents \in BOOLEAN /\ rw \in BOOLEAN
    /\ \E dev \in Device, mode \in Mode, uid, gid \in Owner, tm \in Time :
        inode \in [File -> {Absent, Filled(mode, uid, gid, LinuxBlocks(mode, dev), tm)}]
    /\ ret = [req |-> [op |-> "mount"], rc |-> "ok", st |-> <<>>]

Exists(i) == inode[i].i_mode # 0

Answer(q, rc, st) == ret' = [req |-> q, rc |-> rc, st |-> st]

\* do_readinode: by its path, and then the inode.
do_readinode(bad) ==
    IF "namei" \in bad THEN "ENOENT" ELSE IF "readinode" \in bad THEN "EIO" ELSE "ok"

\* A handler that reads an inode, changes it to r and writes it back.
ReadWrite(q, r, bad) ==
    /\ rw
    /\ UNCHANGED <<extents, rw>>
    /\ IF do_readinode(bad) # "ok"
       THEN Answer(q, do_readinode(bad), <<>>) /\ UNCHANGED inode
       ELSE IF "writeinode" \in bad THEN Answer(q, "EIO", <<>>) /\ UNCHANGED inode
       ELSE Answer(q, "ok", <<>>) /\ inode' = [inode EXCEPT ![q.file] = r]

\* do_create for mknod and, with device 0, for create.
Mknod(i, mode, dev, uid, gid, tm) ==
    /\ ~ Exists(i)
    /\ IsDevice(mode) \/ dev = <<0, 0>>
    /\ ReadWrite([op |-> "mknod", file |-> i, mode |-> mode, dev |-> dev,
                  uid |-> uid, gid |-> gid],
                 Filled(mode, uid, gid, Blocks(mode, dev), tm), {})

op_chmod(r, mode, tm) ==
    [r EXCEPT !.i_mode = (@ - (@ % Perms)) + (mode % Perms), !.i_ctime = tm]

Chmod(i, mode, tm, bad) ==
    /\ Exists(i)
    /\ ReadWrite([op |-> "chmod", file |-> i, mode |-> mode],
                 op_chmod(inode[i], mode, tm), bad)

op_chown(r, uid, gid, tm) ==
    LET u == IF uid = Keep THEN r ELSE ext2_write_uid(r, uid)
        g == IF gid = Keep THEN u ELSE ext2_write_gid(u, gid)
    IN  [g EXCEPT !.i_ctime = tm]

Chown(i, uid, gid, tm, bad) ==
    /\ Exists(i)
    /\ ReadWrite([op |-> "chown", file |-> i, uid |-> uid, gid |-> gid],
                 op_chown(inode[i], uid, gid, tm), bad)

\* tv_nsec is UTIME_OMIT, or the seconds are taken; i_ctime stays.
op_utimens(r, atime, mtime) ==
    [r EXCEPT !.i_atime = IF atime = Keep THEN @ ELSE atime,
              !.i_mtime = IF mtime = Keep THEN @ ELSE mtime]

Utimens(i, atime, mtime, bad) ==
    /\ Exists(i)
    /\ ReadWrite([op |-> "utimens", file |-> i, atime |-> atime, mtime |-> mtime],
                 op_utimens(inode[i], atime, mtime), bad)

Unlink(i) ==
    /\ Exists(i)
    /\ ReadWrite([op |-> "unlink", file |-> i], Absent, {})

Getattr(i, bad) ==
    /\ Exists(i)
    /\ IF do_readinode(bad) # "ok"
       THEN Answer([op |-> "getattr", file |-> i], do_readinode(bad), <<>>)
       ELSE Answer([op |-> "getattr", file |-> i], "ok", do_fillstatbuf(inode[i]))
    /\ UNCHANGED <<inode, extents, rw>>

\* By the path as well, though the file is open.
Fgetattr(i, bad) == Getattr(i, bad)

\* Asks neither for the file nor for its permissions.
op_access(write) ==
    /\ Answer([op |-> "access", write |-> write],
              IF write /\ ~ rw THEN "EACCES" ELSE "ok", <<>>)
    /\ UNCHANGED <<inode, extents, rw>>

\* The counts of a file system change with its files: any super block it may
\* have is tried at any time.
Statfs(s) ==
    /\ Answer([op |-> "statfs", super |-> s], "ok", op_statfs(s))
    /\ UNCHANGED <<inode, extents, rw>>

Change(i, bad) ==
    \/ \E tm \in Time :
        \/ \E mode \in Mode : Chmod(i, mode, tm, bad)
        \/ \E uid, gid \in Owner \cup {Keep} : Chown(i, uid, gid, tm, bad)
    \/ \E atime, mtime \in Time \cup {Keep} : Utimens(i, atime, mtime, bad)

Next ==
    \/ \E i \in File :
        \/ \E mode \in Mode, dev \in Device, uid, gid \in Owner, tm \in Time :
            Mknod(i, mode, dev, uid, gid, tm)
        \/ \E bad \in Faults : Change(i, bad) \/ Getattr(i, bad) \/ Fgetattr(i, bad)
        \/ Unlink(i)
    \/ \E write \in BOOLEAN : op_access(write)
    \/ \E s \in Super : Statfs(s)

Spec == Init /\ [][Next]_vars

-----------------------------------------------------------------------------
(* Properties *)

\* The device numbers do_create cannot keep when the file system has extents:
\* a large one stands in i_block[1] behind a header that is taken for a small
\* one, and 0 leaves i_block[0] empty and the header in i_block[1].
Hidden == IF extents THEN {d \in Device : ~ old_valid_dev(d) \/ d = <<0, 0>>} ELSE {}

\* stat shows what was asked for, of files of Linux and of this daemon.
Attributes == INSTANCE PosixAttr WITH
    attr     <- [i \in File |-> do_fillstatbuf(inode[i])],
    writable <- rw,
    hidden   <- Hidden,
    call     <- ret

ImplementsPosixAttr == Attributes!Spec

\* The blocks statfs says there are for files are all but the metadata, where
\* the blocks of the resize inode pass for those of a file: the loop adds up
\* the copies of the descriptors and not the room behind them.
StatfsCountsLayout ==
    [][ret'.req.op = "statfs" /\ ~ ret'.req.super.minix_df =>
        ret'.st.f_blocks =
            ret'.req.super.blocks -
                Cardinality(Metadata(ret'.req.super) \ ResizeInode(ret'.req.super))]_vars

\* What df takes from statfs is never negative: used blocks, and blocks left.
StatfsAddsUp ==
    [][ret'.req.op = "statfs" =>
        /\ 0 <= ret'.st.f_bavail
        /\ ret'.st.f_bavail <= ret'.st.f_bfree
        /\ ret'.st.f_bfree <= ret'.st.f_blocks]_vars
=============================================================================
