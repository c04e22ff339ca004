------------------------------ MODULE Ext2Files ------------------------------
(***************************************************************************)
(* The contents of files: open, read, write, truncate, flush, release, and *)
(* the targets of symbolic links.                                          *)
(*                                                                         *)
(* A file handle of libext2fs carries its own copy of the inode and one    *)
(* page of data.  The kernel keeps the handle of op_open in fi->fh, and    *)
(* any number of them may be open on a file; but op_read and op_write find *)
(* the file by its path, open a handle of their own, and close it before   *)
(* they return.  The unit of data is the page, a block of a file.          *)
(*                                                                         *)
(* As in Ext2Ops, X_Something is X with a mistake in it, used by nothing.  *)
(***************************************************************************)
EXTENDS Integers, FiniteSets, Functions

CONSTANTS
    File,           \* files, by inode and by path: names are for Ext2Daemon
    Handle,         \* places for an open file's handle, fi->fh
    NoHandle,       \* NULL
    Block, NoBlock,
    Value, Zero,    \* what a page may hold, and a page never written
    MaxPages,       \* bound on the length of a file
    Extents,        \* whether the file system has extents
    HeaderBlock,    \* i_block[0] of an inode with extents, as a block number
    Faults          \* sets of call sites that may fail together in a request

FileSite == {"readinode", "open.atime", "read.data", "write.data", "write.size",
             "truncate.size", "truncate.reread", "truncate.inode"}

ASSUME BlockAssumption  == NoBlock \notin Block
ASSUME ValueAssumption  == Zero \notin Value
ASSUME BoundAssumption  == MaxPages \in Nat \ {0}
ASSUME FaultAssumption  == Faults \subseteq SUBSET FileSite /\ Extents \in BOOLEAN

VARIABLES
    disk,       \* the file system
    fh,         \* the handles of open files
    readonly,   \* e2data->readonly
    up,         \* the daemon is there
    ret         \* the last reply; "lost" counts the handles the request has
                \* opened and nobody will close, "clean": no call has failed

vars == <<disk, fh, readonly, up, ret>>

\* What the next request depends on: all but the reply to the last one.
State == <<disk, fh, readonly, up>>

Page  == 0 .. MaxPages - 1
Datum == Value \cup {Zero}

\* "short" is the target of a short link, kept in i_block itself.
Inode ==
    [kind : {"none", "reg", "lnk"}, size : 0 .. MaxPages,
     map : [Page -> Block \cup {NoBlock}], short : Datum]
Disk ==
    [inode : [File -> Inode], content : [Block -> Datum], used : SUBSET Block]

\* ext2_file_t: "buf" is the page in the buffer when it is not written yet.
FileHandle ==
    [file : File, inode : Inode, buf : {<<>>} \cup (Page \X Value)]

ASSUME HandleAssumption == NoHandle \notin FileHandle

Op == {"mount", "open", "create", "symlink", "read", "readlink", "write",
       "truncate", "flush", "release", "unlink"}

TypeOK ==
    /\ disk \in Disk
    /\ fh \in [Handle -> FileHandle \cup {NoHandle}]
    /\ readonly \in BOOLEAN /\ up \in BOOLEAN
    /\ ret.op \in Op /\ ret.rc \in {"ok", "EIO", "ENOENT", "died"}
    /\ ret.n \in 0 .. MaxPages
    /\ ret.data \in UNION {[S -> Datum] : S \in SUBSET Page}
    /\ ret.lost \in 0 .. 1 /\ ret.clean \in BOOLEAN

-----------------------------------------------------------------------------
(* libext2fs *)

NewInode(k, v) ==
    [kind |-> k, size |-> 0, map |-> [p \in Page |-> NoBlock], short |-> v]

Blocks(r)     == {r.map[p] : p \in Page} \ {NoBlock}
FreeBlocks(f) == Block \ f.used
PageOf(f, r, p) == IF r.map[p] = NoBlock THEN Zero ELSE f.content[r.map[p]]

ext2fs_file_open2(f, i) == [file |-> i, inode |-> f.inode[i], buf |-> <<>>]

\* Ways to give a block to each of the pages off to off + n - 1 without one.
Placements(f, r, off, n) ==
    Injection({p \in off .. off + n - 1 : r.map[p] = NoBlock}, FreeBlocks(f))

\* How many of limit pages find a block.
Fitting(f, r, off, limit) ==
    CHOOSE n \in 0 .. limit :
        /\ Placements(f, r, off, n) # {}
        /\ n = limit \/ Placements(f, r, off, n + 1) = {}

\* Page after page through the buffer, which goes to the device when the next
\* page needs it, up to the page that finds no block or the buffer that cannot
\* be written: n pages of limit, which get the blocks got.
Stored(f, h, off, v, limit, n, got) ==
    LET held == IF n < limit THEN off + n ELSE off + n - 1
        Sent(r) == {r.map[p] : p \in (off .. off + n - 1) \ {held}}
        \* The inode goes to the device from the handle's copy.
        To(r) ==
           [fs |-> [f EXCEPT
                       !.inode[h.file] = IF r = h.inode THEN @ ELSE r,
                       !.content = [b \in Block |-> IF b \in Sent(r) THEN v ELSE @[b]],
                       !.used = @ \cup {got[p] : p \in DOMAIN got}],
            h  |-> [h EXCEPT !.inode = r, !.buf = <<held, v>>]]
    IN  To([h.inode EXCEPT
                !.size = IF n > 0 /\ @ < off + n THEN off + n ELSE @,
                !.map  = [p \in Page |-> IF p \in DOMAIN got THEN got[p] ELSE @[p]]])

WriteTo(f, h, off, len, v, limit, n) ==
    LET w == Stored(f, h, off, v, limit, n,
                    CHOOSE got \in Placements(f, h.inode, off, n) : TRUE)
    IN  [fs |-> w.fs, h |-> w.h, n |-> n,
         rc |-> IF n = len THEN "ok" ELSE IF n = limit THEN "EIO" ELSE "ENOSPC"]

ext2fs_file_write(f, h, off, len, v, bad) ==
    LET limit == IF "write.data" \in bad THEN 1 ELSE len IN
    WriteTo(f, h, off, len, v, limit, Fitting(f, h.inode, off, limit))

\* The page in the buffer goes to its block.  One without a block finds none
\* here either.
ext2fs_file_flush(f, h, bad) ==
    LET b == h.inode.map[h.buf[1]] IN
    IF h.buf = <<>> THEN [fs |-> f, h |-> h, rc |-> "ok"]
    ELSE IF b = NoBlock THEN [fs |-> f, h |-> h, rc |-> "ENOSPC"]
    ELSE IF "write.data" \in bad THEN [fs |-> f, h |-> h, rc |-> "EIO"]
    ELSE [fs |-> [f EXCEPT !.content[b] = h.buf[2]],
          h  |-> [h EXCEPT !.buf = <<>>], rc |-> "ok"]

\* Blocks past the new end are given back.
ext2fs_file_set_size2(f, h, size) ==
    LET r == [h.inode EXCEPT
                !.size = size,
                !.map  = [p \in Page |-> IF p < size THEN @[p] ELSE NoBlock]]
    IN  [fs |-> [f EXCEPT !.inode[h.file] = r,
                          !.used = @ \ (Blocks(h.inode) \ Blocks(r))],
         h  |-> [h EXCEPT !.inode = r]]

-----------------------------------------------------------------------------
(* do_*: what the handlers share *)

Ret(f, rc) == [fs |-> f, rc |-> rc, n |-> 0, data |-> <<>>, lost |-> 0]

do_open_AlwaysWrites(f, i, ro, bad) ==
    IF "readinode" \in bad THEN [h |-> NoHandle, lost |-> 0]
    ELSE IF ro \/ "open.atime" \in bad THEN [h |-> NoHandle, lost |-> 1]
    ELSE [h |-> ext2fs_file_open2(f, i), lost |-> 0]

\* The inode is written back with a new access time, but in a read-only mount;
\* when that fails the handle is forgotten.
do_open(f, i, ro, bad) ==
    IF "readinode" \in bad THEN [h |-> NoHandle, lost |-> 0]
    ELSE IF ~ ro /\ "open.atime" \in bad THEN [h |-> NoHandle, lost |-> 1]
    ELSE [h |-> ext2fs_file_open2(f, i), lost |-> 0]

do_write_IgnoresFlush(f, h, off, len, v, bad) ==
    LET w == ext2fs_file_write(f, h, off, len, v, bad) IN
    [fs |-> w.fs, h |-> w.h, n |-> w.n, rc |-> "ok"]

do_write_AppendsToSize(f, h, off, len, v, bad) ==
    LET w == ext2fs_file_write(f, h, off, len, v, bad)
        s == ext2fs_file_set_size2(w.fs, w.h, h.inode.size + w.n)
        l == ext2fs_file_flush(s.fs, s.h, bad)
    IN  [fs |-> l.fs, h |-> l.h, n |-> w.n, rc |-> "ok"]

\* The end of the file moves to the end of what was written, which counts from
\* the offset even if nothing was.
MoveEnd(w, off, size, bad) ==
    LET s == ext2fs_file_set_size2(w.fs, w.h, off + w.n) IN
    IF w.rc = "EIO" \/ off + w.n <= size THEN w
    ELSE IF "write.size" \in bad THEN [w EXCEPT !.rc = "EIO"]
    ELSE [w EXCEPT !.fs = s.fs, !.h = s.h]

FlushWritten(w, bad) ==
    LET l == ext2fs_file_flush(w.fs, w.h, bad) IN
    IF w.rc = "EIO" THEN [w EXCEPT !.n = 0]
    ELSE IF l.rc = "EIO" THEN [w EXCEPT !.rc = "EIO", !.n = 0]
    ELSE [w EXCEPT !.fs = l.fs, !.h = l.h, !.rc = "ok"]

\* The loop goes on with what is left until an error; a full disk is none.
do_write(f, h, off, len, v, bad) ==
    FlushWritten(MoveEnd(ext2fs_file_write(f, h, off, len, v, bad),
                         off, h.inode.size, bad), bad)

do_release_NoClose(f, h, bad) ==
    [Ret(ext2fs_file_flush(f, h, bad).fs, "ok") EXCEPT !.lost = 1]

\* ext2fs_file_close: flushes, and frees the handle whether that worked or not.
do_release(f, h, bad) ==
    LET l == ext2fs_file_flush(f, h, bad) IN
    Ret(l.fs, IF l.rc = "ok" THEN "ok" ELSE "EIO")

-----------------------------------------------------------------------------
(* Handlers *)

\* The handlers below go on with the NULL of a do_open that failed, and the
\* daemon does not survive it.
Died(f, o) == [Ret(f, "died") EXCEPT !.lost = o.lost]

op_read(f, i, off, len, ro, bad) ==
    LET o    == do_open(f, i, ro, bad)
        r    == o.h.inode
        data == [p \in off .. (IF off + len < r.size THEN off + len ELSE r.size) - 1
                    |-> PageOf(f, r, p)]
        c    == do_release(f, o.h, bad)
    IN  IF o.h = NoHandle THEN Died(f, o)
        ELSE IF "read.data" \in bad THEN [c EXCEPT !.rc = "EIO"]
        ELSE [c EXCEPT !.rc = "ok", !.data = data]

CloseWritten(w, bad) == [do_release(w.fs, w.h, bad) EXCEPT !.rc = w.rc, !.n = w.n]

op_write(f, i, off, len, v, ro, bad) ==
    LET o == do_open(f, i, ro, bad) IN
    IF o.h = NoHandle THEN Died(f, o)
    ELSE CloseWritten(do_write(f, o.h, off, len, v, bad), bad)

\* The inode is read again before its times are written.
op_truncate(f, i, size, ro, bad) ==
    LET o == do_open(f, i, ro, bad)
        s == ext2fs_file_set_size2(f, o.h, size)
        c == do_release(s.fs, s.h, bad)
    IN  IF o.h = NoHandle THEN [Ret(f, "ENOENT") EXCEPT !.lost = o.lost]
        ELSE IF "truncate.size" \in bad THEN [do_release(f, o.h, bad) EXCEPT !.rc = "EIO"]
        ELSE IF bad \cap {"truncate.reread", "truncate.inode"} # {}
             THEN [c EXCEPT !.rc = "EIO"]
        ELSE c

\* The handle of a target that could not be written is forgotten.
CloseTarget(w, bad) ==
    IF w.n # 1 THEN [Ret(w.fs, "EIO") EXCEPT !.lost = 1]
    ELSE do_release(w.fs, w.h, bad)

\* A short target stays in the inode.
op_symlink(f, i, v, long, ro, bad) ==
    LET made == [f EXCEPT !.inode[i] = NewInode("lnk", IF long THEN Zero ELSE v)]
        o    == do_open(made, i, ro, bad)
    IN  IF ~ long THEN Ret(made, "ok")
        ELSE IF o.h = NoHandle THEN [Ret(made, "EIO") EXCEPT !.lost = o.lost]
        ELSE CloseTarget(do_write(made, o.h, 0, 1, v, bad), bad)

\* A link with blocks is long, and its target in the block i_block[0] names;
\* with extents that word is not the number of a block of the file.
op_readlink(f, i, bad) ==
    LET r == f.inode[i]
        b == IF Extents THEN HeaderBlock ELSE r.map[0]
        Target(v) == [Ret(f, "ok") EXCEPT !.data = [p \in {0} |-> v]]
    IN  IF "readinode" \in bad THEN Ret(f, "EIO")
        ELSE IF Blocks(r) = {}
             THEN IF r.short = Zero THEN Ret(f, "ok") ELSE Target(r.short)
        ELSE IF "read.data" \in bad \/ b \notin Block THEN Ret(f, "EIO")
        ELSE Target(f.content[b])

\* The last link goes: do_writeinode gives the blocks back.
op_unlink(f, i) ==
    Ret([f EXCEPT !.inode[i] = NewInode("none", Zero),
                  !.used = @ \ Blocks(f.inode[i])], "ok")

-----------------------------------------------------------------------------
(* Requests *)

Init ==
    /\ disk = [inode   |-> [i \in File |-> NewInode("none", Zero)],
               content |-> [b \in Block |-> Zero], used |-> {}]
    /\ fh = [a \in Handle |-> NoHandle]
    /\ readonly = FALSE
    /\ up = TRUE
    /\ ret = [op |-> "mount", rc |-> "ok", n |-> 0, data |-> <<>>,
              lost |-> 0, clean |-> TRUE]

\* The call sites on the way of a handler: failures of others change nothing.
SitesOf(op) ==
    LET open  == {"readinode"} \cup IF readonly THEN {} ELSE {"open.atime"}
        write == open \cup {"write.data", "write.size"}
    IN  CASE op \in {"open", "create"} -> open
          [] op = "read"     -> open \cup {"read.data"}
          [] op = "readlink" -> {"readinode", "read.data"}
          [] op \in {"write", "symlink"} -> write
          [] op = "truncate" -> open \cup {"truncate.size", "truncate.reread",
                                           "truncate.inode"}
          [] OTHER -> {}

Done(op, r, bad) ==
    /\ bad \subseteq SitesOf(op)
    /\ disk' = r.fs
    /\ up' = (r.rc # "died")
    /\ ret' = [op |-> op, rc |-> r.rc, n |-> r.n, data |-> r.data,
                lost |-> r.lost, clean |-> bad = {}]
    /\ UNCHANGED readonly

Is(i, k)     == disk.inode[i].kind = k
OpenOn(a, i) == fh[a] # NoHandle /\ fh[a].file = i

\* do_open into fi->fh.
Opened(op, a, f, i, rc, bad) ==
    LET o == do_open(f, i, readonly, bad) IN
    /\ fh[a] = NoHandle
    /\ fh' = [fh EXCEPT ![a] = o.h]
    /\ Done(op, [Ret(f, IF o.h = NoHandle THEN rc ELSE "ok") EXCEPT !.lost = o.lost], bad)

Open(a, i, bad) ==
    /\ Is(i, "reg")
    /\ Opened("open", a, disk, i, "ENOENT", bad)

Create(a, i, bad) ==
    /\ ~ readonly
    /\ Is(i, "none")
    /\ Opened("create", a, [disk EXCEPT !.inode[i] = NewInode("reg", Zero)], i, "EIO", bad)

\* The path of a request on an open file is the one of the file of fi->fh.
Read(a, i, off, len, bad) ==
    /\ OpenOn(a, i)
    /\ Done("read", op_read(disk, i, off, len, readonly, bad), bad)
    /\ UNCHANGED fh

Write_ThroughHandle(a, i, off, len, v, bad) ==
    LET w == do_write(disk, fh[a], off, len, v, bad) IN
    /\ ~ readonly
    /\ OpenOn(a, i)
    /\ off + len <= MaxPages
    /\ fh' = [fh EXCEPT ![a] = w.h]
    /\ Done("write", [Ret(w.fs, w.rc) EXCEPT !.n = w.n], bad)

Write(a, i, off, len, v, bad) ==
    /\ ~ readonly
    /\ OpenOn(a, i)
    /\ off + len <= MaxPages
    /\ Done("write", op_write(disk, i, off, len, v, readonly, bad), bad)
    /\ UNCHANGED fh

\* By path, or by a descriptor: op_ftruncate calls op_truncate.
Truncate(i, size, bad) ==
    /\ ~ readonly
    /\ Is(i, "reg")
    /\ Done("truncate", op_truncate(disk, i, size, readonly, bad), bad)
    /\ UNCHANGED fh

op_flush(a) ==
    LET l == ext2fs_file_flush(disk, fh[a], {}) IN
    /\ fh[a] # NoHandle
    /\ fh' = [fh EXCEPT ![a] = l.h]
    /\ Done("flush", Ret(l.fs, IF l.rc = "ok" THEN "ok" ELSE "EIO"), {})

op_release(a) ==
    /\ fh[a] # NoHandle
    /\ fh' = [fh EXCEPT ![a] = NoHandle]
    /\ Done("release", do_release(disk, fh[a], {}), {})

Symlink(i, v, long, bad) ==
    /\ ~ readonly
    /\ Is(i, "none")
    /\ Done("symlink", op_symlink(disk, i, v, long, readonly, bad), bad)
    /\ UNCHANGED fh

Readlink(i, bad) ==
    /\ Is(i, "lnk")
    /\ Done("readlink", op_readlink(disk, i, bad), bad)
    /\ UNCHANGED fh

\* libfuse hides a file that is open under another name.
Unlink(i) ==
    /\ ~ readonly
    /\ ~ Is(i, "none")
    /\ \A a \in Handle : ~ OpenOn(a, i)
    /\ Done("unlink", op_unlink(disk, i), {})
    /\ UNCHANGED fh

\* Unmounted, when no file is open any more, and mounted again.
Mount(ro) ==
    /\ \A a \in Handle : fh[a] = NoHandle
    /\ readonly' = ro
    /\ ret' = [op |-> "mount", rc |-> "ok", n |-> 0, data |-> <<>>,
              lost |-> 0, clean |-> TRUE]
    /\ UNCHANGED <<disk, fh, up>>

Request(i, bad) ==
    \/ \E a \in Handle :
        \/ Open(a, i, bad)
        \/ Create(a, i, bad)
        \/ \E off \in Page, len \in 1 .. MaxPages :
            \/ Read(a, i, off, len, bad)
            \/ \E v \in Value : Write(a, i, off, len, v, bad)
    \/ \E size \in 0 .. MaxPages : Truncate(i, size, bad)
    \/ \E v \in Value, long \in BOOLEAN : Symlink(i, v, long, bad)
    \/ Readlink(i, bad)

Next ==
    /\ up
    /\ \/ \E i \in File :
            \/ \E bad \in Faults : Request(i, bad)
            \/ Unlink(i)
       \/ \E a \in Handle : op_flush(a) \/ op_release(a)
       \/ \E ro \in BOOLEAN : Mount(ro)

Spec == Init /\ [][Next]_vars

-----------------------------------------------------------------------------
(* Properties *)

\* No block belongs to two pages, of one file or of two, and the bitmap has
\* the blocks of files and no other: every handle has a copy of the inode, and
\* one written late would bring back blocks that have gone to another file.
BlocksExact ==
    /\ disk.used = UNION {Blocks(disk.inode[i]) : i \in File}
    /\ \A i, j \in File : \A p, q \in Page :
        /\ disk.inode[i].map[p] # NoBlock
        /\ disk.inode[i].map[p] = disk.inode[j].map[q]
        => i = j /\ p = q

\* A handler that forgets a handle reports an error, or dies: a daemon that
\* answers its requests does not grow (op_open.c:58, op_symlink.c:53).
LossIsReported == [][ret'.lost > 0 => ret'.rc # "ok"]_vars

\* While no call of the library fails no handler does, in a read-only mount as
\* in one for writing.  The exception is the link without room for its target.
CleanServes ==
    [][ret'.clean =>
        \/ ret'.rc = "ok"
        \/ ret'.op = "symlink" /\ ret'.rc = "EIO" /\ FreeBlocks(disk) = {}]_vars

TextOf(r) ==
    IF r.kind = "lnk" /\ Blocks(r) = {} /\ r.short # Zero
    THEN [p \in {0} |-> r.short]
    ELSE [p \in 0 .. r.size - 1 |-> PageOf(disk, r, p)]

Texts == [i \in File |-> TextOf(disk.inode[i])]

Contents == INSTANCE PosixFile WITH
    kind  <- [i \in File |-> disk.inode[i].kind],
    text  <- Texts,
    reply <- [op |-> ret.op, rc |-> IF ret.rc = "ok" THEN "ok" ELSE "error",
              n |-> ret.n, data |-> ret.data]

\* A read returns the last write, whichever of the open files they came
\* through and whatever was truncated, removed and written to the same blocks
\* since; a request that fails spoils its own pages at most.
ImplementsPosixFile == Contents!Spec

\* readlink returns what symlink was given, on every kind of file system the
\* daemon mounts (op_readlink.c:48).
ReadlinkReturnsTarget ==
    [][ret'.op = "readlink" /\ ret'.clean =>
        \E i \in File :
            disk.inode[i].kind = "lnk" /\ ret'.data = TextOf(disk.inode[i])]_vars
=============================================================================
