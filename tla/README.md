# fuse-ext2: models, checks and proofs

fuse-ext2 shows an ext2/3/4 file system through FUSE. A daemon of one thread
answers the requests of the kernel with calls to libext2fs; a request is a
handful of such calls, each of which may fail, with nothing that takes back what
the earlier ones have written. This directory holds TLA+ models of the daemon and
of the programs around it, the TLC configurations that check them on small
instances, and proofs for instances of any size: of every invariant, action property
and refinement the runs check, the refinement of the contents for file systems without
extents, and the one liveness property apart.

Sources are cited as `file:line` in `src/fuse-ext2/` unless a path says otherwise.

- [Inventory](#inventory)
- [Modules](#modules)
- [Runs](#runs)
- [What disagrees with the code's own words](#what-disagrees-with-the-codes-own-words)
- [Proofs](#proofs)
- [What is not modelled](#what-is-not-modelled)
- [Plan](#plan)

## Inventory

### The system's parts

| part | source | state it keeps | operations |
|---|---|---|---|
| the daemon's life | `fuse-ext2.c`, `do_probe.c`, `op_init.c`, `op_destroy.c`, `fuse-ext2.h:60-84` | `struct extfs_data`: flags, `last_flush`, the open file system | parse the options, probe, init, serve, flush the bitmaps, destroy |
| handlers that change names | `op_create.c`, `op_mknod.c`, `op_mkdir.c`, `op_symlink.c`, `op_link.c`, `op_unlink.c`, `op_rmdir.c`, `op_rename.c` | none of their own: copies of inodes on the stack | read inodes, add and delete entries, write inodes back |
| what the handlers share | `do_readinode.c`, `do_writeinode.c`, `do_killfilebyinode.c`, `do_check.c`, loops in `op_create.c` and `op_rename.c` | none | write an inode, or free the file when its count is 0 |
| file contents | `op_open.c`, `op_read.c`, `op_write.c`, `op_truncate.c`, `op_release.c`, `op_flush.c`, `op_fsync.c` | file handles of the library, in `fi->fh` | blocks taken and given back, inode written |
| attributes | `op_getattr.c`, `op_fgetattr.c`, `op_access.c`, `op_chmod.c`, `op_chown.c`, `op_utimens.c`, `op_statfs.c`, `do_fillstatbuf.c`, `op_getxattr.c` | none | read one inode; three of them write it |
| reading | `op_readdir.c`, `op_readlink.c` | none | iterate a directory; find the target of a link |
| fuse-ext2.probe | `fuse-ext2.probe.c` | none | options, `do_probe` |
| fuse-ext2.wait | `fuse-ext2.wait.m` | the path of the last announced mount | start the mount command, wait for it, wait for the announcement |
| scripts, installers, preference pane | `tools/macosx`, `contrib`, `*.install.m` | none of the file system | start the programs above |
| libext2fs | not in the repository | inode table, directory blocks, two bitmaps, superblock | the calls the handlers make |

### How they interact

The kernel's VFS resolves paths, checks what it can (no hard link to a directory,
no rename of a directory below itself, `mknod` only for a new name) and sends a
request. The daemon runs `fuse_main` with `-s` (`fuse-ext2.c:399-405`): one
request at a time, to its end. Every handler starts with `current_ext2fs`, which
may write the bitmaps. Handlers call each other: `op_create` is `op_open`,
`do_create`, `op_open`; `op_symlink` is `do_create` and a write; `op_rename`
deletes its destination with `op_unlink` or `op_rmdir`. The only shared state is
the file system in the library, and the copies of its inodes that a handler keeps
while it, or a handler it calls, changes the originals.

On macOS `fuse-ext2.util` probes the device with fuse-ext2.probe and mounts it
through fuse-ext2.wait, which starts the daemon and waits for macFUSE to announce
the mount.

### What is hard

- **Stale copies.** An inode is read, the library changes it (a directory grows, a
  file gives back its blocks, a count changes), the copy is written back.
- **Half-done requests.** Entry, inode, counts, blocks and bitmaps are written one
  by one; any of these writes may fail and the handler returns.
- **The count that frees.** `do_writeinode` frees the file when the copy it is
  given has no links. A count one too low anywhere, and a later request frees a
  file that still has a name.
- **Running full.** A directory without room, a disk without blocks or inodes, in
  the middle of a handler.
- **Memory and disk.** Inodes and directories are written by the handlers, the
  bitmaps when the next request comes late enough.
- **Two handles on one file.** The handle of `op_open` stays in `fi->fh` with its own
  copy of the inode and its own buffer, while `op_write` and `op_truncate` change the
  file through handles of their own.
- **Two shapes of one word.** `i_block[0]` and `i_block[1]` are block numbers, a
  target, a device number, or the header of the extents; the code that writes them
  and the code that reads them decide separately which. Owners are kept in halves.
- **Order of options.** `ro`, `rw`, `rw+` and `force` set two flags and a string,
  in any order.
- **Early and late announcements** of this mount and of others, for fuse-ext2.wait.

There is no concurrency between handlers to look for, and no state on disk other
than the file system itself. `PROJECT.json` lists every hazard at its line.

### What makes each part correct

- names and inodes: every name leads to an inode in use; no inode has more names
  than its count; no name twice in a directory; the directories form one tree
  with matching `..`; each request is one step of that tree, or none;
- blocks: no block in two files, none in use marked free, none free marked used;
- replies: 0 means done, an error means nothing changed;
- contents: a read returns the last write, whichever open file either came through;
  a failed request spoils the pages it was about and no other;
- attributes: `stat` shows what was asked for last, and `statfs` counts the disk
  `mke2fs` laid out;
- the life of a mount: the mode is the one the options ask for; a mount that is
  not read-write changes nothing; what a crash costs is bounded;
- the mount helper: it ends, and knows whether the mount is there.

## Modules

| module | models | state |
|---|---|---|
| `LibExt2fs` | libext2fs as the handlers of names use it (external) | a file system, as a record |
| `Ext2Ops` | the handlers that change names, each a function of a file system to a file system and a reply | none |
| `Ext2Daemon` | the daemon: one request after another, in any order, with failing calls | `fs`, `ret` |
| `PosixTree` | what the other side of the mount is promised: a tree of names | `kind`, `names`, `reply` |
| `Ext2Files` | open files and their contents, and the targets of links | `disk`, `fh`, `readonly`, `up`, `ret` |
| `PosixFile` | what is promised of contents: files as rows of pages | `kind`, `text`, `reply` |
| `Ext2Attributes` | what `stat` shows, how an inode keeps it, and `statfs` | `inode`, `extents`, `rw`, `ret` |
| `PosixAttr` | what is promised of attributes | `attr`, `writable`, `hidden`, `call` |
| `Ext2Mount` | the life of a mount: options, probe, bitmap in memory and on the device, crashes | `phase`, `mount`, `owns`, `used`, `bitmap`, ... |
| `FuseWait` | fuse-ext2.wait, its command and the announcements | `phase`, `command`, `queue`, ... |
| `MCExt2Daemon`, `MCExt2Files`, `MCExt2Attributes`, `MCExt2Mount`, `MCFuseWait` | small instances for TLC | |
| `Ext2TypeProofs`, `Ext2SoundProofs`, `Ext2HandlerProofs`, `Ext2TreeProofs` | theorems about `Ext2Daemon`: its types, what a library call does to a sound file system, what a handler leaves however it ends, the tree it shows | |
| `Ext2FilesProofs`, `Ext2AttributesProofs`, `Ext2MountProofs`, `FuseWaitProofs` | theorems about the module each is named for | |

Each component looks at the same daemon from one side, with the data its properties
tell apart: `Ext2Daemon` has names and blocks and no contents, `Ext2Files` contents
and handles and no names, `Ext2Attributes` the words of an inode and neither,
`Ext2Mount` the bitmap at two places and of the handlers only what they do to it.

`PROJECT.json` maps every definition to the lines it stands for.

An operator named `X_Something` is `X` with a mistake a programmer could make
(a dropped test, an order swapped, an error lost). No specification uses it: each
property is tried with one of them in the place of `X`, and must then fail.

### `LibExt2fs`

A file system is the inode table, the contents of directory blocks, the `..` of
each directory, and the two bitmaps. An inode is its kind, its link count (modulo
`LinkMod`, which is 2^16 in the code) and the set of its blocks. A block read as a
directory holds a partial map from names to inodes, with at most `SlotsPerBlock`
entries; that is what makes a directory full. A freed inode keeps its last
contents, because the code leaves them there and a handler could find them.

`ext2fs_link` does not look whether the name exists and touches no count,
`ext2fs_unlink` clears one entry, `ext2fs_expand_dir` takes a block and writes the
inode of the directory, `ext2fs_mkdir` does all of it. `ext2fs_new_inode` may
return any free number; the block found is one fixed choice, since nothing depends
on which.

### `Ext2Ops`

A handler takes the file system `f`, the resolved parent and last component of
each path, and `bad`, the set of call sites that fail this time; it returns the
file system it leaves and its reply. A copy of an inode that C keeps on the stack
is an inode of an earlier version of the file system: `op_link` writes
`f.inode[d]`, the parent before it grew, and `do_create` writes `h.inode[d]`, the
parent read again. Tests are in the order of the C code.

Call sites come in two classes. After an **unsafe** one (`UnsafeSites`: seven, writes
that follow the writing of a directory entry, and the deletion of the old name of a
rename) the code leaves a name without an inode or a count too low. After a **safe**
one (`SafeSites`) at worst something leaks. The classes are a statement about the code, and the runs and proofs below
establish it.

### `Ext2Daemon`

One action per request. Its guard is what the VFS has settled; the tests of the
handler are in `Ext2Ops`. `ret` is the last reply with the inode it was about,
which the action properties need. `mkfs` and the mount are the initial state.

### `PosixTree` and the refinement

`PosixTree` knows nodes, kinds and names: no blocks, bitmaps or counts. A node
lives while it has a name. `Ext2Daemon` implements it through
`Tree == INSTANCE PosixTree WITH ...`: a node's kind is that of its inode if the
inode is in use, its names are what `ext2fs_namei` finds. With no failing call,
every request is one step of the tree or none (`ImplementsPosixTree`), although
a rename is many writes. A refused request changes nothing, with one exception
the abstract specification spells out: a long symbolic link whose target finds no
block leaves its name (`op_symlink.c:52`).

### `Ext2Files` and `PosixFile`

The unit of data is the page, one block of a file. A file system is the inodes, each
with a block or none for every page, the contents of the blocks and the bitmap. A
handle of libext2fs is a copy of the inode and one page in a buffer; `fh` holds those
of `op_open`, one for each open file, any number of them on the same file. `op_read`,
`op_write` and `op_truncate` do not use them: they find the file by its path, open a
handle of their own with `do_open`, and close it with `do_release`. So the handles in
`fh` carry inodes that grow old, and the properties say that nobody minds.

`ext2fs_file_write` goes page by page through the buffer until a page finds no block
or the buffer cannot be written. `MoveEnd` and `FlushWritten` are the rest of
`do_write`: the end of the file, and the flush whose result is all that tells a write
that its last page is on the device. `ret.lost` counts handles that nobody will close.
`op_write` and `op_read` go on with the `NULL` of a `do_open` that failed; the model
lets the daemon die there (`up`), which is what the dereference in the library does on
the platforms it is built for.

`op_symlink` and `op_readlink` are here for the words of `i_block`: a long target lives
in a block, and `op_readlink` takes `i_block[0]` for its number. On a file system with
extents that word is the extent header (`HeaderBlock`, any number).

`PosixFile` has files as rows of pages. `ImplementsPosixFile` maps a file to its pages
as a handle opened now would read them. A write may be short, a failed one may leave
anything in its own pages, and a write past the end that stores nothing still moves the
end of the file, as `do_write` does (`op_write.c:55`).

### `Ext2Attributes` and `PosixAttr`

The numbers are those of the disk format. An owner is two halves of 16 bits, the type
and the permissions share `i_mode`, a device number is in `i_block[0]` if it is small
and in `i_block[1]` otherwise. Files made by Linux are in the initial state, with
`i_block` as Linux fills it; `Mknod` fills it as `do_create` does.

`ImplementsPosixAttr` says that `stat` shows what was asked for. It has one exception,
`Hidden`: on a file system with extents `do_create` leaves the extent header in
`i_block`, and a device number above the old format, or 0:0, comes back as another one
(`op_create.c:145`). No text of the repository promises those, so this is an exception
in the property and not a finding.

`Statfs` is tried on every super block of `Super`, at any time. `Metadata` is the
layout `mke2fs` makes, a set of blocks, in five parts for each group: the copies of the
super block and of the descriptors, room for descriptors to come (`resize_inode`, a
default), two bitmaps and the inode table, the last three where the descriptor of the
group says, which with `flex_bg` is in another group. No two parts overlap
(`Consistent`). `Overhead` is the sum the code computes. The room for descriptors is
not in it (`op_statfs.c:85-95`): those blocks belong to the resize inode, so that
`statfs` counts them as it counts the blocks of a file, and `StatfsCountsLayout` says
just that, `f_blocks = blocks - |Metadata \ ResizeInode|`. Whether they should be
subtracted no text of the repository says. Three features
that are no default change the layout and are known neither to `op_statfs` nor to the
model: `meta_bg`, which places the descriptors in another way, `sparse_super2` and
`bigalloc`. Which groups keep a copy of the super block is decided by
`ext2_group_spare` and its `test_root`, which divides, in the code, and by what a power
of a prime is in the layout: a number all of whose divisors but 1 are divisible by the
prime (`PowerOf`).

### `Ext2Mount`

`Main` is `main` of the daemon up to the end of `op_init`; a request is
`current_ext2fs` followed by what the handler does to the blocks of a file and to
the bitmap. The handlers of `Ext2Ops` appear as the three things they do to the
bitmap: nothing, take a block, give blocks back. `Crash` loses what is in memory,
`Tick` lets time pass, `Probe` is fuse-ext2.probe. Three history variables serve
the properties: when the last request came, since when each block has differed
between memory and device, and whether a stop has cost the mark of a block in use.

One block bitmap stands for the two. Inode and directory writes count as on the
device when the handler has made them: the library's own small cache is not
modelled, so the bound on what a crash costs is about the bitmaps.

### `FuseWait`

The helper, the command it starts and the mounts of others. `Handle` is one round
of the loop around `CFRunLoopRunInMode`, with the callback in it; `TimedOut` is
the round that handles nothing. The notification center delivers in order, to an
observer that is registered.

## Runs

`tlc -workers 2 -config X.cfg M` in this directory. Twelve runs; those marked V
must find a violation. Times are those of two workers. The counts of `exact` and
`safe_faults` differ by a few states from one run to the next: which of several states
that are the same but for symmetry and `VIEW` comes first depends on the workers.

| run | cfg | module | distinct states | time | shows |
|---|---|---|---|---|---|
| `exact` | `Exact.cfg` | `MCExt2Daemon` | 21,217 | 80 s | with no failing call: counts, bitmaps, names and `..` exact, errors atomic, refinement of `PosixTree` |
| `safe_faults` | `SafeFaults.cfg` | `MCExt2Daemon` | 20,884 | 70 s | every request, any one safe call failing in each |
| `any_fault` | `AnyFault.cfg` | `MCExt2Daemon` | 14,176 | 2.5 min | any one call failing, from every sound file system |
| `files` | `Files.cfg` | `MCExt2Files` | 14,134 | 30 s | contents, handles and links, any one call failing in a request; refinement of `PosixFile` |
| `attributes` | `Attributes.cfg` | `MCExt2Attributes` | 7,024 | 2.5 min | one file with any attributes, refinement of `PosixAttr`; `statfs` on 118 disks |
| `mount` | `Mount.cfg` | `MCExt2Mount` | 130,878 | 21 s | lists of options in every order; when the bitmap reaches the device, what a crash costs |
| `wait` | `Wait.cfg` | `MCFuseWait` | 3,709 | 2 s | the mount helper |
| `link_into_full` V | `LinkIntoFull.cfg` | `MCExt2Daemon` | | | `op_link` loses the name it reports |
| `rename_swallows` V | `RenameSwallows.cfg` | `MCExt2Daemon` | | | `op_rename` returns 0 for a rename that failed |
| `idle_flush` V | `IdleFlush.cfg` | `MCExt2Mount` | | | no flush without a request |
| `read_only_probe` V | `ReadOnlyProbe.cfg` | `MCExt2Mount` | | | the probe always opens for writing |
| `readlink_extents` V | `ReadlinkExtents.cfg` | `MCExt2Files` | | | `op_readlink` takes the extent header for a block number |

### The properties

Whichever safe call sites fail (`safe_faults`, and `exact`):

- `NoSharedBlocks`: no block in two files, none in use marked free;
- `NamesResolve`: every name leads to an inode in use;
- `NoUndercount`: no file has more names than its count;
- `UniqueNames`: no name twice in a directory, though `ext2fs_link` does not look;
- `SuccessMeansDone`: a 0 means one name more, one less, or, for rename, as many names
  of the file as before. That the file has moved is `RenameMoves`; the rename that
  swallows an error and does nothing passes this one.

When nothing fails (`exact`):

- `LinkCountsExact`, `AccountingExact`, `OneTree`: counts, bitmaps and `..` are
  what the tree says, also after requests that returned an error half way on a
  full disk;
- `ErrorsAreAtomic`: an error changed no name;
- `RenameMoves`: a rename that returns 0 has moved the file;
- `ImplementsPosixTree`: the refinement.

Whatever fails (`any_fault`), from a `Sound` file system, one on which the first four
hold, the root is a directory, and a free inode has no link left:

- `RenameNeverLoses`: the file a rename moves keeps a name;
- `DamageIsConfined`: at most the inode of the request is left with a name too
  many: every other name leads to an inode in use, every other count covers its names;
  blocks are never shared, no name is there twice. And no other file loses a name, its
  inode or a block, with one exception: the destination of a rename is deleted before the
  file is moved there, and does not come back when a later call fails
  (`op_rename.c:162-194`). It loses that name only, and its inode only if it has no other;
- `DamageIsReported`: the handler does not return 0 from there.

This run explores only from sound file systems (`CONSTRAINT Sound`): what is left
after an unsafe failure is a case for e2fsck.

Contents (`files`), whichever call fails:

- `BlocksExact`: a block is marked exactly if one page of one file has it: no handle
  writes back a copy of an inode that has grown old;
- `ImplementsPosixFile`: a read returns the last write;
- `LossIsReported`: a handle is forgotten only by a request that reports an error, or
  from which the daemon dies;
- `CleanServes`: while no call fails, no handler does, the long link without room for
  its target apart: what `fi->fh` and the modes of a mount are handled like never
  turns a good request into an error, a read-only mount's access time included.

Attributes (`attributes`):

- `ImplementsPosixAttr`: `stat` shows what was asked for, one call changes what it is
  for and leaves the rest, a failed one changes nothing;
- `StatfsCountsLayout`: the blocks `statfs` says are for files are all but the
  metadata, the resize inode counted as a file;
- `StatfsAddsUp`: what `df` computes from the answer is never negative.

The life of a mount (`mount`):

- `ModeAsDocumented`: the daemon's flag and the option the kernel gets agree, and
  the mount is read-write exactly if the options have `force` or `rw+`, anywhere,
  and every `ro` has an `rw` or `rw+` after it, as the manual has it (`ReadWriteAsked`);
- `DeviceUntouched`: nothing on the device changes otherwise;
- `FlushedInTime`: at every request, changes older than the timeout are on the
  device, if `ext2fs_write_bitmaps` works;
- `SharingNeedsLoss`: over any number of crashes and mounts, two files share a
  block only if some stop came between an allocation and its flush.

The mount helper (`wait`):

- `HonestEnd`: it ends as notified exactly if this mount was announced;
- `EndsAfterCommand` (liveness): once its command is over, it ends.

### Bounds, and why they are enough

- `Ino`: three inodes in the runs with failures: a root, and two files or directories
  that meet in a rename, a link or a freed number. Four in `exact`, which give a
  directory in a directory and a third to move it to.
- `Name`: two. A rename, a link and a name that exists need no more.
- `Block` of `Ext2Daemon`: two to four, so that disks run full in the middle of
  handlers: with the parent grown and no block for the new directory, with a link and
  no block for its target.
- `SlotsPerBlock = 1` makes every second name grow its directory; `2` lets a
  directory hold both names in one block.
- `LinkMod` (4 or 8) is the width of a count. `LinkRoom` in the guards of link,
  mkdir and rename keeps requests below it: the 65536th link is not asked for, and
  nothing in the code refuses it (see the hazards).
- `LinkIntoFull = FALSE` keeps `op_link` from a parent without room, where it
  loses the name; the run `link_into_full` lifts it.
- `MaxFileBlocks = 2` bounds the blocks of a file.
- `Faults`: at most one failing site in a request, any number of requests with
  failures. The proofs lift this to any set of sites.
- `files`: two files and two blocks for up to two pages each, so that one file's blocks
  are what the other needs; one place for a handle, since the handlers never read two of
  them together: what matters is a handle and the requests by path beside it. The
  proofs have any number of each. `off + len <= MaxPages` bounds a write.
- `attributes`: the numbers are those of the disk format, on both sides of each limit:
  owners 0, 2^16 - 1 and one with bits in both halves, devices on both sides of
  8 bits of either part and with bits in every part of the encodings, a mode with the
  set-user-id bit. `Supers` are 118 super blocks with 2, 7, 8 or 28 groups, 58 of them
  with reserved descriptor blocks: 25 and 27 are the first powers beyond the bases, and
  with `Metadata` as a set of blocks nothing is counted twice.
- `FLUSH_BITMAPS_TIMEOUT = 2`, `MaxTime = 8`: two flushes and the time between
  them, over several mounts.
- `OptionLists` in `mount`: all lists of up to two options, and of three of the
  four that set a mode. What comes of a list is its parse alone, so equal parses are
  one mount (`CommandLine`).
- `Timeout = 3`, `MaxOthers = 3` in `wait`: the helper can be started over at any
  second.

Symmetry is used where no property is temporal beyond action properties and the
refinement of a safety specification, over inodes other than the root, over names,
over files and over contents.

`VIEW` drops from the fingerprint what no later step reads. `State` is all but the
reply; `InUse` also leaves out what free blocks and free inodes were left with, which
`Ext2Ops` writes before it reads. The properties about replies are action properties,
which TLC evaluates on every step it generates, also on those into states it has seen.
`any_fault` has no `VIEW`: after an unsafe failure a name may lead to an inode that is
marked free.

### Fairness

The specifications of the daemon have none: their properties are safety properties, and
a daemon without requests does nothing. `FuseWait` supposes `WF_vars(Helper)`: the
helper's process is scheduled and time passes in its run loop. Nothing is supposed
of the command or of macFUSE, so the liveness property starts when the command is
over. `MaxOthers` matters here: the code starts the timeout again for every
announcement, so endless announcements of others would keep it for ever.

## What disagrees with the code's own words

- **A hard link into a full directory is lost** (`op_link.c:93`, run
  `link_into_full`). `op_link` reads the parent, lets `ext2fs_expand_dir` give it a
  block, and writes back the copy from before. `op_rename.c:190` says why one must
  not: "ext2fs_expand_dir changes d_dest_inode". The handler returns 0, the name is
  gone, the block is leaked and the count of the source is one too high.
- **A rename that cannot delete its destination returns 0** (`op_rename.c:168`, run
  `rename_swallows`). The error is in `rc`; the handler returns `rt`. The comment at
  `op_rename.c:123` names the one case in which doing nothing is a success.
- **The flush timeout is no maximum** (`fuse-ext2.h:79`, run `idle_flush`). The
  comment calls it "max timeout to flush bitmaps"; only a request flushes, before
  it changes anything. After the last write of a burst the bitmaps stay in memory.
- **A read-only probe is not read-only** (`do_probe.c:32`, run `read_only_probe`).
  `fuse-ext2.util:310` asks for `--readonly`; `do_probe` always opens the device
  read-write, so a device that can only be read is neither recognised nor mounted.

- **The target of a long link is lost to view on ext4** (`op_readlink.c:54`, run
  `readlink_extents`). The handler reads the block whose number is `i_block[0]`; with
  extents that is the header `do_create` itself put there (`op_create.c:130-143`). The
  manual lists ext4 among what the daemon mounts (`fuse-ext2.1:13`). Without extents
  the run `files` has `op_readlink` return every target that fits in a block, the only
  ones it has.

Not runs, but seen on the way: `fuse-ext2.wait` promises its timeout for the whole
mount operation (`fuse-ext2.wait.m:135`) and starts it again for every other mount,
and does not apply it to the command; it returns 0 when it gives up. `op_utimens`
knows `UTIME_OMIT` and takes the seconds of `UTIME_NOW`, which nobody sets, for a time.
A link count at its width wraps to 0, and the next write of the inode frees the file.

## Proofs

`tlapm M.tla` for each of the eight modules. Every theorem is for every set of inodes,
names, blocks, files, handles, values, owners, times and devices, every width and every
bound the modules' own assumptions admit.

| theorem | module | statement | assumes beyond the modules' own assumptions |
|---|---|---|---|
| `Typing` | `Ext2TypeProofs` | `Spec => []TypeOK` | nothing; `Faults` is any set of sets of call sites |
| `BlocksFit` | `Ext2TypeProofs` | `Spec => []Packed(fs)`: no directory block holds more entries than it has room for | `Name` is finite; any `Faults` |
| `BlocksNeverShared` | `Ext2HandlerProofs` | `Spec => []NoSharedBlocks` | `FiniteNames`, `Faults \subseteq SUBSET SafeSites` |
| `NamesAlwaysResolve` | `Ext2HandlerProofs` | `Spec => []NamesResolve` | the same |
| `CountsCoverNames` | `Ext2HandlerProofs` | `Spec => []NoUndercount` | the same |
| `NamesOnce` | `Ext2HandlerProofs` | `Spec => []UniqueNames` | the same |
| `RenameKeepsFile` | `Ext2HandlerProofs` | `Spec => RenameNeverLoses` | `FiniteNames`; any `Faults` |
| `DamageConfined` | `Ext2HandlerProofs` | `Spec => DamageIsConfined` | the same |
| `DamageReported` | `Ext2HandlerProofs` | `Spec => DamageIsReported` | the same |
| `SuccessIsDone` | `Ext2TreeProofs` | `Spec => SuccessMeansDone` | `FiniteDisk`, `Faults \subseteq SUBSET SafeSites`, `~ LinkIntoFull` |
| `ErrorsLeaveNames` | `Ext2TreeProofs` | `Spec => ErrorsAreAtomic` | `FiniteDisk`, `NoFailure` |
| `AccountingHolds` | `Ext2TreeProofs` | `Spec => []AccountingExact` | the same |
| `TreeHolds` | `Ext2TreeProofs` | `Spec => []TreeFS`, the inductive invariant of the next four | the same |
| `LinkCountsHold` | `Ext2TreeProofs` | `Spec => []LinkCountsExact` | the same |
| `OneTreeHolds` | `Ext2TreeProofs` | `Spec => []OneTree` | the same |
| `RenameTakesPlace` | `Ext2TreeProofs` | `Spec => RenameMoves` | the same |
| `TreeAsPromised` | `Ext2TreeProofs` | `Spec => ImplementsPosixTree` | the same |
| `FilesTyping` | `Ext2FilesProofs` | `Spec => []TypeOK` | nothing |
| `FileBlocksExact` | `Ext2FilesProofs` | `Spec => []BlocksExact` | nothing |
| `ForgottenHandlesReported` | `Ext2FilesProofs` | `Spec => LossIsReported` | nothing |
| `FilesAsPromised` | `Ext2FilesProofs` | `Spec => ImplementsPosixFile` | `Extents = FALSE` |
| `CleanRequestsServed` | `Ext2FilesProofs` | `Spec => CleanServes` | `Extents = FALSE` |
| `AttributesTyping` | `Ext2AttributesProofs` | `Spec => []TypeOK` | nothing |
| `AttributesAsPromised` | `Ext2AttributesProofs` | `Spec => ImplementsPosixAttr` | nothing |
| `StatfsCounts` | `Ext2AttributesProofs` | `Spec => StatfsCountsLayout` | nothing |
| `StatfsNeverNegative` | `Ext2AttributesProofs` | `Spec => StatfsAddsUp` | nothing |
| `MountTyping` | `Ext2MountProofs` | `Spec => []TypeOK` | nothing |
| `ModeIsDocumented` | `Ext2MountProofs` | `Spec => []ModeAsDocumented` | nothing |
| `ReadOnlyLeavesDevice` | `Ext2MountProofs` | `Spec => DeviceUntouched` | nothing |
| `SharedAfterLossOnly` | `Ext2MountProofs` | `Spec => []SharingNeedsLoss` | nothing; any calls may fail |
| `FlushedAtRequests` | `Ext2MountProofs` | `Spec => []FlushedInTime` | `FlushWorks`: `ext2fs_write_bitmaps` is not among the failing calls |
| `HelperTyping` | `FuseWaitProofs` | `Spec => []TypeOK` | nothing |
| `HelperIsHonest` | `FuseWaitProofs` | `Spec => []HonestEnd` | nothing |

`FiniteNames` says that `Block` and `Name` are finite, without which `Cardinality`
means nothing; `FiniteDisk` says it of `Ino` too, whose subdirectories are counted and
walked. `NoFailure` is `Faults \subseteq {{}}` and `~ LinkIntoFull`: no call
fails, and `op_link` is not sent to a parent without room, where it does lose the name
(run `link_into_full`). Running out of blocks, inodes and room in directories is
no failure in this sense and happens in all of the theorems. Where `Faults` is
free or among the safe sites, any set of sites may fail together in a request, where
the runs let one fail. `LinkRoom` in the guards keeps counts below their width in all
of them.

### Names and blocks

None of the four invariants is inductive alone. That a killed
file frees no block of another one needs disjointness; that the inode killed has
no name left needs the counts; that a count is reached only from below needs the
names to resolve; that `ext2fs_unlink` takes the last entry of a name needs the name
to be there once. And within a handler most of it is broken for a while: between
the new entry and the new count of `op_link`, between the two names of a rename.
The proofs therefore do not go action by action over the state but call by call
inside the handlers, with

    Good(f, e)

a conjunction of the type, disjoint and marked blocks, directories without a double
entry, whose contents lead to live inodes, counts that cover the names, where inode
`e` may have one name more than its count, and free inodes without a link.
`Good(f, NoIno)` is the inductive invariant between
requests. `Ext2SoundProofs` says what each library call does to it: `LinkGood`
turns `Good(f, NoIno)` into `Good(g, i)`, `UnlinkGood` goes the other way,
`LinkGood` wants the name to be absent, which is why each handler above it carries that
fact, from a failed lookup or, in `op_rename`, from the deletion of the destination
(`FewerEntries`: no other call brings an entry back). `ExpandGood`, `WriteGood`,
`KillGood`, `BirthGood`, `NewDirGood` keep it under the
condition the handlers have to meet (`WriteGood`: the copy written lists no block
the inode has not now, and links for all its names: an old copy may be short of a
block, never of a link).
`Ext2HandlerProofs` follows each handler from call to call, through every early
return, and combines them. `RenameKeepsFile` follows one name more along the way:
`Keeps` says that deleting the destination takes no name of another file, and
`MoveEntryGood` that the entry is in both places when the old one goes.

For the last part of `DamageIsConfined` the handlers are followed a third time, for the
files they are *not* about. `Spares(f, g, T)` is the strong form: all files but those in
`T` keep their inode, their blocks and every entry. Every call but the two that delete
is like that for the inode of the request, and so are the handlers that create or write.
Deleting is weaker: `Cuts(f, g, d, n)` takes one entry away, and the file (`Survives`)
only with its last one. A rename is a cut at its destination followed by calls that spare
all but the file that moves, `Displaces`; the name cut is then free or the file's
(`Overwritten`). `Lasts` says by entries what `Spared` says by lookups, and `PlacesHold`
and `LastsSpared` go from one to the other, which needs each name to be there once.

The lemmas about the handlers are for any set `bad` of failing calls and conclude

    Leaves(r, i, bad)

the file system left is `Good(r.fs, NoIno)`, or it is `Good(r.fs, i)` for the inode `i` of the
request, and then the reply is an error and an unsafe site is in `bad`. With safe sites only
the second case is out, which gives the four invariants; with any sites one step
from a `Sound` file system gives `RenameKeepsFile`, `DamageConfined` and
`DamageReported`; where only safe sites fail every file system is sound, and the first
holds without that premise (`RenameAlwaysKeepsFile`). For that `Sound` has to say all that `Good` says of a
typed file system (`SoundGood`), `FreeUnlinked` included: between `ext2fs_inode_alloc` and the
writing of the new inode `do_create` has made an old inode live, and if that one
had links left from its former life, a failure there would bring an old
file back with blocks that may be another's by now. (`do_killfilebyinode` does write
the 0 it was called for.)

`op_link` is proved for parents with room, which is what its action's guard says
when `LinkIntoFull` is `FALSE`, and for full ones as well: losing the name leaks a
block and a count, and breaks none of the invariants.

`BlocksFit` is about `ext2fs_link`, which in the model does not look for room: its
callers do, in the loops of `do_create`, `op_link` and `op_rename`. `SuccessIsDone` and
the tree need it for renames: the block the destination was deleted from has room for
the entry that takes its place (`UnlinkRoom`, `RmdirRoom`).

### The tree

`Ext2TreeProofs` is about what shows of a file system: `Named(f)`, the names by
directory, `Kinds(f)` and `Counts(f)`, the kind and count of the inodes in use. It has
four layers.

1. *Handlers.* One lemma for each library call and handler says what it makes of what
   shows. A handler that succeeds has one of seven effects: `Made`, `DirMade`, `Linked`,
   `Dropped`, `DirDropped`, `Swept` (the destination of a rename deleted) or `Moved`;
   one that returns an error although no call failed has changed nothing that shows,
   but for the link without its target (`HalfLink`).
2. *Requests.* `Did` names the effect of each request and `Tells` relates it to the
   reply, with `Accounted`: the bitmaps are the live inodes and their blocks.
   `ErrorsLeaveNames`, `AccountingHolds` and `SuccessIsDone` follow. The last counts
   directory entries; `RefsSlots` is the bijection between the entries of blocks and
   the slots of `Named`, which is where it matters that no name is there twice and that
   blocks are not shared.
3. *The tree.* `TreeInv` is the inductive invariant: names are in directories and
   lead to nodes in use, to a directory one at most and to the root none (`Proper`);
   each node but the root has a name (`HasName`), since `PosixTree` takes away what has
   none; the counts of files and directories (`FileCounts`, `DirCounts`); `..`
   (`Parents`); and that every set with the root and all below its members has every
   directory (`Connected`). `OneTree` and `LinkCountsExact` are not inductive: that the
   file a handler frees has lost its last name is the equality of `FileCounts`, that what
   was below a directory is still reached after its move needs that it had no other
   place (`Proper`) and that its target is not below it, which is the VFS's promise in
   the guard.
   `Subtree` is a table of rounds in the model; `SubtreeLeast` and `SubtreeClosed`
   show that on a finite disk it is the least closed set, which is what the proof of
   `Connected` uses. Each of the seven effects keeps `TreeInv` (`MadeKeeps` and so on),
   as facts about functions from inodes to names, without blocks.
4. *Refinement.* Each effect is the step of `PosixTree` of the same request.
   `FreesNameless` identifies the inodes a handler frees with those `Tree!Reap`
   takes away: the nodes that have no name any more. That needs `HasName`.

### Contents

`FilesInv` is inductive: `Good(disk)`, the type of the handles, and `OpenFiles`: a file
that is open is there. `Good` is `BlocksExact` with one clause more, that a file which
is not there has no blocks: `create` and `symlink` write a new inode over the old one,
and what it listed would be marked and nobody's. `OpenFiles` is needed for the same
reason from the other side: a handle in `fh` is flushed at any time, into a file that
must not have become another one since. Within a handler the lemmas follow a handle
that is `Current`, whose copy of the inode is the one on the disk: `OpenCurrent` starts
it, `StoredGood` and `SetSizeGood` keep it. That a write of any length finds the largest
number of pages that have room (`FittingExists`) is a least-element argument on the
naturals, from the well-foundedness of `<`.

`LossIsReported` is about single steps: `HandlersHonest` goes through the handlers, and
none of them returns "ok" with a handle forgotten.

The refinement of `PosixFile` needs more of the disk (`PromiseInv`): no file has a block
past its end, where a later growth would show it again, a long link has its block
(`Shapes`), and nothing waits in the buffer of a handle in `fh`, which is open on a
regular file (`OpenRegular`): an `op_flush` of such a handle shows nothing to anyone.
`Shows` says which pages of which file a call changes for a reader, `Loose` what is
still in the buffer of the handler's own handle, `Wrote` what a write has done by the
time its handle is closed, through a page without a block, a buffer that cannot be
written and an end that cannot be moved. `CleanServes` uses the same invariant: a clean
request fails nowhere, because the files it opens are there and its handle is its own.
Both are for file systems without extents. With extents `op_readlink` returns a
block that is not the target's, and the run `readlink_extents` shows it.

### Attributes

The refinement has no invariant but the type. The work is the arithmetic: that the
halves of an owner join to it (`HalvesJoin`), that type and permissions come apart
again (`ModeParts`), that both device encodings decode to what went in (`SmallParts`,
`LargeParts`), one fact about `div` and `%` at a time; then what `stat` shows of a
changed inode (`Chmodded`, `Chowned`, `Utimed`, `DeviceShown`), and the steps.

For `statfs`, `test_root` is a recursive function, and the powers are the only solution of
its recursion: they satisfy it, by Euclid's lemma for 3, 5 and 7 on remainders, and two
solutions cannot differ first anywhere. Then the blocks of the layout are counted group
by group: `CountedTo(s, n)` says what the sum has come to after `n` groups, without the
parts that are the resize inode's; since the parts of different groups do not overlap,
wherever `flex_bg` has put them, each group adds its own (`OffApart`), and the last
ends the induction.

### The life of a mount

`SharingInv` strengthens `SharingNeedsLoss` with the place where the marks are: in
memory while a read-write mount serves, on the device otherwise (`Marks`). Growing takes
an unmarked block, a stop makes `lossy` true unless the device has every mark, a mount
loads what the device has. `FlushInv` adds to `FlushedInTime` that what differs from the
device changed no earlier than the last flush. Neither needs to know what
`parse_mount_options` makes of a list; `ModeAsDocumented` does, and the lists have any
length. `SaidSoFar` is the invariant of the loop after `k` rounds: the flag is set exactly
if an `ro` has no `rw` or `rw+` after it, `force` if there was a `force` or `rw+`, and
the string handed to FUSE says what the flag says. `ParsedSays` is the induction over
the rounds.
`DeviceUntouched` follows from `ModeAsDocumented`: what is not asked for read-write is
mounted read-only, and no handler, flush or `op_destroy` writes there.

### The mount helper

`WaitInv` ties the announcement to the queue: from when this mount is announced until
the helper is done, the announcement is in the queue or has been handled, and nothing
of that kind is there before. `HonestEnd` alone does not say why the loop finds it.

### Only model-checked

The liveness of `FuseWait` (`EndsAfterCommand`): liveness under fairness and `ENABLED` are
outside what TLAPS 1.4.5 proves. The violations, which are counterexamples. Everything else
the runs check is proved, under the assumptions in the table.

The library's induction theorems take an operator as a parameter, which no installed
backend can instantiate. The inductions above (`FittingExists`, `ParsedSays`, `CountedTo`,
`test_root`, `Subtree`) are each a least counterexample for one particular statement, a set of
naturals without a least element, and so none gives a principle for all statements.

## What is not modelled

- `UTIME_NOW` (no input has it), sizes and link counts of `stat` (they are state of the
  other modules), and `EXT2_FILE_SHARED_INODE`: the flag is the daemon's own define
  (`fuse-ext2.h:49`), to which the file code of e2fsprogs gives no meaning, so the
  handle is taken to have a copy of its own.
- Bytes within a page, holes larger than a page, large files (the `EFBIG` of
  `op_truncate.c:50`).
- Targets of symbolic links longer than a block, which `do_write` puts into several
  blocks and `op_readlink` (`op_readlink.c:54`) reads from the first alone.
- `meta_bg`, `sparse_super2` and `bigalloc` in the layout `statfs` counts.
- Unlinking a file that is open. libfuse hides it under another name
  (the library's default; `fuse-ext2.c` does not ask for `hard_remove`), so the daemon never sees it.
- `readdir`: it keeps no state and changes none, and what `ext2fs_dir_iterate` makes of
  the values `walk_dir` returns is the library's.
- `getxattr`: `parse_name` reads 16 bytes of a name of any length and returns a pointer
  into its own frame, so what the search compares is not defined by the source.
- `do_check`, `do_check_split`: strings; the models take the resolved parent and name.
- In `main`: device names, volume names, the splitting of the command line.
- The scripts, the installers and the preference pane: calls of other programs, dialogs.
- Two daemons on one device.

## Plan

Done, in this order: `LibExt2fs`, `Ext2Ops`, `Ext2Daemon` with `exact`; the runs
with faults; `PosixTree` and the refinement; the type proofs; the soundness proofs;
`Ext2Mount`; `FuseWait`; `Ext2Files` with `PosixFile`; `Ext2Attributes` with
`PosixAttr`; the proofs about these four; the proofs of what a reply tells, of the
bitmaps and the tree (`Ext2TreeProofs`), of the refinement of `PosixFile`, of the
options of a mount and of `statfs`; the proofs for unsafe call sites.

Left, by importance:

1. The counts at their width: what follows when `LinkRoom` is lifted, 16 bits and no
   test for EXT2_LINK_MAX.
2. A failing `ext2fs_write_bitmaps`, after which `last_flush` is set all the same, and
   a clock that is set back, in `Ext2Mount`.
3. Names and contents in one module: a link or a rename beside an open file.
4. A helper whose daemon dies after its command has returned.

To prove: the refinement of `PosixFile` with extents for every request but
`op_readlink`, the one that goes wrong there; which of the exact properties survive
safe failures as inequalities (a count too high, a block leaked, never the reverse).
