--------------------------- MODULE Ext2MountProofs ---------------------------
(***************************************************************************)
(* What no bound on files, blocks, options, time or failures changes about *)
(* a mount: a block of one file becomes a block of another only after a    *)
(* stop that lost its mark; the bitmap in memory is never further ahead of *)
(* the device than the timeout, seen at a request; the mode is the one the *)
(* options ask for, by induction over the rounds of parse_mount_options;   *)
(* and a mount that is not read-write leaves the device alone.             *)
(***************************************************************************)
EXTENDS Ext2Mount, WellFoundedInduction, TLAPS

-----------------------------------------------------------------------------
(* Blocks are shared after a loss only *)

FilesTyped == owns \in [File -> SUBSET Block]

Disjoint(o) == \A f, g \in File : f # g => o[f] \cap o[g] = {}

\* A mount that may write marks what it owns in memory; otherwise the marks
\* are those of the device, and nothing writes there.
Marks == IF phase = "serving" /\ ~ mount.readonly THEN used ELSE bitmap

SharingInv ==
    /\ FilesTyped
    /\ ~ lossy => Disjoint(owns) /\ Owned(owns) \subseteq Marks

LEMMA SharingInvImplies == SharingInv => SharingNeedsLoss
  BY DEF SharingInv, SharingNeedsLoss, Disjoint, Marks

LEMMA SharingInit == Init => SharingInv
<1> SUFFICES ASSUME Init PROVE SharingInv
  OBVIOUS
<1>1. FilesTyped /\ Disjoint(owns)
  BY DEF Init, FilesTyped, Disjoint
<1>2. Owned(owns) = {}
  BY DEF Init, Owned
<1> QED
  BY <1>1, <1>2 DEF SharingInv

\* A mount that is read-only leaves the bitmap of the device alone.
LEMMA ReadOnlyLeaves ==
    ASSUME mount.readonly, NEW site, NEW bad
    PROVE  current_ext2fs(bad) = bitmap /\ Written(site, bad) = bitmap
  BY DEF current_ext2fs, Written

\* A request that leaves the files and the bitmap in memory as they are, and
\* goes on serving.
LEMMA SharingKept ==
    ASSUME SharingInv, NEW bad, NEW m, mount.readonly => m = bitmap,
           Serve(bad, owns, used, m), UNCHANGED <<phase, lossy>>
    PROVE  SharingInv'
<1>1. phase = "serving" /\ owns' = owns /\ used' = used /\ bitmap' = m /\ mount' = mount
  BY DEF Serve
<1>2. Marks' = Marks
  BY <1>1 DEF Marks
<1> QED
  BY <1>1, <1>2 DEF SharingInv, FilesTyped, Disjoint, Owned

LEMMA SharingGrow ==
    ASSUME SharingInv, NEW f \in File, NEW b \in Block, NEW bad, Grow(f, b, bad)
    PROVE  SharingInv'
<1>1. /\ phase = "serving" /\ ~ mount.readonly /\ phase' = phase /\ mount' = mount
      /\ owns' = [owns EXCEPT ![f] = owns[f] \cup {b}]
      /\ used' = used \cup {b} /\ b \notin used /\ lossy' = lossy
  BY DEF Grow, Serve
<1>2. FilesTyped'
  BY <1>1 DEF SharingInv, FilesTyped
<1>3. ASSUME ~ lossy
      PROVE  Disjoint(owns)' /\ Owned(owns)' \subseteq Marks'
  <2>1. Disjoint(owns) /\ Owned(owns) \subseteq used
    BY <1>1, <1>3 DEF SharingInv, Marks
  <2>2. \A g \in File : b \notin owns[g]
    BY <1>1, <2>1 DEF Owned
  <2>3. Disjoint(owns)'
    BY <1>1, <2>1, <2>2 DEF Disjoint, SharingInv, FilesTyped
  <2>4. Owned(owns)' \subseteq used'
    BY <1>1, <2>1 DEF Owned, SharingInv, FilesTyped
  <2> QED
    BY <1>1, <2>3, <2>4 DEF Marks
<1> QED
  BY <1>1, <1>2, <1>3 DEF SharingInv

LEMMA SharingShrink ==
    ASSUME SharingInv, NEW f \in File, NEW bad, Shrink(f, bad)
    PROVE  SharingInv'
<1>1. /\ phase = "serving" /\ ~ mount.readonly /\ phase' = phase /\ mount' = mount
      /\ owns' = [owns EXCEPT ![f] = {}]
      /\ used' = used \ owns[f] /\ lossy' = lossy
  BY DEF Shrink, Serve
<1>2. FilesTyped'
  BY <1>1 DEF SharingInv, FilesTyped
<1>3. ASSUME ~ lossy
      PROVE  Disjoint(owns)' /\ Owned(owns)' \subseteq Marks'
  <2>1. Disjoint(owns) /\ Owned(owns) \subseteq used
    BY <1>1, <1>3 DEF SharingInv, Marks
  <2>2. Disjoint(owns)'
    BY <1>1, <2>1 DEF Disjoint, SharingInv, FilesTyped
  <2>3. ASSUME NEW g \in File PROVE owns'[g] \subseteq used'
    BY <1>1, <2>1 DEF Disjoint, Owned, SharingInv, FilesTyped
  <2>4. Owned(owns)' \subseteq used'
    BY <2>3 DEF Owned
  <2> QED
    BY <1>1, <2>2, <2>4 DEF Marks
<1> QED
  BY <1>1, <1>2, <1>3 DEF SharingInv

\* A stop that leaves a block of a file without its mark is remembered.
LEMMA SharingStop ==
    ASSUME SharingInv, owns' = owns, phase' = "down",
           lossy' = (lossy \/ ~ (Owned(owns) \subseteq bitmap'))
    PROVE  SharingInv'
<1>1. FilesTyped' /\ Owned(owns)' = Owned(owns) /\ Marks' = bitmap'
  BY DEF SharingInv, FilesTyped, Owned, Marks
<1>2. ASSUME ~ lossy' PROVE Disjoint(owns)' /\ Owned(owns) \subseteq bitmap'
  BY <1>2 DEF SharingInv, Disjoint
<1> QED
  BY <1>1, <1>2 DEF SharingInv

LEMMA SharingMain ==
    ASSUME SharingInv, NEW line, NEW bad, Main(line, bad)
    PROVE  SharingInv'
<1>1. UNCHANGED <<owns, bitmap, lossy>> /\ phase = "down"
  BY DEF Main
<1>2. Marks = bitmap
  BY <1>1 DEF Marks
<1>3. Marks' = bitmap
  <2>1. CASE UNCHANGED phase
    BY <1>1, <2>1 DEF Marks
  <2>2. CASE phase' # phase
    <3>1. /\ mount' = [readonly |-> line.opts.readonly, kernel |-> line.opts.kernel]
          /\ used' = LoadBitmaps(line.opts.readonly)
      BY <2>2 DEF Main
    <3> QED
      BY <1>1, <3>1 DEF Marks, LoadBitmaps
  <2> QED
    BY <2>1, <2>2
<1> QED
  BY <1>1, <1>2, <1>3 DEF SharingInv, FilesTyped, Disjoint, Owned

LEMMA SharingUnchanged ==
    ASSUME SharingInv, UNCHANGED <<phase, mount, owns, used, bitmap, lossy>>
    PROVE  SharingInv'
  BY DEF SharingInv, FilesTyped, Disjoint, Owned, Marks

LEMMA SharingStep == SharingInv /\ [Next]_vars => SharingInv'
<1> SUFFICES ASSUME SharingInv, [Next]_vars PROVE SharingInv'
  OBVIOUS
<1>1. CASE \E bad \in Faults, line \in CommandLine : Main(line, bad)
  BY <1>1, SharingMain
<1>2. CASE \E bad \in Faults, option \in {"probe --readonly", "probe --readwrite"} :
                Probe(option, bad)
  <2>1. UNCHANGED <<phase, mount, owns, used, bitmap, lossy>>
    BY <1>2 DEF Probe
  <2> QED
    BY <2>1, SharingUnchanged
<1>3. ASSUME NEW bad \in Faults, Request(bad) PROVE SharingInv'
  <2>1. CASE Look(bad)
    BY <2>1, SharingKept, ReadOnlyLeaves DEF Look
  <2>2. CASE \E f \in File : (\E b \in Block : Grow(f, b, bad)) \/ Shrink(f, bad)
    BY <2>2, SharingGrow, SharingShrink
  <2>3. CASE op_fsync(bad)
    BY <2>3, SharingKept, ReadOnlyLeaves DEF op_fsync
  <2>4. CASE op_destroy(bad)
    BY <2>4, SharingStop DEF op_destroy, Serve
  <2> QED
    BY <1>3, <2>1, <2>2, <2>3, <2>4 DEF Request
<1>4. CASE Crash
  <2>1. /\ owns' = owns /\ phase' = "down" /\ bitmap' = bitmap
        /\ lossy' = (lossy \/ ~ (Owned(owns) \subseteq bitmap))
    BY <1>4 DEF Crash
  <2> QED
    BY <2>1, SharingStop
<1>5. CASE Tick
  BY <1>5, SharingUnchanged DEF Tick
<1>6. CASE UNCHANGED vars
  BY <1>6, SharingUnchanged DEF vars
<1> QED
  BY <1>1, <1>2, <1>3, <1>4, <1>5, <1>6 DEF Next

\* Mounted again after any number of stops, with any calls failing, the daemon
\* gives no file a block of another one, unless a stop came between an
\* allocation (ext2fs_alloc_block in memory) and the next flush.
THEOREM SharedAfterLossOnly == Spec => []SharingNeedsLoss
  BY SharingInit, SharingStep, SharingInvImplies, PTL DEF Spec

-----------------------------------------------------------------------------
(* The flush of current_ext2fs *)

ClockTyped ==
    /\ now \in Int /\ last_flush \in Int /\ last_request \in Int
    /\ changed \in [Block -> Int]
    /\ 0 <= now /\ last_flush <= now

\* What differs from the device changed after the last flush, and the last
\* request came before the next one was due.
FlushInv ==
    /\ ClockTyped
    /\ owns \in [File -> SUBSET Block] /\ used \subseteq Block /\ bitmap \subseteq Block
    /\ phase = "serving" => \A b \in Differ(used, bitmap) :
            /\ last_flush <= changed[b]
            /\ last_request - changed[b] <= FLUSH_BITMAPS_TIMEOUT

LEMMA FlushInvImplies == FlushInv => FlushedInTime
  BY DEF FlushInv, FlushedInTime

LEMMA FlushInit == Init => FlushInv
  BY TimeAssumption DEF Init, FlushInv, ClockTyped

\* A flush that is due leaves nothing to write.
LEMMA NothingDiffers ==
    ASSUME FlushDue, NEW bad, "write_bitmaps" \notin bad
    PROVE  Differ(used, current_ext2fs(bad)) = {}
  BY DEF Differ, current_ext2fs

LEMMA Arithmetic ==
    ASSUME ClockTyped, NEW c \in Int
    PROVE  /\ FlushTime \in Int /\ FlushTime <= now
           /\ ~ FlushDue /\ last_flush <= c =>
                FlushTime <= c /\ now - c <= FLUSH_BITMAPS_TIMEOUT
           /\ FlushTime <= now /\ now - now <= FLUSH_BITMAPS_TIMEOUT
  BY TimeAssumption DEF ClockTyped, FlushTime, FlushDue

\* Whatever a handler does to the bitmaps after current_ext2fs.
LEMMA FlushServe ==
    ASSUME FlushInv, NEW bad, "write_bitmaps" \notin bad,
           NEW o \in [File -> SUBSET Block], NEW u \in SUBSET Block, NEW m \in SUBSET Block,
           Serve(bad, o, u, m)
    PROVE  FlushInv'
<1>1. /\ phase = "serving" /\ owns' = o /\ used' = u /\ bitmap' = m /\ mount' = mount
      /\ now' = now /\ last_flush' = FlushTime /\ last_request' = now
  BY DEF Serve
<1>2. changed' = [b \in Block |->
            IF b \notin Differ(u, m) THEN 0
            ELSE IF b \in Differ(used, current_ext2fs(bad)) THEN changed[b]
            ELSE now]
  BY DEF Serve
<1>3. ClockTyped /\ changed' \in [Block -> Int]
  BY <1>2 DEF FlushInv, ClockTyped
<1>4. ClockTyped'
  BY <1>1, <1>3, Arithmetic DEF ClockTyped
<1>5. Differ(used, bitmap)' = Differ(u, m)
  BY <1>1 DEF Differ
<1>6. ASSUME NEW b \in Differ(u, m)
      PROVE  FlushTime <= changed'[b] /\ now - changed'[b] <= FLUSH_BITMAPS_TIMEOUT
  <2>1. b \in Block
    BY <1>6 DEF Differ
  <2>2. CASE b \in Differ(used, current_ext2fs(bad))
    <3>1. changed'[b] = changed[b] /\ changed[b] \in Int
      BY <1>2, <1>3, <1>6, <2>1, <2>2 DEF ClockTyped
    <3>2. ~ FlushDue
      BY <2>2, NothingDiffers
    <3>3. b \in Differ(used, bitmap)
      BY <2>2, <3>2 DEF current_ext2fs
    <3>4. last_flush <= changed[b]
      BY <1>1, <3>3 DEF FlushInv
    <3> QED
      BY <1>3, <3>1, <3>2, <3>4, Arithmetic
  <2>3. CASE b \notin Differ(used, current_ext2fs(bad))
    <3>1. changed'[b] = now /\ now \in Int
      BY <1>2, <1>3, <1>6, <2>1, <2>3 DEF ClockTyped
    <3> QED
      BY <1>3, <3>1, Arithmetic
  <2> QED
    BY <2>2, <2>3
<1> QED
  BY <1>1, <1>4, <1>5, <1>6 DEF FlushInv

\* What the device holds after a request is one of two bitmaps.
LEMMA BitmapsTyped ==
    ASSUME FlushInv, NEW site, NEW bad
    PROVE  current_ext2fs(bad) \in SUBSET Block /\ Written(site, bad) \in SUBSET Block
  BY DEF FlushInv, current_ext2fs, Written

LEMMA FlushUnchanged ==
    ASSUME FlushInv, UNCHANGED <<owns, used, bitmap, last_flush, last_request, changed, mount>>,
           now' \in Int, now <= now', phase' \in {phase, "down"}
    PROVE  FlushInv'
<1>1. ClockTyped'
  BY DEF FlushInv, ClockTyped
<1>2. Differ(used, bitmap)' = Differ(used, bitmap)
  BY DEF Differ
<1> QED
  BY <1>1, <1>2 DEF FlushInv

LEMMA FlushMain ==
    ASSUME FlushInv, NEW line, NEW bad, Main(line, bad)
    PROVE  FlushInv'
<1>1. UNCHANGED <<owns, bitmap, now>> /\ phase = "down"
  BY DEF Main
<1>2. CASE UNCHANGED phase
  <2>1. UNCHANGED <<used, last_flush, last_request, changed>>
    BY <1>1, <1>2 DEF Main
  <2>2. phase' # "serving"
    BY <1>1, <1>2
  <2> QED
    BY <1>1, <2>1, <2>2 DEF FlushInv, ClockTyped
<1>3. CASE phase' # phase
  <2>1. /\ mount' = [readonly |-> line.opts.readonly, kernel |-> line.opts.kernel]
        /\ used' = LoadBitmaps(line.opts.readonly)
        /\ last_flush' = 0 /\ last_request' = now /\ changed' = [b \in Block |-> 0]
    BY <1>3 DEF Main
  <2>2. Differ(used, bitmap)' = {}
    BY <1>1, <2>1 DEF Differ, LoadBitmaps
  <2>3. used' \subseteq Block
    BY <2>1 DEF LoadBitmaps, FlushInv
  <2> QED
    BY <1>1, <2>1, <2>2, <2>3 DEF FlushInv, ClockTyped
<1> QED
  BY <1>2, <1>3

FlushWorks == \A bad \in Faults : "write_bitmaps" \notin bad

LEMMA FlushRequest ==
    ASSUME FlushInv, NEW bad, "write_bitmaps" \notin bad, Request(bad)
    PROVE  FlushInv'
<1>1. /\ owns \in [File -> SUBSET Block] /\ used \in SUBSET Block
      /\ current_ext2fs(bad) \in SUBSET Block
      /\ Written("fsync.flush", bad) \in SUBSET Block
      /\ Written("destroy.close", bad) \in SUBSET Block
  BY BitmapsTyped DEF FlushInv
<1>2. CASE Look(bad)
  BY <1>1, <1>2, FlushServe DEF Look
<1>3. ASSUME NEW f \in File, NEW b \in Block, Grow(f, b, bad) PROVE FlushInv'
  <2>1. [owns EXCEPT ![f] = owns[f] \cup {b}] \in [File -> SUBSET Block]
    BY <1>1
  <2>2. used \cup {b} \in SUBSET Block
    BY <1>1
  <2>3. Serve(bad, [owns EXCEPT ![f] = owns[f] \cup {b}], used \cup {b}, current_ext2fs(bad))
    BY <1>3 DEF Grow
  <2> QED
    BY <1>1, <2>1, <2>2, <2>3, FlushServe
<1>4. ASSUME NEW f \in File, Shrink(f, bad) PROVE FlushInv'
  <2>1. [owns EXCEPT ![f] = {}] \in [File -> SUBSET Block]
    BY <1>1
  <2>2. used \ owns[f] \in SUBSET Block
    BY <1>1
  <2>3. Serve(bad, [owns EXCEPT ![f] = {}], used \ owns[f], current_ext2fs(bad))
    BY <1>4 DEF Shrink
  <2> QED
    BY <1>1, <2>1, <2>2, <2>3, FlushServe
<1>5. CASE op_fsync(bad)
  BY <1>1, <1>5, FlushServe DEF op_fsync
<1>6. CASE op_destroy(bad)
  BY <1>1, <1>6, FlushServe DEF op_destroy
<1> QED
  BY <1>2, <1>3, <1>4, <1>5, <1>6 DEF Request

LEMMA FlushStep ==
    ASSUME FlushWorks, FlushInv, [Next]_vars
    PROVE  FlushInv'
<1>1. CASE \E bad \in Faults, line \in CommandLine : Main(line, bad)
  BY <1>1, FlushMain
<1>2. CASE \E bad \in Faults, option \in {"probe --readonly", "probe --readwrite"} :
                Probe(option, bad)
  <2>1. /\ UNCHANGED <<owns, used, bitmap, last_flush, last_request, changed, mount>>
        /\ UNCHANGED <<now, phase>>
    BY <1>2 DEF Probe
  <2> QED
    BY <2>1, FlushUnchanged DEF FlushInv, ClockTyped
<1>3. CASE \E bad \in Faults : Request(bad)
  BY <1>3, FlushRequest DEF FlushWorks
<1>4. CASE Crash
  <2>1. /\ UNCHANGED <<owns, used, bitmap, last_flush, last_request, changed, mount>>
        /\ now' = now /\ phase' = "down"
    BY <1>4 DEF Crash
  <2> QED
    BY <2>1, FlushUnchanged DEF FlushInv, ClockTyped
<1>5. CASE Tick
  <2>1. /\ UNCHANGED <<owns, used, bitmap, last_flush, last_request, changed, mount>>
        /\ now' = now + 1 /\ phase' = phase
    BY <1>5 DEF Tick
  <2> QED
    BY <2>1, FlushUnchanged DEF FlushInv, ClockTyped
<1>6. CASE UNCHANGED vars
  <2>1. /\ UNCHANGED <<owns, used, bitmap, last_flush, last_request, changed, mount>>
        /\ UNCHANGED <<now, phase>>
    BY <1>6 DEF vars
  <2> QED
    BY <2>1, FlushUnchanged DEF FlushInv, ClockTyped
<1> QED
  BY <1>1, <1>2, <1>3, <1>4, <1>5, <1>6 DEF Next

\* While ext2fs_write_bitmaps works, and whatever else fails: when a request
\* is served, current_ext2fs has put on the device what the handlers changed
\* more than FLUSH_BITMAPS_TIMEOUT ago, for every timeout, in every mode.
THEOREM FlushedAtRequests ==
    ASSUME FlushWorks
    PROVE  Spec => []FlushedInTime
<1>1. FlushInv /\ [Next]_vars => FlushInv'
  BY FlushStep
<1> QED
  BY <1>1, FlushInit, FlushInvImplies, PTL DEF Spec

-----------------------------------------------------------------------------
(* Induction over the numbers *)

LEMMA LeastNat ==
    ASSUME NEW T, T \subseteq Nat, T # {}
    PROVE  \E x \in T : \A y \in T : x <= y
<1>1. PICK x \in T : \A y \in T : ~ (<<y, x>> \in OpToRel(<, Nat))
  BY NatLessThanWellFounded, WFMin
<1>2. \A y \in T : ~ (y < x)
  BY <1>1 DEF OpToRel
<1> QED
  BY <1>2

\* The numbers with a property, when 0 has it and each one hands it on.
LEMMA Induction ==
    ASSUME NEW S, 0 \in S, \A n \in Nat : n \in S => n + 1 \in S
    PROVE  \A n \in Nat : n \in S
<1> SUFFICES ASSUME Nat \ S # {} PROVE FALSE
  OBVIOUS
<1>1. PICK x \in Nat \ S : \A y \in Nat \ S : x <= y
  BY LeastNat
<1>2. x # 0 /\ x - 1 \in Nat /\ x - 1 \in S
  BY <1>1
<1> QED
  BY <1>1, <1>2

-----------------------------------------------------------------------------
(* What parse_mount_options makes of any list of options *)

Opts == [readonly : BOOLEAN, force : BOOLEAN, kernel : {"ro", "rw"}, valid : BOOLEAN]

\* What the list has said after its first k options: whether a "ro" counts,
\* no "rw" or "rw+" after it, and whether one of the forcing options was there.
RoCounts(list, k) ==
    \E j \in 1 .. k :
        /\ list[j] = "ro"
        /\ \A l \in 1 .. k : l > j => list[l] \notin {"rw", "rw+"}
Forcing(list, k) == \E j \in 1 .. k : list[j] \in {"force", "rw+"}

\* The invariant of the loop.
SaidSoFar(list, k, o) ==
    /\ o \in Opts
    /\ o.readonly <=> RoCounts(list, k)
    /\ o.force <=> Forcing(list, k)
    /\ o.kernel = IF o.readonly THEN "ro" ELSE "rw"

LEMMA RoundSays ==
    ASSUME NEW list \in Seq(Option), NEW k \in Nat, k + 1 <= Len(list),
           NEW o, SaidSoFar(list, k, o)
    PROVE  SaidSoFar(list, k + 1, ParseOption(o, list[k + 1]))
<1> DEFINE opt == list[k + 1]
           p == ParseOption(o, opt)
<1>1. opt \in Option /\ Len(list) \in Nat
  OBVIOUS
<1>2. o \in Opts /\ (o.readonly <=> RoCounts(list, k)) /\ (o.force <=> Forcing(list, k))
      /\ o.kernel = IF o.readonly THEN "ro" ELSE "rw"
  BY DEF SaidSoFar
<1>3. /\ p \in Opts
      /\ p.readonly = (opt = "ro" \/ (o.readonly /\ opt \notin {"rw", "rw+"}))
      /\ p.force = (o.force \/ opt \in {"force", "rw+"})
      /\ p.kernel = IF p.readonly THEN "ro" ELSE "rw"
  BY <1>1, <1>2 DEF ParseOption, Opts, Option
<1>4. \A j : j \in 1 .. k + 1 <=> j \in 1 .. k \/ j = k + 1
  OBVIOUS
<1> HIDE DEF p
<1>5. RoCounts(list, k + 1) <=>
        opt = "ro" \/ (RoCounts(list, k) /\ opt \notin {"rw", "rw+"})
  <2>1. ASSUME opt = "ro" PROVE RoCounts(list, k + 1)
    <3>1. k + 1 \in 1 .. k + 1 /\ \A l \in 1 .. k + 1 : ~ (l > k + 1)
      OBVIOUS
    <3> QED
      BY <2>1, <3>1 DEF RoCounts
  <2>2. ASSUME RoCounts(list, k), opt \notin {"rw", "rw+"} PROVE RoCounts(list, k + 1)
    <3>1. PICK j \in 1 .. k : /\ list[j] = "ro"
                              /\ \A l \in 1 .. k : l > j => list[l] \notin {"rw", "rw+"}
      BY <2>2 DEF RoCounts
    <3> QED
      BY <1>4, <2>2, <3>1 DEF RoCounts
  <2>3. ASSUME RoCounts(list, k + 1), opt # "ro"
        PROVE  RoCounts(list, k) /\ opt \notin {"rw", "rw+"}
    <3>1. PICK j \in 1 .. k + 1 :
            /\ list[j] = "ro"
            /\ \A l \in 1 .. k + 1 : l > j => list[l] \notin {"rw", "rw+"}
      BY <2>3 DEF RoCounts
    <3>2. j \in 1 .. k /\ k + 1 > j
      BY <1>4, <2>3, <3>1
    <3>3. \A l \in 1 .. k : l > j => list[l] \notin {"rw", "rw+"}
      BY <1>4, <3>1
    <3> QED
      BY <1>4, <3>1, <3>2, <3>3 DEF RoCounts
  <2>4. opt = "ro" => opt \notin {"rw", "rw+"}
    OBVIOUS
  <2> QED
    BY <2>1, <2>2, <2>3
<1>6. Forcing(list, k + 1) <=> Forcing(list, k) \/ opt \in {"force", "rw+"}
  BY <1>4 DEF Forcing
<1> QED
  BY <1>2, <1>3, <1>5, <1>6 DEF SaidSoFar, p

\* The whole loop.  The table of its rounds exists for every length.
LEMMA ParsedSays ==
    ASSUME NEW list \in Seq(Option)
    PROVE  SaidSoFar(list, Len(list), Parsed(list))
<1> DEFINE IsRun(g, n) ==
             g = [k \in 0 .. n |-> IF k = 0 THEN Unparsed ELSE ParseOption(g[k - 1], list[k])]
           S == {n \in Nat : \E g : IsRun(g, n)}
<1>1. \A n \in Nat : n \in S
  <2>1. 0 \in S
    <3> DEFINE g == [k \in 0 .. 0 |-> Unparsed]
    <3>1. IsRun(g, 0)
      OBVIOUS
    <3> QED
      BY <3>1
  <2>2. ASSUME NEW n \in Nat, n \in S PROVE n + 1 \in S
    <3>1. PICK g : IsRun(g, n)
      BY <2>2
    <3> DEFINE h == [k \in 0 .. n + 1 |->
                       IF k = n + 1 THEN ParseOption(g[n], list[n + 1]) ELSE g[k]]
    <3>2. \A k \in 0 .. n : h[k] = g[k]
      OBVIOUS
    <3>3. \A k \in 0 .. n + 1 : h[k] =
            IF k = 0 THEN Unparsed ELSE ParseOption(h[k - 1], list[k])
      <4> SUFFICES ASSUME NEW k \in 0 .. n + 1
                   PROVE  h[k] = IF k = 0 THEN Unparsed ELSE ParseOption(h[k - 1], list[k])
        OBVIOUS
      <4>1. CASE k = n + 1
        BY <3>2, <4>1
      <4>2. CASE k # n + 1
        <5>1. k \in 0 .. n /\ (k # 0 => k - 1 \in 0 .. n)
          BY <4>2
        <5>2. g[k] = IF k = 0 THEN Unparsed ELSE ParseOption(g[k - 1], list[k])
          BY <3>1, <5>1
        <5> QED
          BY <3>2, <5>1, <5>2
      <4> QED
        BY <4>1, <4>2
    <3>4. IsRun(h, n + 1)
      <4>1. h = [k \in 0 .. n + 1 |-> h[k]]
        OBVIOUS
      <4> HIDE DEF h
      <4> QED
        BY <3>3, <4>1
    <3> HIDE DEF h, IsRun
    <3> QED
      BY <3>4
  <2> HIDE DEF S
  <2> QED
    BY <2>1, <2>2, Induction
<1> DEFINE N == Len(list)
           run == CHOOSE g : IsRun(g, N)
<1>2. IsRun(run, N)
  <2>1. N \in Nat
    OBVIOUS
  <2>2. \E g : IsRun(g, N)
    BY <1>1, <2>1
  <2> QED
    BY <2>2
<1>3. Parsed(list) = run[N]
  BY DEF Parsed
<1> HIDE DEF run
<1>4. run[0] = Unparsed /\ \A k \in 1 .. N : run[k] = ParseOption(run[k - 1], list[k])
  BY <1>2
<1> DEFINE T == {n \in Nat : n <= N => SaidSoFar(list, n, run[n])}
<1>5. \A n \in Nat : n \in T
  <2>1. 0 \in T
    <3>1. ~ RoCounts(list, 0) /\ ~ Forcing(list, 0)
      BY DEF RoCounts, Forcing
    <3>2. SaidSoFar(list, 0, Unparsed)
      BY <3>1 DEF SaidSoFar, Unparsed, Opts
    <3> QED
      BY <1>4, <3>2
  <2>2. ASSUME NEW n \in Nat, n \in T PROVE n + 1 \in T
    <3> SUFFICES ASSUME n + 1 <= N PROVE SaidSoFar(list, n + 1, run[n + 1])
      OBVIOUS
    <3>1. n <= N /\ n + 1 \in 1 .. N /\ (n + 1) - 1 = n
      OBVIOUS
    <3>2. SaidSoFar(list, n, run[n])
      BY <2>2, <3>1
    <3>3. run[n + 1] = ParseOption(run[n], list[n + 1])
      BY <1>4, <3>1
    <3> QED
      BY <3>2, <3>3, RoundSays
  <2> HIDE DEF T
  <2> QED
    BY <2>1, <2>2, Induction
<1> QED
  BY <1>3, <1>5

\* The mode the daemon keeps and the mode the kernel is told are one, and what
\* the options ask for.
LEMMA CommandLineMode ==
    ASSUME NEW line \in CommandLine
    PROVE  /\ line.opts.readonly \in BOOLEAN /\ line.asked \in BOOLEAN
           /\ line.opts.readonly = ~ line.asked
           /\ line.opts.kernel = IF line.asked THEN "rw" ELSE "ro"
<1>1. PICK list \in OptionLists :
        line = [opts |-> parse_mount_options(list), asked |-> ReadWriteAsked(list)]
  BY DEF CommandLine
<1>2. list \in Seq(Option)
  BY OptionsAssumption
<1> DEFINE o == Parsed(list)
<1>3. SaidSoFar(list, Len(list), o)
  BY <1>2, ParsedSays
<1> DEFINE ro == o.readonly \/ ~ o.force
           p == [o EXCEPT !.readonly = ro, !.kernel = IF ro THEN "ro" ELSE @]
<1>4. line.opts = p /\ line.asked = ReadWriteAsked(list)
  BY <1>1 DEF parse_mount_options
<1> HIDE DEF o
<1>5. p.readonly = ro /\ p.kernel = IF ro THEN "ro" ELSE "rw"
  BY <1>3 DEF SaidSoFar, Opts
<1> HIDE DEF p
<1>6. ro <=> RoCounts(list, Len(list)) \/ ~ Forcing(list, Len(list))
  BY <1>3 DEF SaidSoFar
<1>7. DOMAIN list = 1 .. Len(list)
  BY <1>2
<1>8. Forcing(list, Len(list)) <=> \E k \in DOMAIN list : list[k] \in {"force", "rw+"}
  BY <1>7 DEF Forcing
<1>9. RoCounts(list, Len(list)) <=>
        ~ (\A k \in DOMAIN list : list[k] = "ro" =>
             \E l \in DOMAIN list : l > k /\ list[l] \in {"rw", "rw+"})
  BY <1>7 DEF RoCounts
<1>10. ReadWriteAsked(list) <=> ~ ro
  BY <1>6, <1>8, <1>9 DEF ReadWriteAsked
<1>11. ro \in BOOLEAN /\ ReadWriteAsked(list) \in BOOLEAN
  BY <1>3 DEF SaidSoFar, Opts, ReadWriteAsked
<1> HIDE DEF ro
<1> QED
  BY <1>4, <1>5, <1>10, <1>11

-----------------------------------------------------------------------------
(* Types and the mode of a mount *)

LEMMA MountInitTyped ==
    ASSUME Init
    PROVE  TypeOK
<1>1. now \in Time /\ last_flush \in Time /\ last_request \in Time
  BY TimeAssumption DEF Init, Time
<1>2. changed \in [Block -> Time]
  BY TimeAssumption DEF Init, Time
<1>3. reply \in [program : Programs,
                 rc : {"ok", "bad options", "probe failed", "init failed"}]
  BY DEF Init, Programs
<1>4. /\ phase \in {"down", "serving"} /\ owns \in [File -> SUBSET Block]
      /\ used \subseteq Block /\ bitmap \subseteq Block
      /\ mount \in [readonly : BOOLEAN, kernel : {"ro", "rw"}]
  BY DEF Init
<1>5. writable \in BOOLEAN /\ asked \in BOOLEAN /\ lossy \in BOOLEAN
  BY DevicesAssumption DEF Init
<1> QED
  BY <1>1, <1>2, <1>3, <1>4, <1>5 DEF TypeOK

LEMMA DeviceBitmapsTyped ==
    ASSUME TypeOK, NEW site, NEW bad
    PROVE  current_ext2fs(bad) \in SUBSET Block /\ Written(site, bad) \in SUBSET Block
  BY DEF TypeOK, current_ext2fs, Written

LEMMA ServeTyped ==
    ASSUME TypeOK, NEW bad, NEW o \in [File -> SUBSET Block], NEW u \in SUBSET Block,
           NEW m \in SUBSET Block, Serve(bad, o, u, m),
           phase' \in {"down", "serving"}, lossy' \in BOOLEAN
    PROVE  TypeOK'
<1>1. /\ owns' = o /\ used' = u /\ bitmap' = m
      /\ last_flush' = FlushTime /\ last_request' = now
      /\ UNCHANGED <<writable, mount, now, reply, asked>>
      /\ changed' = [b \in Block |->
            IF b \notin Differ(u, m) THEN 0
            ELSE IF b \in Differ(used, current_ext2fs(bad)) THEN changed[b]
            ELSE now]
  BY DEF Serve
<1>2. FlushTime \in Time /\ now \in Time /\ 0 \in Time
  <2>1. now \in Time /\ last_flush \in Time
    BY DEF TypeOK
  <2>2. 0 \in Time
    BY TimeAssumption DEF Time
  <2> QED
    BY <2>1, <2>2 DEF FlushTime
<1>3. changed \in [Block -> Time]
  BY DEF TypeOK
<1>4. changed' \in [Block -> Time]
  BY <1>1, <1>2, <1>3
<1> QED
  BY <1>1, <1>2, <1>4 DEF TypeOK

LEMMA RequestTyped ==
    ASSUME TypeOK, NEW bad, Request(bad)
    PROVE  TypeOK'
<1>1. /\ owns \in [File -> SUBSET Block] /\ used \in SUBSET Block
      /\ current_ext2fs(bad) \in SUBSET Block
      /\ Written("fsync.flush", bad) \in SUBSET Block
      /\ Written("destroy.close", bad) \in SUBSET Block
      /\ phase \in {"down", "serving"} /\ lossy \in BOOLEAN
  BY DeviceBitmapsTyped DEF TypeOK
<1>2. CASE Look(bad)
  BY <1>1, <1>2, ServeTyped DEF Look
<1>3. ASSUME NEW f \in File, NEW b \in Block, Grow(f, b, bad) PROVE TypeOK'
  <2>1. [owns EXCEPT ![f] = owns[f] \cup {b}] \in [File -> SUBSET Block]
    BY <1>1
  <2>2. used \cup {b} \in SUBSET Block
    BY <1>1
  <2>3. Serve(bad, [owns EXCEPT ![f] = owns[f] \cup {b}], used \cup {b}, current_ext2fs(bad))
        /\ UNCHANGED <<phase, lossy>>
    BY <1>3 DEF Grow
  <2> QED
    BY <1>1, <2>1, <2>2, <2>3, ServeTyped
<1>4. ASSUME NEW f \in File, Shrink(f, bad) PROVE TypeOK'
  <2>1. [owns EXCEPT ![f] = {}] \in [File -> SUBSET Block]
    BY <1>1
  <2>2. used \ owns[f] \in SUBSET Block
    BY <1>1
  <2>3. Serve(bad, [owns EXCEPT ![f] = {}], used \ owns[f], current_ext2fs(bad))
        /\ UNCHANGED <<phase, lossy>>
    BY <1>4 DEF Shrink
  <2> QED
    BY <1>1, <2>1, <2>2, <2>3, ServeTyped
<1>5. CASE op_fsync(bad)
  BY <1>1, <1>5, ServeTyped DEF op_fsync
<1>6. CASE op_destroy(bad)
  BY <1>1, <1>6, ServeTyped DEF op_destroy
<1> QED
  BY <1>2, <1>3, <1>4, <1>5, <1>6 DEF Request

LEMMA MainTyped ==
    ASSUME TypeOK, NEW line \in CommandLine, NEW bad, Main(line, bad)
    PROVE  TypeOK'
<1>1. UNCHANGED <<writable, owns, bitmap, now, lossy>>
  BY DEF Main
<1>2. reply' \in [program : Programs,
                  rc : {"ok", "bad options", "probe failed", "init failed"}]
  BY DEF Main, Programs
<1>3. CASE UNCHANGED <<phase, asked, mount, used, last_flush, last_request, changed>>
  BY <1>1, <1>2, <1>3 DEF TypeOK
<1>4. CASE ~ UNCHANGED <<phase, asked, mount, used, last_flush, last_request, changed>>
  <2>1. /\ phase' = "serving" /\ asked' = line.asked
        /\ mount' = [readonly |-> line.opts.readonly, kernel |-> line.opts.kernel]
        /\ used' = LoadBitmaps(line.opts.readonly)
        /\ last_flush' = 0 /\ last_request' = now /\ changed' = [b \in Block |-> 0]
    BY <1>4 DEF Main
  <2>2. 0 \in Time
    BY TimeAssumption DEF Time
  <2>3. used' \subseteq Block
    BY <2>1 DEF TypeOK, LoadBitmaps
  <2>4. mount' \in [readonly : BOOLEAN, kernel : {"ro", "rw"}] /\ asked' \in BOOLEAN
    BY <2>1, CommandLineMode
  <2> QED
    BY <1>1, <1>2, <2>1, <2>2, <2>3, <2>4 DEF TypeOK
<1> QED
  BY <1>3, <1>4

\* For any files, blocks, option lists, devices and failing calls.
LEMMA TypedStep == TypeOK /\ [Next]_vars => TypeOK'
<1> SUFFICES ASSUME TypeOK, [Next]_vars PROVE TypeOK'
  OBVIOUS
<1>1. CASE \E bad \in Faults, line \in CommandLine : Main(line, bad)
  BY <1>1, MainTyped
<1>2. CASE \E bad \in Faults, option \in {"probe --readonly", "probe --readwrite"} :
                Probe(option, bad)
  <2>1. PICK option \in {"probe --readonly", "probe --readwrite"}, bad \in Faults : Probe(option, bad)
    BY <1>2
  <2>2. reply' \in [program : Programs,
                    rc : {"ok", "bad options", "probe failed", "init failed"}]
    BY <2>1 DEF Probe, Programs
  <2>3. UNCHANGED <<phase, writable, mount, owns, used, bitmap, now, last_flush,
                    asked, last_request, changed, lossy>>
    BY <2>1 DEF Probe
  <2> QED
    BY <2>2, <2>3 DEF TypeOK
<1>3. CASE \E bad \in Faults : Request(bad)
  BY <1>3, RequestTyped
<1>4. CASE Crash
  BY <1>4 DEF Crash, TypeOK
<1>5. CASE Tick
  <2>1. now + 1 \in Time
    <3>1. now \in Time /\ now < MaxTime
      BY <1>5 DEF Tick, TypeOK
    <3> QED
      BY <3>1, TimeAssumption DEF Time
  <2> QED
    BY <1>5, <2>1 DEF Tick, TypeOK
<1>6. CASE UNCHANGED vars
  BY <1>6 DEF vars, TypeOK
<1> QED
  BY <1>1, <1>2, <1>3, <1>4, <1>5, <1>6 DEF Next

\* Whatever "-o" is given, the mode is one FUSE knows, and the times of the
\* flush stay within the clock.
THEOREM MountTyping == Spec => []TypeOK
  BY MountInitTyped, TypedStep, PTL DEF Spec

LEMMA ModeStep == ModeAsDocumented /\ [Next]_vars => ModeAsDocumented'
<1> SUFFICES ASSUME ModeAsDocumented, [Next]_vars PROVE ModeAsDocumented'
  OBVIOUS
<1>1. CASE \E bad \in Faults, line \in CommandLine : Main(line, bad)
  <2>1. PICK bad \in Faults, line \in CommandLine : Main(line, bad)
    BY <1>1
  <2>2. CASE UNCHANGED phase
    BY <2>1, <2>2 DEF Main, ModeAsDocumented
  <2>3. CASE phase' # phase
    <3>1. /\ asked' = line.asked
          /\ mount' = [readonly |-> line.opts.readonly, kernel |-> line.opts.kernel]
      BY <2>1, <2>3 DEF Main
    <3> QED
      BY <3>1, CommandLineMode DEF ModeAsDocumented
  <2> QED
    BY <2>2, <2>3
<1>2. ASSUME UNCHANGED <<mount, asked>>, phase' = "down" \/ phase' = phase
      PROVE  ModeAsDocumented'
  BY <1>2 DEF ModeAsDocumented
<1>3. CASE \E bad \in Faults, option \in {"probe --readonly", "probe --readwrite"} :
                Probe(option, bad)
  BY <1>2, <1>3 DEF Probe
<1>4. CASE \E bad \in Faults : Request(bad)
  BY <1>2, <1>4 DEF Request, Look, Grow, Shrink, op_fsync, op_destroy, Serve
<1>5. CASE Crash
  BY <1>2, <1>5 DEF Crash
<1>6. CASE Tick
  BY <1>2, <1>6 DEF Tick
<1>7. CASE UNCHANGED vars
  BY <1>2, <1>7 DEF vars
<1> QED
  BY <1>1, <1>3, <1>4, <1>5, <1>6, <1>7 DEF Next

\* For every list of options, of any length: the daemon's readonly flag, the
\* "ro" or "rw" FUSE gets and the manual agree.
THEOREM ModeIsDocumented == Spec => []ModeAsDocumented
<1>1. Init => ModeAsDocumented
  BY DEF Init, ModeAsDocumented
<1> QED
  BY <1>1, ModeStep, PTL DEF Spec

\* A mount that was not asked to be read-write writes nothing to the device:
\* no request, no flush of current_ext2fs, no fsync, nor op_destroy.
THEOREM ReadOnlyLeavesDevice == Spec => DeviceUntouched
<1> DEFINE Left == owns' # owns \/ bitmap' # bitmap => asked
<1>1. ModeAsDocumented /\ [Next]_vars => [Left]_vars
  <2> SUFFICES ASSUME ModeAsDocumented, Next, owns' # owns \/ bitmap' # bitmap
               PROVE  asked
    OBVIOUS
  <2>1. PICK bad \in Faults : Request(bad)
    BY DEF Next, Main, Probe, Crash, Tick
  <2>2. phase = "serving"
    BY <2>1 DEF Request, Look, Grow, Shrink, op_fsync, op_destroy, Serve
  <2> SUFFICES ASSUME mount.readonly PROVE FALSE
    BY <2>2 DEF ModeAsDocumented
  <2>3. /\ current_ext2fs(bad) = bitmap
        /\ Written("fsync.flush", bad) = bitmap /\ Written("destroy.close", bad) = bitmap
    BY ReadOnlyLeaves
  <2> QED
    BY <2>1, <2>3 DEF Request, Look, Grow, Shrink, op_fsync, op_destroy, Serve
<1> QED
  BY <1>1, ModeIsDocumented, PTL DEF Spec, DeviceUntouched
=============================================================================
