------------------------------ MODULE Ext2Mount ------------------------------
(***************************************************************************)
(* The life of a mount: main parses the options and probes the device,     *)
(* op_init opens it, requests are served, op_destroy closes it, or the     *)
(* machine stops in between.                                               *)
(*                                                                         *)
(* Inodes and directories go to the device when a handler writes them; the *)
(* block bitmap stays in memory.  It is written at the start of a request  *)
(* that comes late enough after the last time, by fsync and at the end.    *)
(*                                                                         *)
(* As in Ext2Ops, X_Something is X with a mistake in it, used by nothing.  *)
(***************************************************************************)
EXTENDS Integers, FiniteSets, Sequences

CONSTANTS
    File,                   \* files, for the blocks they own
    Block,                  \* blocks
    OptionLists,            \* what "-o" is given, split at the commas
    FLUSH_BITMAPS_TIMEOUT,
    MaxTime,                \* bound on the clock
    Devices,                \* whether the device can be opened for writing
    Faults                  \* sets of calls that may fail together

Option == {"ro", "rw", "rw+", "force", "valued", "other"}
Call   == {"probe.open", "init.open", "init.bitmaps", "write_bitmaps",
           "fsync.flush", "destroy.close"}

ASSUME OptionsAssumption == OptionLists \subseteq Seq(Option)
ASSUME TimeAssumption    ==
    /\ FLUSH_BITMAPS_TIMEOUT \in Nat /\ MaxTime \in Nat
    /\ FLUSH_BITMAPS_TIMEOUT < MaxTime
ASSUME DevicesAssumption == Devices \subseteq BOOLEAN
ASSUME CallAssumption    == Faults \subseteq SUBSET Call

VARIABLES
    phase,          \* "down" or "serving"
    writable,       \* whether the device can be opened for writing
    mount,          \* e2data->readonly, and the mode the kernel was told
    owns,           \* the blocks each file lists, on the device
    used,           \* the block bitmap in memory
    bitmap,         \* the block bitmap on the device
    now,            \* time(NULL)
    last_flush,     \* e2data->last_flush
    reply,          \* how the last program that ran ended
    \* history
    asked,          \* whether the options of this mount ask for read-write
    last_request,   \* when the last request came
    changed,        \* since when a block differs between used and bitmap
    lossy           \* a stop left a block in use unmarked on the device

vars == <<phase, writable, mount, owns, used, bitmap, now, last_flush, reply,
          asked, last_request, changed, lossy>>

Time     == 0 .. MaxTime
Programs == {"none", "fuse-ext2", "probe --readonly", "probe --readwrite"}

TypeOK ==
    /\ phase \in {"down", "serving"}
    /\ writable \in BOOLEAN
    /\ mount \in [readonly : BOOLEAN, kernel : {"ro", "rw"}]
    /\ owns \in [File -> SUBSET Block]
    /\ used \subseteq Block
    /\ bitmap \subseteq Block
    /\ now \in Time /\ last_flush \in Time /\ last_request \in Time
    /\ changed \in [Block -> Time]
    /\ asked \in BOOLEAN /\ lossy \in BOOLEAN
    /\ reply \in [program : Programs,
                  rc : {"ok", "bad options", "probe failed", "init failed"}]

Owned(o) == UNION {o[f] : f \in File}

\* last_flush starts at 0, long before any real time.
Init ==
    /\ phase = "down"
    /\ writable \in Devices
    /\ mount = [readonly |-> TRUE, kernel |-> "ro"]
    /\ owns = [f \in File |-> {}]
    /\ used = {}
    /\ bitmap = {}
    /\ now = FLUSH_BITMAPS_TIMEOUT + 1
    /\ last_flush = 0
    /\ reply = [program |-> "none", rc |-> "ok"]
    /\ asked = FALSE
    /\ last_request = 0
    /\ changed = [b \in Block |-> 0]
    /\ lossy = FALSE

-----------------------------------------------------------------------------
(* main *)

ParseOption_RwForces(o, opt) ==
    CASE opt = "ro" -> [o EXCEPT !.readonly = TRUE, !.kernel = "ro"]
      [] opt \in {"rw", "rw+"} ->
            [o EXCEPT !.readonly = FALSE, !.force = TRUE, !.kernel = "rw"]
      [] opt = "force" -> [o EXCEPT !.force = TRUE]
      [] OTHER -> o

\* One round of the loop.  "kernel" is the last of "ro" and "rw" in the options
\* handed to FUSE, the one that counts; "valued" is an option of fuse-ext2 with
\* a value, "other" an option that is passed on or changes no mode.
ParseOption(o, opt) ==
    CASE opt = "ro"     -> [o EXCEPT !.readonly = TRUE, !.kernel = "ro"]
      [] opt = "rw"     -> [o EXCEPT !.readonly = FALSE, !.kernel = "rw"]
      [] opt = "rw+"    -> [o EXCEPT !.readonly = FALSE, !.force = TRUE, !.kernel = "rw"]
      [] opt = "force"  -> [o EXCEPT !.force = TRUE]
      [] opt = "valued" -> [o EXCEPT !.valid = FALSE]
      [] OTHER          -> o

Unparsed == [readonly |-> FALSE, force |-> FALSE, kernel |-> "rw", valid |-> TRUE]

\* The loop over the options: what the first k of them come to.
Parsed(list) ==
    LET opts[k \in 0 .. Len(list)] ==
            IF k = 0 THEN Unparsed ELSE ParseOption(opts[k - 1], list[k])
    IN  opts[Len(list)]

parse_mount_options_NoDefault(list) == Parsed(list)

\* Neither "force" nor "rw+": read-only.  Read-only: "ro" is added at the end.
parse_mount_options(list) ==
    LET o == Parsed(list)
        readonly == o.readonly \/ ~ o.force
    IN  [o EXCEPT !.readonly = readonly, !.kernel = IF readonly THEN "ro" ELSE @]

\* Opens the device for writing whatever it was asked, and closes it.
do_probe(bad) == writable /\ "probe.open" \notin bad

LoadBitmaps_Skipped(readonly) == {}

\* op_init reads the bitmaps of a file system it may write to.
LoadBitmaps(readonly) == IF readonly THEN {} ELSE bitmap

\* The manual (fuse-ext2.1): read-write takes "force" or "rw+".  Of "ro", "rw"
\* and "rw+" the last one counts, as mount has it.
ReadWriteAsked(list) ==
    /\ \E k \in DOMAIN list : list[k] \in {"force", "rw+"}
    /\ \A k \in DOMAIN list : list[k] = "ro" =>
        \E l \in DOMAIN list : l > k /\ list[l] \in {"rw", "rw+"}

\* What the command lines come to, and what they ask for.
CommandLine == {[opts |-> parse_mount_options(list), asked |-> ReadWriteAsked(list)] :
                    list \in OptionLists}

\* main up to op_init; the process ends there, or serves.
Main(line, bad) ==
    LET p  == line.opts
        rc == IF ~ do_probe(bad) THEN "probe failed"
              ELSE IF ~ p.valid THEN "bad options"
              ELSE IF \/ "init.open" \in bad
                      \/ ~ p.readonly /\ "init.bitmaps" \in bad THEN "init failed"
              ELSE "ok"
    IN  /\ phase = "down"
        /\ reply' = [program |-> "fuse-ext2", rc |-> rc]
        /\ IF rc = "ok"
           THEN /\ phase' = "serving"
                /\ asked' = line.asked
                /\ mount' = [readonly |-> p.readonly, kernel |-> p.kernel]
                /\ used' = LoadBitmaps(p.readonly)
                /\ last_flush' = 0
                /\ last_request' = now
                /\ changed' = [b \in Block |-> 0]
           ELSE UNCHANGED <<phase, asked, mount, used, last_flush, last_request, changed>>
        /\ UNCHANGED <<writable, owns, bitmap, now, lossy>>

\* fuse-ext2.probe, which sets readonly from its option and calls do_probe.
Probe(option, bad) ==
    /\ phase = "down"
    /\ reply' = [program |-> option, rc |-> IF do_probe(bad) THEN "ok" ELSE "probe failed"]
    /\ UNCHANGED <<phase, writable, mount, owns, used, bitmap, now, last_flush,
                   asked, last_request, changed, lossy>>

-----------------------------------------------------------------------------
(* Requests *)

FlushDue == now - last_flush > FLUSH_BITMAPS_TIMEOUT

FlushTime_EveryRequest == now
FlushTime_Deadline == IF FlushDue THEN now + FLUSH_BITMAPS_TIMEOUT ELSE last_flush

\* e2data->last_flush after current_ext2fs, whether the write worked or not.
FlushTime == IF FlushDue THEN now ELSE last_flush

\* The bitmap on the device after current_ext2fs.
current_ext2fs(bad) ==
    IF FlushDue /\ ~ mount.readonly /\ "write_bitmaps" \notin bad THEN used ELSE bitmap

\* What is marked in memory and not on the device, or the other way round.
Differ(u, m) == IF mount.readonly THEN {} ELSE (u \ m) \cup (m \ u)

\* A request: current_ext2fs first, and then what the handler does to the
\* files, the bitmap in memory and the one on the device.
Serve(bad, o, u, m) ==
    /\ phase = "serving"
    /\ owns' = o
    /\ used' = u
    /\ bitmap' = m
    /\ last_flush' = FlushTime
    /\ last_request' = now
    /\ changed' = [b \in Block |->
            IF b \notin Differ(u, m) THEN 0
            ELSE IF b \in Differ(used, current_ext2fs(bad)) THEN changed[b]
            ELSE now]
    /\ UNCHANGED <<writable, mount, now, reply, asked>>

\* A handler that takes no block and frees none.
Look(bad) ==
    /\ Serve(bad, owns, used, current_ext2fs(bad))
    /\ UNCHANGED <<phase, lossy>>

\* Handlers that give file f a block, and that free its blocks.  The kernel
\* sends them for a mount it takes for read-write only.
Grow(f, b, bad) ==
    /\ mount.kernel = "rw" /\ ~ mount.readonly
    /\ b \notin used
    /\ Serve(bad, [owns EXCEPT ![f] = @ \cup {b}], used \cup {b}, current_ext2fs(bad))
    /\ UNCHANGED <<phase, lossy>>

Shrink(f, bad) ==
    /\ mount.kernel = "rw" /\ ~ mount.readonly
    /\ owns[f] # {}
    /\ Serve(bad, [owns EXCEPT ![f] = {}], used \ owns[f], current_ext2fs(bad))
    /\ UNCHANGED <<phase, lossy>>

\* ext2fs_flush writes everything, ext2fs_close too.
Written(site, bad) ==
    IF site \in bad \/ mount.readonly THEN current_ext2fs(bad) ELSE used

op_fsync(bad) ==
    /\ Serve(bad, owns, used, Written("fsync.flush", bad))
    /\ UNCHANGED <<phase, lossy>>

op_destroy(bad) ==
    /\ Serve(bad, owns, used, Written("destroy.close", bad))
    /\ phase' = "down"
    /\ lossy' = (lossy \/ ~ (Owned(owns) \subseteq bitmap'))

\* The daemon is killed or the machine stops.
Crash ==
    /\ phase = "serving"
    /\ phase' = "down"
    /\ lossy' = (lossy \/ ~ (Owned(owns) \subseteq bitmap))
    /\ UNCHANGED <<writable, mount, owns, used, bitmap, now, last_flush, reply,
                   asked, last_request, changed>>

Tick ==
    /\ now < MaxTime
    /\ now' = now + 1
    /\ UNCHANGED <<phase, writable, mount, owns, used, bitmap, last_flush, reply,
                   asked, last_request, changed, lossy>>

Request(bad) ==
    \/ Look(bad)
    \/ \E f \in File :
        \/ \E b \in Block : Grow(f, b, bad)
        \/ Shrink(f, bad)
    \/ op_fsync(bad)
    \/ op_destroy(bad)

Next ==
    \/ \E bad \in Faults :
        \/ \E line \in CommandLine : Main(line, bad)
        \/ \E option \in {"probe --readonly", "probe --readwrite"} : Probe(option, bad)
        \/ Request(bad)
    \/ Crash
    \/ Tick

Spec == Init /\ [][Next]_vars

-----------------------------------------------------------------------------
(* Properties *)

\* The daemon and the kernel agree on the mode of the mount, and it is the one
\* the manual promises for these options: parse_mount_options sets the one in
\* two flags, in the order of the options, and the other in a string.
ModeAsDocumented ==
    phase = "serving" =>
        /\ mount.readonly = ~ asked
        /\ mount.kernel = IF asked THEN "rw" ELSE "ro"

\* Nothing on the device changes but in a mount whose options ask for it, not
\* by a request, a flush, fsync, or at the end.
DeviceUntouched == [][owns' # owns \/ bitmap' # bitmap => asked]_vars

\* What current_ext2fs guarantees while ext2fs_write_bitmaps works: when a
\* request is being served, what the handlers changed more than the timeout
\* ago is on the device.  A crash then costs the changes of the last seconds
\* before the last request, however long ago that was.
FlushedInTime ==
    phase = "serving" => \A b \in Differ(used, bitmap) :
        last_request - changed[b] <= FLUSH_BITMAPS_TIMEOUT

\* Mounted again after any number of stops, crashes included, the daemon
\* gives no file a block of another one, unless a stop came between an
\* allocation and the next flush.
SharingNeedsLoss ==
    ~ lossy =>
        /\ \A f, g \in File : f # g => owns[f] \cap owns[g] = {}
        /\ phase = "serving" /\ ~ mount.readonly => Owned(owns) \subseteq used
        /\ phase = "down" => Owned(owns) \subseteq bitmap

\* The timeout as the comment in fuse-ext2.h gives it: no change waits longer
\* for its flush.
FlushTimeout ==
    phase = "serving" => \A b \in Differ(used, bitmap) :
        now - changed[b] <= FLUSH_BITMAPS_TIMEOUT

\* fuse-ext2.probe --readonly accepts a device that can only be read.
ReadOnlyProbe ==
    reply.program = "probe --readonly" => reply.rc = "ok"
=============================================================================
