------------------------------ MODULE FuseWait ------------------------------
(***************************************************************************)
(* fuse-ext2.wait, the helper that starts the mount command on macOS and   *)
(* returns when the mount is there.  Actors: the helper, the command (the  *)
(* daemon, which goes to the background or not), and the mounts of others, *)
(* all of which are announced to all observers.                            *)
(*                                                                         *)
(* As in Ext2Ops, X_Something is X with a mistake in it, used by nothing.  *)
(***************************************************************************)
EXTENDS Naturals, Sequences

CONSTANTS
    Timeout,        \* the seconds on the command line
    MaxOthers       \* bound on announcements of other mounts

ASSUME TimeoutAssumption == Timeout \in Nat \ {0}
ASSUME OthersAssumption  == MaxOthers \in Nat

\* An announcement: of this mount point, of another one, one with something
\* that is no string for a path, one with no path.
Announcement == {"ours", "other", "no string", "no path"}

VARIABLES
    phase,      \* of the helper: "start", "waitpid", "run loop", "done"
    command,    \* "none", "running", "ok", "error" or "killed"
    queue,      \* announcements the run loop has not handled
    mountPath,  \* the path of the last one
    elapsed,    \* seconds in this call of CFRunLoopRunInMode
    result,     \* return value of the helper, and the reason for it
    \* history
    posted,     \* this mount has been announced
    others      \* how many others have been

vars == <<phase, command, queue, mountPath, elapsed, result, posted, others>>

TypeOK ==
    /\ phase \in {"start", "waitpid", "run loop", "done"}
    /\ command \in {"none", "running", "ok", "error", "killed"}
    /\ queue \in Seq(Announcement)
    /\ mountPath \in {"NULL", "ours", "other"}
    /\ elapsed \in 0 .. Timeout
    /\ result \in [rc : {"none", "0", "-1", "status"},
                   why : {"none", "usage", "fork", "waitpid", "command",
                          "notified", "timeout"}]
    /\ posted \in BOOLEAN
    /\ others \in 0 .. MaxOthers

Init ==
    /\ phase = "start"
    /\ command = "none"
    /\ queue = <<>>
    /\ mountPath = "NULL"
    /\ elapsed = 0
    /\ result = [rc |-> "none", why |-> "none"]
    /\ posted = FALSE
    /\ others = 0

Return(rc, why) ==
    /\ phase' = "done"
    /\ result' = [rc |-> rc, why |-> why]

-----------------------------------------------------------------------------
(* The helper *)

\* Too few arguments, a timeout that is no number, a fork that fails; or the
\* command runs.
Start ==
    /\ phase = "start"
    /\ \/ Return("0", "usage") /\ UNCHANGED command
       \/ Return("-1", "usage") /\ UNCHANGED command
       \/ Return("-1", "fork") /\ UNCHANGED command
       \/ phase' = "waitpid" /\ command' = "running" /\ UNCHANGED result
    /\ UNCHANGED <<queue, mountPath, elapsed, posted, others>>

\* Blocks until the command is over, or fails.
WaitPid ==
    /\ phase = "waitpid"
    /\ \/ Return("-1", "waitpid")
       \/ command = "killed" /\ Return("-1", "command")
       \/ command = "error" /\ Return("status", "command")
       \/ command = "ok" /\ phase' = "run loop" /\ UNCHANGED result
    /\ UNCHANGED <<command, queue, mountPath, elapsed, posted, others>>

NotificationCallback_NoTypeTest(a) == IF a = "no path" THEN mountPath ELSE a

\* The new mountPath.
NotificationCallback(a) == IF a \in {"ours", "other"} THEN a ELSE mountPath

\* realpath of both, compared.
IsMountpoint(path) == path = "ours"

\* CFRunLoopRunInMode returns with one announcement handled, and is called
\* again, for the whole timeout, when it was not the one.
Handle ==
    /\ phase = "run loop"
    /\ queue # <<>>
    /\ queue' = Tail(queue)
    /\ mountPath' = NotificationCallback(Head(queue))
    /\ elapsed' = 0
    /\ IF IsMountpoint(mountPath') THEN Return("0", "notified")
                                   ELSE UNCHANGED <<phase, result>>
    /\ UNCHANGED <<command, posted, others>>

TimedOut_CalledAgain ==
    /\ phase = "run loop"
    /\ queue = <<>>
    /\ elapsed = Timeout
    /\ elapsed' = 0
    /\ UNCHANGED <<phase, command, queue, mountPath, result, posted, others>>

\* It returns with nothing handled: the helper gives up, and returns 0.
TimedOut ==
    /\ phase = "run loop"
    /\ queue = <<>>
    /\ elapsed = Timeout
    /\ Return("0", "timeout")
    /\ UNCHANGED <<command, queue, mountPath, elapsed, posted, others>>

\* The run loop sleeps when nothing is waiting.
Tick ==
    /\ phase = "run loop"
    /\ queue = <<>>
    /\ elapsed < Timeout
    /\ elapsed' = elapsed + 1
    /\ UNCHANGED <<phase, command, queue, mountPath, result, posted, others>>

-----------------------------------------------------------------------------
(* The command and the mounts *)

CommandEnds ==
    /\ command = "running"
    /\ command' \in {"ok", "error", "killed"}
    /\ UNCHANGED <<phase, queue, mountPath, elapsed, result, posted, others>>

Listening_FromRunLoop == phase = "run loop"

\* The observer is there before the command is started.
Listening == phase \in {"waitpid", "run loop"}

Announce(a) == queue' = IF Listening THEN Append(queue, a) ELSE queue

\* The daemon has mounted: before its command returns, or after, from the
\* background; a daemon that fails there never does.
Mounted ==
    /\ phase \in {"waitpid", "run loop"}
    /\ command \in {"running", "ok"}
    /\ ~ posted
    /\ posted' = TRUE
    /\ Announce("ours")
    /\ UNCHANGED <<phase, command, mountPath, elapsed, result, others>>

OtherMounted ==
    /\ phase # "done"
    /\ others < MaxOthers
    /\ others' = others + 1
    /\ \E a \in Announcement \ {"ours"} : Announce(a)
    /\ UNCHANGED <<phase, command, mountPath, elapsed, result, posted>>

Helper == Start \/ WaitPid \/ Handle \/ TimedOut \/ Tick

Next == Helper \/ CommandEnds \/ Mounted \/ OtherMounted

\* The helper is scheduled and time passes.  Nothing is supposed of the command
\* or of the daemon.
Spec == Init /\ [][Next]_vars /\ WF_vars(Helper)

-----------------------------------------------------------------------------
(* Properties *)

\* When the command went well, the helper tells the truth on stderr: it ends as
\* notified if this mount was announced, however early, and among however many
\* others, and gives up if it was not.
HonestEnd ==
    /\ result.why = "notified" => posted
    /\ result.why = "timeout" => ~ posted

\* Once the command is over, the helper ends: mounted or not, announced or not,
\* and though every other mount starts its timeout again.
EndsAfterCommand ==
    command \in {"ok", "error", "killed"} ~> phase = "done"
=============================================================================
