------------------------------ MODULE PosixAttr ------------------------------
(***************************************************************************)
(* What the user of a mount is promised about the attributes of a file:    *)
(* stat shows what mknod, chmod, chown and utimens were given, one call    *)
(* changes what it is for and leaves the rest, and a failed call changes   *)
(* nothing.  No i_mode, no halves of owners, no i_block.                   *)
(***************************************************************************)
EXTENDS Integers

CONSTANTS
    File, Time,
    Keep        \* the owner or the time a call is not to change

VARIABLES
    attr,       \* what stat shows of a file; type 0: it is not there
    writable,   \* whether the mount can be written
    hidden,     \* devices this file system cannot show
    call        \* the last call and its answer

vars == <<attr, writable, hidden, call>>

TypeBits(mode) == mode \div 4096
PermBits(mode) == mode % 4096

Exists(i)       == attr[i].type # 0
Asked(new, old) == IF new = Keep THEN old ELSE new

\* A call on i that succeeds in changing it to a.
Changes(i, a) ==
    /\ call'.rc = "ok"
    /\ writable
    /\ attr' = [attr EXCEPT ![i] = a]
    /\ UNCHANGED <<writable, hidden>>

Make(i) ==
    /\ call'.req.op = "mknod"
    /\ ~ Exists(i)
    /\ \E t \in Time, r \in {call'.req.dev, attr'[i].rdev} :
        /\ r = call'.req.dev \/ call'.req.dev \in hidden
        /\ Changes(i, [type |-> TypeBits(call'.req.mode), perm |-> PermBits(call'.req.mode),
                       uid |-> call'.req.uid, gid |-> call'.req.gid, rdev |-> r,
                       atime |-> t, mtime |-> t])

Chmod(i) ==
    /\ call'.req.op = "chmod"
    /\ Exists(i)
    /\ Changes(i, [attr[i] EXCEPT !.perm = PermBits(call'.req.mode)])

Chown(i) ==
    /\ call'.req.op = "chown"
    /\ Exists(i)
    /\ Changes(i, [attr[i] EXCEPT !.uid = Asked(call'.req.uid, @),
                                  !.gid = Asked(call'.req.gid, @)])

Utimens(i) ==
    /\ call'.req.op = "utimens"
    /\ Exists(i)
    /\ Changes(i, [attr[i] EXCEPT !.atime = Asked(call'.req.atime, @),
                                  !.mtime = Asked(call'.req.mtime, @)])

Remove(i) ==
    /\ call'.req.op = "unlink"
    /\ Exists(i)
    /\ attr'[i].type = 0
    /\ Changes(i, attr'[i])

Stat(i) ==
    /\ call'.req.op = "getattr"
    /\ call'.rc = "ok"
    /\ Exists(i)
    /\ call'.st = attr[i]
    /\ UNCHANGED <<attr, writable, hidden>>

\* Whether a file may be written: the mount decides.
Access ==
    /\ call'.req.op = "access"
    /\ call'.rc = IF call'.req.write /\ ~ writable THEN "EACCES" ELSE "ok"
    /\ UNCHANGED <<attr, writable, hidden>>

\* The answer to statfs is about the disk.
Failed ==
    /\ call'.rc \in {"EIO", "ENOENT"} \/ call'.req.op = "statfs"
    /\ UNCHANGED <<attr, writable, hidden>>

Next ==
    \/ Access
    \/ Failed
    \/ \E i \in File :
        /\ Make(i) \/ Chmod(i) \/ Chown(i) \/ Utimens(i) \/ Remove(i) \/ Stat(i)
        /\ call'.req.file = i

\* The disk may come from another system.
Spec == [][Next]_vars
=============================================================================
