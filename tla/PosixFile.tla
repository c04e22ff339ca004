------------------------------ MODULE PosixFile ------------------------------
(***************************************************************************)
(* What the user of a mount is promised about the contents of files: a     *)
(* file is a row of pages, a read returns what was written last, through   *)
(* whichever descriptor, and a failed request spoils at most the pages it  *)
(* was about.  No blocks, no inodes, no handles.                           *)
(***************************************************************************)
EXTENDS Integers

CONSTANTS File, Value, Zero, MaxPages

VARIABLES
    kind,   \* what a file is; "none" when it is not there
    text,   \* its pages, or the target of a link as one page
    reply   \* the last reply

vars == <<kind, text, reply>>

Init ==
    /\ kind = [i \in File |-> "none"]
    /\ text = [i \in File |-> <<>>]
    /\ reply = [op |-> "mount", rc |-> "ok", n |-> 0, data |-> <<>>]

\* Pages off to off + n - 1 hold v; what lies between the old end and the
\* first of them reads as zeros.  With n = 0 it is there as well: a write
\* past the end that stores nothing moves the end of the file (do_write).
Overlay(t, off, n, v) ==
    [p \in DOMAIN t \cup 0 .. off + n - 1 |->
        IF p >= off /\ p < off + n THEN v
        ELSE IF p \in DOMAIN t THEN t[p] ELSE Zero]

Cut(t, size) == [p \in 0 .. size - 1 |-> IF p \in DOMAIN t THEN t[p] ELSE Zero]

Answer(op, rc, n, data) == reply' = [op |-> op, rc |-> rc, n |-> n, data |-> data]

Becomes(i, k, t) ==
    /\ kind' = [kind EXCEPT ![i] = k]
    /\ text' = [text EXCEPT ![i] = t]

Create(i) ==
    /\ \E rc \in {"ok", "error"} : Answer("create", rc, 0, <<>>)
    /\ kind[i] = "none"
    /\ Becomes(i, "reg", <<>>)

\* A link that fails may stay behind with any target, or none.
Symlink(i, v) ==
    /\ reply'.op = "symlink"
    /\ kind[i] = "none"
    /\ \/ /\ Answer("symlink", "ok", 0, <<>>)
          /\ Becomes(i, "lnk", Overlay(<<>>, 0, 1, v))
       \/ /\ Answer("symlink", "error", 0, <<>>)
          /\ Becomes(i, "lnk", text'[i])
          /\ DOMAIN text'[i] \subseteq {0}

Read(i, off, len) ==
    /\ reply'.op = "read"
    /\ kind[i] = "reg"
    /\ UNCHANGED <<kind, text>>
    /\ Answer("read", "ok", 0,
              [p \in DOMAIN text[i] \cap off .. off + len - 1 |-> text[i][p]])

Readlink(i) ==
    /\ reply'.op = "readlink"
    /\ kind[i] = "lnk"
    /\ UNCHANGED <<kind, text>>
    /\ Answer("readlink", "ok", 0, text[i])

\* All of it, or as much as the disk has room for.
Write(i, off, len, v) ==
    \E n \in 0 .. len :
        /\ Answer("write", "ok", n, <<>>)
        /\ kind[i] = "reg"
        /\ Becomes(i, "reg", Overlay(text[i], off, n, v))

\* An error: the pages of the request, and only they, may hold anything.
BrokenWrite(i, off, len) ==
    /\ Answer("write", "error", 0, <<>>)
    /\ kind[i] = "reg"
    /\ Becomes(i, "reg", text'[i])
    /\ DOMAIN text[i] \subseteq DOMAIN text'[i]
    /\ DOMAIN text'[i] \subseteq DOMAIN text[i] \cup 0 .. off + len - 1
    /\ \A p \in DOMAIN text'[i] \ (off .. off + len - 1) :
        text'[i][p] = IF p \in DOMAIN text[i] THEN text[i][p] ELSE Zero

\* An error may come after the file has its new length.
Truncate(i, size) ==
    /\ \E rc \in {"ok", "error"} : Answer("truncate", rc, 0, <<>>)
    /\ kind[i] = "reg"
    /\ Becomes(i, "reg", Cut(text[i], size))

Unlink(i) ==
    /\ Answer("unlink", "ok", 0, <<>>)
    /\ kind[i] # "none"
    /\ Becomes(i, "none", <<>>)

\* Open, flush, release, a new mount, and any request that fails.
Nothing ==
    /\ reply'.rc = "error" \/ reply'.op \in {"open", "flush", "release", "mount"}
    /\ UNCHANGED <<kind, text>>

Next ==
    \/ Nothing
    \/ \E i \in File :
        \/ Create(i) \/ Unlink(i) \/ Readlink(i)
        \/ \E v \in Value : Symlink(i, v)
        \/ \E size \in 0 .. MaxPages : Truncate(i, size)
        \/ \E off \in 0 .. MaxPages - 1, len \in 1 .. MaxPages :
            \/ Read(i, off, len)
            \/ BrokenWrite(i, off, len)
            \/ \E v \in Value : Write(i, off, len, v)

Spec == Init /\ [][Next]_vars
=============================================================================
