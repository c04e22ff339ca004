----------------------------- MODULE PosixTree -----------------------------
(***************************************************************************)
(* What the program on the other side of the mount point is promised: a    *)
(* tree of named nodes, and requests that change it in one step or refuse  *)
(* and leave it alone.  No blocks, bitmaps or link counts: a file is there *)
(* as long as it has a name.                                               *)
(***************************************************************************)
EXTENDS FiniteSets

CONSTANTS Node, Root, None, Name

VARIABLES
    kind,   \* what each node is, "none" when it is not in use
    names,  \* for each node and name, the node of that name; None
    reply   \* "ok" or "error"

vars == <<kind, names, reply>>

\* A node other than the root without a name is gone.
Reap(k, ns) ==
    [i \in Node |-> IF i # Root /\ \A d \in Node, n \in Name : ns[d][n] # i
                    THEN "none" ELSE k[i]]

Init ==
    /\ kind = [i \in Node |-> IF i = Root THEN "dir" ELSE "none"]
    /\ names = [d \in Node |-> [n \in Name |-> None]]
    /\ reply = "ok"

Set(d, n, i) == names' = [names EXCEPT ![d][n] = i]

\* A new node of kind k.
Make(d, n, i, k) ==
    /\ kind[d] = "dir" /\ names[d][n] = None
    /\ kind[i] = "none"
    /\ kind' = [kind EXCEPT ![i] = k]
    /\ Set(d, n, i)
    /\ \/ reply' = "ok"
       \/ reply' = "error" /\ k = "lnk"  \* a link whose target did not fit

\* One more name for a node that is not a directory.
Link(d, n, i) ==
    /\ kind[d] = "dir" /\ names[d][n] = None
    /\ kind[i] \notin {"none", "dir"}
    /\ Set(d, n, i)
    /\ kind' = kind
    /\ reply' = "ok"

Empty(i) == \A n \in Name : names[i][n] = None

\* A name less: of a file, or of an empty directory.
Remove(d, n) ==
    LET i == names[d][n] IN
    /\ kind[d] = "dir" /\ i # None
    /\ kind[i] = "dir" => Empty(i)
    /\ Set(d, n, None)
    /\ kind' = Reap(kind, names')
    /\ reply' = "ok"

\* A name moves, in one step, and takes the place of what had the new name: a
\* file that of a file, a directory that of an empty directory.
Rename(sd, sn, td, tn) ==
    LET i == names[sd][sn]
        j == names[td][tn]
    IN  /\ kind[sd] = "dir" /\ kind[td] = "dir"
        /\ i # None /\ i # j
        /\ j # None => /\ kind[i] = "dir" <=> kind[j] = "dir"
                       /\ kind[j] = "dir" => Empty(j)
        /\ names' = [[names EXCEPT ![td][tn] = i] EXCEPT ![sd][sn] = None]
        /\ kind' = Reap(kind, names')
        /\ reply' = "ok"

\* Any request may be refused, and some change no name: a rename between two
\* names of one file, open, read, write, truncate.
Same == UNCHANGED <<kind, names>> /\ reply' \in {"ok", "error"}

Next ==
    \/ Same
    \/ \E d \in Node, n \in Name :
        \/ Remove(d, n)
        \/ \E i \in Node, k \in {"dir", "reg", "lnk", "dev"} : Make(d, n, i, k)
        \/ \E i \in Node : Link(d, n, i)
        \/ \E e \in Node, m \in Name : Rename(d, n, e, m)

Spec == Init /\ [][Next]_vars
=============================================================================
