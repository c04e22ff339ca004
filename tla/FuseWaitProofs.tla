--------------------------- MODULE FuseWaitProofs ---------------------------
(***************************************************************************)
(* The helper tells the truth, for any timeout and any number of mounts of *)
(* others.  Until the helper is done, an announcement of this mount is in  *)
(* the queue from when it is posted to when the helper has handled it.     *)
(***************************************************************************)
EXTENDS FuseWait, SequenceTheorems, TLAPS

Waiting == \E k \in 1 .. Len(queue) : queue[k] = "ours"

WaitInv ==
    /\ TypeOK
    /\ phase = "start" => ~ posted
    /\ phase # "done" => result.why = "none" /\ mountPath # "ours"
    /\ Waiting => posted
    /\ posted /\ phase \in {"waitpid", "run loop"} => Waiting
    /\ HonestEnd

LEMMA Counts ==
    /\ 0 \in 0 .. Timeout
    /\ \A e \in 0 .. Timeout : e < Timeout => e + 1 \in 0 .. Timeout
    /\ \A n \in 0 .. MaxOthers : n < MaxOthers => n + 1 \in 0 .. MaxOthers
  BY TimeoutAssumption, OthersAssumption

LEMMA NothingWaits ==
    ASSUME queue = <<>>
    PROVE  queue \in Seq(Announcement) /\ ~ Waiting
<1>1. <<>> \in Seq(Announcement) /\ Len(<<>>) = 0
  BY EmptySeq
<1> QED
  BY <1>1 DEF Waiting

LEMMA InitWaits ==
    ASSUME Init
    PROVE  WaitInv
<1>0. queue \in Seq(Announcement) /\ ~ Waiting
  BY NothingWaits DEF Init
<1>1. TypeOK
  <2>1. result \in [rc : {"none", "0", "-1", "status"},
                    why : {"none", "usage", "fork", "waitpid", "command",
                           "notified", "timeout"}]
    BY DEF Init
  <2>2. elapsed \in 0 .. Timeout /\ others \in 0 .. MaxOthers
    BY TimeoutAssumption, OthersAssumption DEF Init
  <2> QED
    BY <1>0, <2>1, <2>2 DEF Init, TypeOK
<1> QED
  BY <1>0, <1>1 DEF Init, WaitInv, HonestEnd

LEMMA ReturnTyped ==
    ASSUME NEW rc, NEW why, Return(rc, why),
           rc \in {"0", "-1", "status"},
           why \in {"usage", "fork", "waitpid", "command", "notified", "timeout"}
    PROVE  /\ phase' = "done"
           /\ result' \in [rc : {"none", "0", "-1", "status"},
                           why : {"none", "usage", "fork", "waitpid", "command",
                                  "notified", "timeout"}]
           /\ result'.why = why
  BY DEF Return

\* What is announced to a helper that listens goes to the end of the queue.
LEMMA Announced ==
    ASSUME NEW a \in Announcement, TypeOK, Announce(a)
    PROVE  /\ queue' \in Seq(Announcement)
           /\ Waiting => Waiting'
           /\ Waiting' => Waiting \/ a = "ours"
           /\ Listening /\ a = "ours" => Waiting'
<1>1. queue \in Seq(Announcement)
  BY DEF TypeOK
<1>2. CASE ~ Listening
  BY <1>1, <1>2 DEF Announce, Waiting
<1>3. CASE Listening
  <2>1. queue' = Append(queue, a)
    BY <1>3 DEF Announce
  <2>2. /\ queue' \in Seq(Announcement)
        /\ Len(queue') = Len(queue) + 1
        /\ queue'[Len(queue) + 1] = a
        /\ \A k \in 1 .. Len(queue) : queue'[k] = queue[k]
    BY <1>1, <2>1
  <2> QED
    BY <1>1, <2>2 DEF Waiting
<1> QED
  BY <1>2, <1>3

\* What is left of the queue when its head has been handled.
LEMMA Handled ==
    ASSUME TypeOK, queue # <<>>, queue' = Tail(queue)
    PROVE  /\ queue' \in Seq(Announcement)
           /\ Head(queue) \in Announcement
           /\ Waiting' => Waiting
           /\ Waiting => Waiting' \/ Head(queue) = "ours"
           /\ Head(queue) = "ours" => Waiting
<1>1. queue \in Seq(Announcement) /\ Len(queue) \in Nat /\ Len(queue) >= 1
  <2>1. queue \in Seq(Announcement)
    BY DEF TypeOK
  <2>2. Len(queue) \in Nat /\ Len(queue) # 0
    BY <2>1, EmptySeq
  <2> QED
    BY <2>1, <2>2
<1>2. /\ queue' \in Seq(Announcement)
      /\ Head(queue) = queue[1] /\ queue[1] \in Announcement
      /\ Len(queue') = Len(queue) - 1
      /\ \A k \in 1 .. Len(queue) - 1 : queue'[k] = queue[k + 1]
  BY <1>1
<1>3. Waiting' => Waiting
  BY <1>1, <1>2 DEF Waiting
<1>4. ASSUME NEW k \in 1 .. Len(queue), queue[k] = "ours", k # 1
      PROVE  Waiting'
  <2>1. k - 1 \in 1 .. Len(queue')
    BY <1>1, <1>2, <1>4
  <2>2. queue'[k - 1] = "ours"
    BY <1>1, <1>2, <1>4, <2>1
  <2> QED
    BY <2>1, <2>2 DEF Waiting
<1> QED
  BY <1>1, <1>2, <1>3, <1>4 DEF Waiting

LEMMA StepWaits ==
    ASSUME WaitInv, [Next]_vars
    PROVE  WaitInv'
<1> USE DEF WaitInv
<1>1. CASE Start
  <2>1. UNCHANGED <<queue, mountPath, elapsed, posted, others>> /\ phase = "start"
    BY <1>1 DEF Start
  <2>2. CASE \/ Return("0", "usage") /\ UNCHANGED command
             \/ Return("-1", "usage") /\ UNCHANGED command
             \/ Return("-1", "fork") /\ UNCHANGED command
    <3>1. /\ phase' = "done" /\ TypeOK'
          /\ result'.why \in {"usage", "fork"}
      BY <2>1, <2>2, ReturnTyped DEF TypeOK
    <3> QED
      BY <2>1, <3>1 DEF Waiting, HonestEnd
  <2>3. CASE phase' = "waitpid" /\ command' = "running" /\ UNCHANGED result
    <3>1. TypeOK'
      BY <2>1, <2>3 DEF TypeOK
    <3> QED
      BY <2>1, <2>3, <3>1 DEF Waiting, HonestEnd
  <2> QED
    BY <1>1, <2>2, <2>3 DEF Start
<1>2. CASE WaitPid
  <2>1. UNCHANGED <<command, queue, mountPath, elapsed, posted, others>>
        /\ phase = "waitpid"
    BY <1>2 DEF WaitPid
  <2>2. CASE \/ Return("-1", "waitpid")
             \/ Return("-1", "command")
             \/ Return("status", "command")
    <3>1. /\ phase' = "done" /\ TypeOK'
          /\ result'.why \in {"waitpid", "command"}
      BY <2>1, <2>2, ReturnTyped DEF TypeOK
    <3> QED
      BY <2>1, <3>1 DEF Waiting, HonestEnd
  <2>3. CASE phase' = "run loop" /\ UNCHANGED result
    <3>1. TypeOK'
      BY <2>1, <2>3 DEF TypeOK
    <3> QED
      BY <2>1, <2>3, <3>1 DEF Waiting, HonestEnd
  <2> QED
    BY <1>2, <2>2, <2>3 DEF WaitPid
<1>3. CASE Handle
  <2>1. /\ UNCHANGED <<command, posted, others>> /\ phase = "run loop"
        /\ elapsed' = 0 /\ mountPath' = NotificationCallback(Head(queue))
        /\ queue # <<>> /\ queue' = Tail(queue)
    BY <1>3 DEF Handle
  <2>2. /\ elapsed' \in 0 .. Timeout
        /\ queue' \in Seq(Announcement)
        /\ Head(queue) \in Announcement
        /\ Waiting' => Waiting
        /\ Waiting => Waiting' \/ Head(queue) = "ours"
        /\ Head(queue) = "ours" => Waiting
    BY <2>1, Handled, Counts
  <2>3. CASE Head(queue) = "ours"
    <3>1. mountPath' = "ours" /\ Return("0", "notified")
      BY <1>3, <2>1, <2>3 DEF Handle, NotificationCallback, IsMountpoint
    <3>2. posted
      BY <2>2, <2>3
    <3>3. /\ phase' = "done" /\ TypeOK'
          /\ result'.why = "notified"
      BY <2>1, <2>2, <3>1, ReturnTyped DEF TypeOK
    <3> QED
      BY <2>1, <2>2, <3>2, <3>3 DEF HonestEnd
  <2>4. CASE Head(queue) # "ours"
    <3>1. mountPath' \in {"NULL", "other"} /\ UNCHANGED <<phase, result>>
      BY <1>3, <2>1, <2>2, <2>4
      DEF Handle, NotificationCallback, IsMountpoint, Announcement, TypeOK
    <3> QED
      <4>1. TypeOK'
        BY <2>1, <2>2, <3>1 DEF TypeOK
      <4> QED
        BY <2>1, <2>2, <2>4, <3>1, <4>1 DEF HonestEnd
  <2> QED
    BY <2>3, <2>4
<1>4. CASE TimedOut
  <2>1. /\ UNCHANGED <<command, queue, mountPath, elapsed, posted, others>>
        /\ phase = "run loop" /\ queue = <<>> /\ Return("0", "timeout")
    BY <1>4 DEF TimedOut
  <2>2. ~ posted
    BY <2>1, NothingWaits
  <2> QED
    <3>1. /\ phase' = "done" /\ TypeOK'
          /\ result'.why = "timeout"
      BY <2>1, ReturnTyped DEF TypeOK
    <3> QED
      BY <2>1, <2>2, <3>1 DEF Waiting, HonestEnd
<1>5. CASE Tick
  <2>1. elapsed' \in 0 .. Timeout
    <3>1. elapsed \in 0 .. Timeout /\ elapsed < Timeout /\ elapsed' = elapsed + 1
      BY <1>5 DEF Tick, TypeOK
    <3> QED
      BY <3>1, Counts
  <2>2. TypeOK'
    BY <1>5, <2>1 DEF Tick, TypeOK
  <2> QED
    BY <1>5, <2>2 DEF Tick, Waiting, HonestEnd
<1>6. CASE CommandEnds
  <2>1. TypeOK'
    BY <1>6 DEF CommandEnds, TypeOK
  <2> QED
    BY <1>6, <2>1 DEF CommandEnds, Waiting, HonestEnd
<1>7. CASE Mounted
  <2>1. /\ phase \in {"waitpid", "run loop"} /\ posted' = TRUE /\ Announce("ours")
        /\ UNCHANGED <<phase, command, mountPath, elapsed, result, others>>
    BY <1>7 DEF Mounted
  <2>2. queue' \in Seq(Announcement) /\ Waiting'
    BY <2>1, Announced DEF Announcement, Listening
  <2> QED
    <3>1. TypeOK'
      BY <2>1, <2>2 DEF TypeOK
    <3> QED
      BY <2>1, <2>2, <3>1 DEF HonestEnd
<1>8. CASE OtherMounted
  <2>1. /\ phase # "done" /\ others < MaxOthers /\ others' = others + 1
        /\ UNCHANGED <<phase, command, mountPath, elapsed, result, posted>>
    BY <1>8 DEF OtherMounted
  <2>2. PICK a \in Announcement \ {"ours"} : Announce(a)
    BY <1>8 DEF OtherMounted
  <2>3. queue' \in Seq(Announcement) /\ (Waiting <=> Waiting')
    BY <2>2, Announced
  <2>4. others' \in 0 .. MaxOthers
    <3>1. others \in 0 .. MaxOthers
      BY DEF TypeOK
    <3> QED
      BY <2>1, <3>1, Counts
  <2>5. TypeOK'
    BY <2>1, <2>3, <2>4 DEF TypeOK
  <2> QED
    BY <2>1, <2>3, <2>5 DEF HonestEnd
<1>9. CASE UNCHANGED vars
  <2>1. TypeOK'
    BY <1>9 DEF vars, TypeOK
  <2> QED
    BY <1>9, <2>1 DEF vars, Waiting, HonestEnd
<1> QED
  BY <1>1, <1>2, <1>3, <1>4, <1>5, <1>6, <1>7, <1>8, <1>9 DEF Next, Helper

LEMMA AlwaysWaitInv == Spec => []WaitInv
<1>1. Init => WaitInv
  BY InitWaits
<1>2. WaitInv /\ [Next]_vars => WaitInv'
  BY StepWaits
<1> QED
  BY <1>1, <1>2, PTL DEF Spec

\* The variables of the helper keep their types: whatever an announcement
\* brings for a path, mountPath is one of the paths (NotificationCallback).
THEOREM HelperTyping == Spec => []TypeOK
<1>1. WaitInv => TypeOK
  BY DEF WaitInv
<1> QED
  BY AlwaysWaitInv, <1>1, PTL

\* However long the timeout, however many other mounts are announced and
\* whenever this one is, before its command returns or after: the helper ends
\* as notified only if the mount is there, and gives up only if it is not.
THEOREM HelperIsHonest == Spec => []HonestEnd
<1>1. WaitInv => HonestEnd
  BY DEF WaitInv
<1> QED
  BY AlwaysWaitInv, <1>1, PTL
=============================================================================
