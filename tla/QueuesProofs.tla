----------------------------- MODULE QueuesProofs -----------------------------
(***************************************************************************)
(* The io queue for any number of readers and writers, any size of buffer, *)
(* any keys, in both of its uses.                                          *)
(***************************************************************************)
EXTENDS Queues, SyncOpsProofs, WellFoundedInduction

\* Who is inside a call, and how much of it remains.  With interrupts off a
\* thread is at the while test only while it runs.
CallsInv ==
  \A t \in Thread :
    /\ pc[t] # "user" => t \in Client /\ todo[t] > 0
    /\ pc[t] = "test" => t = self

\* The queue's lock is held from the end of lock_acquire to lock_release.
HasLock(t) == pc[t] \in {"wait", "woken"}

QueueLockInv ==
  /\ value[ioq] = 1 =>
       /\ holder[ioq] = NULL /\ repeat[ioq] = 0
       /\ \A t \in Thread : ~HasLock(t)
  /\ value[ioq] = 0 => \E t \in Thread : HasLock(t)
  /\ \A t \in Thread : HasLock(t) => holder[ioq] = t /\ repeat[ioq] = 1

LockWaitersInv ==
  /\ IsInjective(waiters[ioq])
  /\ \A t \in Thread : t \in ToSet(waiters[ioq])
                         <=> pc[t] = "lock" /\ sched.status[t] = "BLOCKED"

\* A slot names the thread that sleeps for its side of the queue, if any does.
SlotInv ==
  \A t \in Thread : \A o \in Op :
    waiter[o] = t <=> pc[t] = "woken" /\ op[t] = o /\ sched.status[t] = "BLOCKED"

(***************************************************************************)
(* What a call still has to move, against what the queue offers.  A reader *)
(* of a pipe never outruns the content; a writer may outrun the room by    *)
(* one character, and if it sleeps then that one is all it owes.           *)
(***************************************************************************)
Offer(o) == IF o = "get" THEN ioq_length ELSE bufsize - ioq_length

PipeInv ==
  \A t \in Thread :
    /\ pc[t] = "test" => todo[t] <= Offer(op[t])
    /\ pc[t] \in {"lock", "wait", "woken"} => op[t] = "put" /\ todo[t] = 1

ShellInv ==
  \A t \in Thread : op[t] = "get" /\ (pc[t] # "user" => t = shell)

QInv ==
  /\ IoQueueTypeOK /\ queue \in {"keyboard", "pipe"}
  /\ SchedInv(sched)
  /\ CallsInv
  /\ QueueLockInv
  /\ LockWaitersInv
  /\ SlotInv
  /\ queue = "pipe" => PipeInv
  /\ queue = "keyboard" => ShellInv

\* The keyboard and the line.
KbdInv ==
  /\ mode \in ModeType /\ held \subseteq Key
  /\ orphan \subseteq DOMAIN Twins /\ misread \in BOOLEAN
  /\ line \in Seq(Char) /\ Len(line) <= cmd_len
  /\ hand \in Char \cup {NULL}

IInv == QInv /\ KbdInv

-----------------------------------------------------------------------------
(***************************************************************************)
(* The ring buffer                                                         *)
(***************************************************************************)
(* The remainder of a position that went at most once around the ring.      *)
LEMMA Wraps ==
  ASSUME NEW n \in Nat, n < 2 * bufsize
  PROVE  n % bufsize = IF n < bufsize THEN n ELSE n - bufsize
BY IoQueueAssumption

LEMMA NextPos ==
  ASSUME NEW p \in Pos
  PROVE  /\ next_pos(p) \in Pos
         /\ next_pos(p) = IF p = bufsize - 1 THEN 0 ELSE p + 1
<1>1. p \in Nat /\ p < bufsize /\ bufsize \in Nat /\ bufsize > 1
  BY IoQueueAssumption DEF Pos
<1>2. next_pos(p) = IF p + 1 < bufsize THEN p + 1 ELSE p + 1 - bufsize
  BY <1>1, Wraps DEF next_pos
<1>3. QED  BY <1>1, <1>2 DEF Pos

(* How many characters there are, and when there are none or no room.       *)
LEMMA RingLength ==
  ASSUME head \in Pos, tail \in Pos
  PROVE  /\ ioq_length \in 0 .. bufsize - 1
         /\ ioq_empty <=> ioq_length = 0
         /\ ioq_full <=> ioq_length = bufsize - 1
BY NextPos, IoQueueAssumption DEF ioq_length, ioq_empty, ioq_full, Pos

\* The slot of the i-th of the characters that begin at position p, and the
\* n characters that begin there.
Slot(p, i) == IF p + i - 1 < bufsize THEN p + i - 1 ELSE p + i - 1 - bufsize
ContentOf(b, p, n) == [i \in 1 .. n |-> b[(p + i - 1) % bufsize]]

LEMMA ContentIs ==
  ASSUME NEW b \in [Pos -> Char], NEW p \in Pos, NEW n \in 0 .. bufsize - 1
  PROVE  /\ ContentOf(b, p, n) \in Seq(Char) /\ Len(ContentOf(b, p, n)) = n
         /\ \A i \in 1 .. n : Slot(p, i) \in Pos /\ ContentOf(b, p, n)[i] = b[Slot(p, i)]
<1>1. n \in Nat /\ n < bufsize /\ bufsize \in Nat /\ p \in Nat /\ p < bufsize
  BY IoQueueAssumption DEF Pos
<1>2. ASSUME NEW i \in 1 .. n
      PROVE  (p + i - 1) % bufsize = Slot(p, i) /\ Slot(p, i) \in Pos
  <2> DEFINE k == p + i - 1
  <2>1. k \in Nat /\ k < 2 * bufsize
    BY <1>1
  <2>2. Slot(p, i) = (IF k < bufsize THEN k ELSE k - bufsize) /\ Slot(p, i) \in Pos
    BY <1>1 DEF Slot, Pos
  <2> HIDE DEF k
  <2>3. k % bufsize = IF k < bufsize THEN k ELSE k - bufsize
    BY <2>1, Wraps
  <2>4. QED  BY <2>2, <2>3 DEF k
<1>3. ContentOf(b, p, n) = [i \in 1 .. n |-> b[Slot(p, i)]]
  BY <1>2 DEF ContentOf
<1>4. ContentOf(b, p, n) \in [1 .. n -> Char]
  BY <1>2, <1>3
<1>5. QED  BY <1>1, <1>2, <1>3, <1>4, LenProperties

(* Storing appends to the content, taking removes its head.                 *)
LEMMA StoreAppends ==
  ASSUME buf \in [Pos -> Char], head \in Pos, tail \in Pos, ~ioq_full,
         NEW ch \in Char, StoreChar(ch)
  PROVE  /\ buf' \in [Pos -> Char] /\ head' \in Pos /\ tail' \in Pos
         /\ ioq_length' = ioq_length + 1
         /\ Len(Content) < bufsize - 1
         /\ Content' = Append(Content, ch)
<1>1. /\ buf' = [buf EXCEPT ![head] = ch] /\ tail' = tail
      /\ head' = IF head = bufsize - 1 THEN 0 ELSE head + 1
      /\ head \in Nat /\ tail \in Nat /\ head < bufsize /\ tail < bufsize
      /\ bufsize \in Nat /\ bufsize > 1
  BY NextPos, IoQueueAssumption DEF StoreChar, Pos
<1>2. buf' \in [Pos -> Char] /\ head' \in Pos /\ tail' \in Pos
  BY <1>1 DEF Pos
<1>3. ioq_length \in Nat /\ ioq_length < bufsize - 1
  BY <1>1, RingLength
<1>4. ioq_length' = ioq_length + 1
  BY <1>1, <1>3, NextPos DEF ioq_length, ioq_full, Pos
<1>5. /\ Content \in Seq(Char) /\ Len(Content) = ioq_length
      /\ \A i \in 1 .. ioq_length : Content[i] = buf[Slot(tail, i)]
  <2>1. Content = ContentOf(buf, tail, ioq_length)
    BY DEF Content, ContentOf
  <2>2. PICK n \in 0 .. bufsize - 1 : n = ioq_length
    BY <1>1, <1>3
  <2>3. QED  BY <2>1, <2>2, ContentIs
<1>6. /\ Content' \in Seq(Char) /\ Len(Content') = ioq_length + 1
      /\ \A i \in 1 .. ioq_length + 1 : Content'[i] = buf'[Slot(tail, i)]
  <2>1. Content' = ContentOf(buf', tail, ioq_length + 1)
    BY <1>1, <1>4 DEF Content, ContentOf
  <2>2. PICK n \in 0 .. bufsize - 1 : n = ioq_length + 1
    BY <1>1, <1>3
  <2>3. QED  BY <1>2, <2>1, <2>2, ContentIs
<1>7. \A i \in 1 .. ioq_length : Slot(tail, i) \in Pos \ {head}
  BY <1>1, <1>3 DEF Slot, ioq_length, Pos
<1>8. Slot(tail, ioq_length + 1) = head
  BY <1>1, <1>3 DEF Slot, ioq_length
<1>9. \A i \in 1 .. ioq_length + 1 :
         Content'[i] = IF i = ioq_length + 1 THEN ch ELSE Content[i]
  BY <1>1, <1>3, <1>5, <1>6, <1>7, <1>8
<1>10. /\ Append(Content, ch) \in Seq(Char) /\ Len(Append(Content, ch)) = ioq_length + 1
       /\ \A i \in 1 .. ioq_length + 1 :
            Append(Content, ch)[i] = IF i = ioq_length + 1 THEN ch ELSE Content[i]
  BY <1>3, <1>5, AppendProperties
<1>11. Content' = Append(Content, ch)
  BY <1>6, <1>9, <1>10, SeqEqual
<1>12. QED  BY <1>2, <1>3, <1>4, <1>5, <1>11

LEMMA TakeRemoves ==
  ASSUME buf \in [Pos -> Char], head \in Pos, tail \in Pos, ~ioq_empty, TakeChar
  PROVE  /\ buf' \in [Pos -> Char] /\ head' \in Pos /\ tail' \in Pos
         /\ ioq_length' = ioq_length - 1
         /\ Content # << >>
         /\ Content' = Tail(Content)
<1>1. /\ buf' = buf /\ head' = head
      /\ tail' = IF tail = bufsize - 1 THEN 0 ELSE tail + 1
      /\ head \in Nat /\ tail \in Nat /\ head < bufsize /\ tail < bufsize
      /\ bufsize \in Nat /\ bufsize > 1
  BY NextPos, IoQueueAssumption DEF TakeChar, Pos
<1>2. buf' \in [Pos -> Char] /\ head' \in Pos /\ tail' \in Pos
  BY <1>1 DEF Pos
<1>3. ioq_length \in Nat /\ ioq_length < bufsize /\ ioq_length > 0
  BY <1>1, RingLength
<1>4. ioq_length' = ioq_length - 1
  BY <1>1, <1>3 DEF ioq_length, ioq_empty
<1>5. /\ Content \in Seq(Char) /\ Len(Content) = ioq_length
      /\ \A i \in 1 .. ioq_length : Content[i] = buf[Slot(tail, i)]
  <2>1. Content = ContentOf(buf, tail, ioq_length)
    BY DEF Content, ContentOf
  <2>2. PICK n \in 0 .. bufsize - 1 : n = ioq_length
    BY <1>1, <1>3
  <2>3. QED  BY <2>1, <2>2, ContentIs
<1>6. /\ Content' \in Seq(Char) /\ Len(Content') = ioq_length - 1
      /\ \A i \in 1 .. ioq_length - 1 : Content'[i] = buf[Slot(tail', i)]
  <2>1. Content' = ContentOf(buf, tail', ioq_length - 1)
    BY <1>1, <1>4 DEF Content, ContentOf
  <2>2. PICK n \in 0 .. bufsize - 1 : n = ioq_length - 1
    BY <1>1, <1>3
  <2>3. QED  BY <1>2, <2>1, <2>2, ContentIs
<1>7. \A i \in 1 .. ioq_length - 1 : Slot(tail', i) = Slot(tail, i + 1)
  BY <1>1, <1>3 DEF Slot, ioq_length
<1>8. Content # << >>
  BY <1>3, <1>5, EmptySeq
<1>9. /\ Tail(Content) \in Seq(Char) /\ Len(Tail(Content)) = ioq_length - 1
      /\ \A i \in 1 .. ioq_length - 1 : Tail(Content)[i] = Content[i + 1]
  BY <1>3, <1>5, <1>8, HeadTailProperties
<1>10. \A i \in 1 .. ioq_length - 1 : Content'[i] = Tail(Content)[i]
  BY <1>3, <1>5, <1>6, <1>7, <1>9
<1>11. Content' = Tail(Content)
  BY <1>6, <1>9, <1>10, SeqEqual
<1>12. QED  BY <1>2, <1>4, <1>8, <1>11

-----------------------------------------------------------------------------
(***************************************************************************)
(* The queue's invariant                                                   *)
(***************************************************************************)
(* The facts about the current state that every step starts from.           *)
LEMMA Facts ==
  ASSUME QInv
  PROVE  /\ self \in Thread /\ self = sched.cur
         /\ sched.status \in [Thread -> TaskStatus]
         /\ \A t \in Thread : sched.status[t] = "RUNNING" <=> t = self
         /\ value \in [Sema -> {0, 1}] /\ waiters \in [Sema -> Seq(Thread)]
         /\ holder \in [Lock -> Thread \cup {NULL}] /\ repeat \in [Lock -> Nat]
         /\ buf \in [Pos -> Char] /\ head \in Pos /\ tail \in Pos
         /\ waiter \in [Op -> Client \cup {NULL}]
         /\ pc \in [Thread -> Pc] /\ op \in [Thread -> Op] /\ todo \in [Thread -> Nat]
         /\ SchedInv(sched) /\ CallsInv /\ QueueLockInv /\ LockWaitersInv /\ SlotInv
         /\ ioq \in Sema /\ ioq \in Lock /\ NULL \notin Thread
         /\ Client \subseteq Thread \ {idle_thread} /\ idle_thread \in Thread
<1>1. /\ sched \in SchedState
      /\ \A t \in Thread : sched.status[t] = "RUNNING" <=> t = sched.cur
  BY DEF QInv, SchedInv, OneRunning
<1>2. sched.cur \in Thread /\ sched.status \in [Thread -> TaskStatus]
  BY <1>1 DEF SchedState
<1>3. QED
  BY <1>1, <1>2, IoQueueAssumption, SyncAssumption, ThreadAssumption
     DEF QInv, IoQueueTypeOK, SyncTypeOK, self

CallTypes == pc \in [Thread -> Pc] /\ op \in [Thread -> Op] /\ todo \in [Thread -> Nat]

\* Only thread t moves in its call.
OthersStay(t) ==
  \A u \in Thread \ {t} : pc'[u] = pc[u] /\ op'[u] = op[u] /\ todo'[u] = todo[u]

(* A step of the running thread that leaves the scheduler alone.            *)
LEMMA OwnStep ==
  ASSUME QInv, NEW t \in Thread, t = self, t \in Client, CallTypes', OthersStay(t),
         pc'[t] # "user" => todo'[t] > 0, UNCHANGED << sched, waiters, waiter >>
  PROVE  CallsInv' /\ LockWaitersInv' /\ SlotInv'
<1>1. sched.status[t] # "BLOCKED" /\ self' = self
  BY Facts DEF self
<1>2. CallsInv'
  BY <1>1, Facts DEF CallsInv, OthersStay
<1>3. LockWaitersInv'
  BY <1>1, Facts DEF LockWaitersInv, OthersStay
<1>4. SlotInv'
  BY <1>1, Facts DEF SlotInv, OthersStay
<1>5. QED  BY <1>2, <1>3, <1>4

(* What the calls owe, when only thread t moves: nobody else is at the test. *)
LEMMA OwnOffer ==
  ASSUME QInv, NEW t \in Thread, t = self, CallTypes', OthersStay(t), queue' = queue,
         queue = "pipe" =>
           /\ pc'[t] = "test" => todo'[t] <= Offer(op[t])'
           /\ pc'[t] \in {"lock", "wait", "woken"} => op'[t] = "put" /\ todo'[t] = 1,
         queue = "keyboard" => op'[t] = "get" /\ (pc'[t] # "user" => t = shell)
  PROVE  (queue = "pipe" => PipeInv)' /\ (queue = "keyboard" => ShellInv)'
<1>1. \A u \in Thread \ {t} : pc'[u] # "test"
  BY Facts DEF CallsInv, OthersStay
<1>2. ASSUME queue = "pipe" PROVE PipeInv'
  BY <1>1, <1>2 DEF QInv, PipeInv, OthersStay
<1>3. ASSUME queue = "keyboard" PROVE ShellInv'
  BY <1>3 DEF QInv, ShellInv, OthersStay
<1>4. QED  BY <1>2, <1>3

(* Thread t neither takes nor gives up the lock.                            *)
LEMMA LockKept ==
  ASSUME QInv, NEW t \in Thread, OthersStay(t), HasLock(t)' <=> HasLock(t),
         value'[ioq] = value[ioq], UNCHANGED lockVars
  PROVE  QueueLockInv'
<1>1. \A u \in Thread : HasLock(u)' <=> HasLock(u)
  BY DEF HasLock, OthersStay
<1>2. QED  BY <1>1, Facts DEF QueueLockInv, lockVars

LEMMA BeginStep ==
  ASSUME QInv, At("user"), NEW o \in Op, NEW n \in Nat, Begin(o, n), queue' = queue,
         queue = "pipe" => n <= Offer(o), queue = "keyboard" => o = "get" /\ self = shell
  PROVE  QInv'
<1>1. PICK t \in Thread : t = self
  BY Facts
<1>2. /\ t \in Client /\ pc[t] = "user" /\ n > 0
      /\ op' = [op EXCEPT ![t] = o] /\ todo' = [todo EXCEPT ![t] = n]
      /\ pc' = [pc EXCEPT ![t] = "test"]
      /\ UNCHANGED << sched, value, waiters, holder, repeat, buf, head, tail, waiter >>
  BY <1>1 DEF At, Begin, Goto, semaVars, lockVars, ringVars
<1>3. /\ CallTypes' /\ OthersStay(t)
      /\ pc'[t] = "test" /\ op'[t] = o /\ todo'[t] = n
  BY <1>2, Facts DEF CallTypes, OthersStay, Pc
<1>4. CallsInv' /\ LockWaitersInv' /\ SlotInv'
  BY <1>1, <1>2, <1>3, OwnStep
<1>5. QueueLockInv'
  BY <1>2, <1>3, LockKept DEF HasLock, lockVars
<1>6. (queue = "pipe" => PipeInv)' /\ (queue = "keyboard" => ShellInv)'
  <2>1. Offer(op[t])' = Offer(o)
    BY <1>2, <1>3 DEF Offer, ioq_length
  <2>2. QED  BY <1>1, <1>3, <2>1, OwnOffer
<1>7. IoQueueTypeOK' /\ SchedInv(sched')
  BY <1>2, <1>3, Facts DEF IoQueueTypeOK, SyncTypeOK, SchedInv, CallTypes
<1>8. QED  BY <1>4, <1>5, <1>6, <1>7 DEF QInv

LEMMA TestStep == QInv /\ Test /\ queue' = queue => QInv'
<1> SUFFICES ASSUME QInv, Test, queue' = queue PROVE QInv'
  OBVIOUS
<1>1. PICK t \in Thread : t = self
  BY Facts
<1>2. /\ t \in Client /\ pc[t] = "test" /\ CannotServe(op[t]) /\ pc' = [pc EXCEPT ![t] = "lock"]
      /\ UNCHANGED << sched, value, waiters, holder, repeat, buf, head, tail, waiter, op, todo >>
  BY <1>1 DEF At, Test, Goto, semaVars, lockVars, ringVars
<1>3. /\ CallTypes' /\ OthersStay(t) /\ pc'[t] = "lock"
      /\ todo[t] > 0 /\ todo[t] \in Nat /\ op[t] \in Op
  BY <1>2, Facts DEF CallTypes, OthersStay, Pc, CallsInv
<1>4. CallsInv' /\ LockWaitersInv' /\ SlotInv'
  BY <1>1, <1>2, <1>3, OwnStep
<1>5. QueueLockInv'
  BY <1>2, <1>3, LockKept DEF HasLock, lockVars
<1>6. (queue = "pipe" => PipeInv)' /\ (queue = "keyboard" => ShellInv)'
  <2>1. ASSUME queue = "pipe" PROVE op[t] = "put" /\ todo[t] = 1
    <3>1. todo[t] <= Offer(op[t])
      BY <1>2, <2>1 DEF QInv, PipeInv
    <3>2. IF op[t] = "get" THEN ioq_length = 0 ELSE op[t] = "put" /\ ioq_length = bufsize - 1
      BY <1>2, <1>3, Facts, RingLength DEF CannotServe, Op
    <3>3. QED  BY <1>3, <3>1, <3>2, IoQueueAssumption DEF Offer
  <2>2. queue = "keyboard" => op[t] = "get" /\ t = shell
    BY <1>2 DEF QInv, ShellInv
  <2>3. QED  BY <1>1, <1>2, <1>3, <2>1, <2>2, OwnOffer
<1>7. IoQueueTypeOK' /\ SchedInv(sched')
  BY <1>2, <1>3, Facts DEF IoQueueTypeOK, SyncTypeOK, SchedInv, CallTypes
<1>8. QED  BY <1>4, <1>5, <1>6, <1>7 DEF QInv

(* A step inside the loop of a call that goes on waiting for its side.      *)
LEMMA LoopOffer ==
  ASSUME QInv, NEW t \in Thread, t = self, CallTypes', OthersStay(t),
         UNCHANGED << op, todo, queue >>, UNCHANGED ringVars, pc[t] \in {"lock", "wait", "woken"}
  PROVE  (queue = "pipe" => PipeInv)' /\ (queue = "keyboard" => ShellInv)'
<1>1. queue = "pipe" => op[t] = "put" /\ todo[t] = 1
  BY DEF QInv, PipeInv
<1>2. queue = "keyboard" => op[t] = "get" /\ t = shell
  BY DEF QInv, ShellInv
<1>3. op[t] = "put" => Offer(op[t])' >= 1
  <2>1. op[t] = "put" => Offer(op[t])' = bufsize - ioq_length
    BY DEF Offer, ioq_length, ringVars
  <2>2. QED  BY <2>1, Facts, RingLength, IoQueueAssumption
<1>4. QED  BY <1>1, <1>2, <1>3, OwnOffer

LEMMA LockGotStep == QInv /\ LockGot /\ queue' = queue => QInv'
<1> SUFFICES ASSUME QInv, LockGot, queue' = queue PROVE QInv'
  OBVIOUS
<1>1. PICK t \in Thread : t = self
  BY Facts
<1>2. /\ t \in Client /\ pc[t] = "lock" /\ ~HasLock(t) /\ pc' = [pc EXCEPT ![t] = "wait"]
      /\ UNCHANGED << buf, head, tail, waiter, op, todo >>
  BY <1>1 DEF At, LockGot, Goto, HasLock, ringVars
<1>3. /\ value[ioq] = 1 /\ value' = [value EXCEPT ![ioq] = 0]
      /\ holder' = [holder EXCEPT ![ioq] = t] /\ repeat' = [repeat EXCEPT ![ioq] = 1]
      /\ UNCHANGED << sched, waiters >>
  <2>1. holder[ioq] # t
    <3>1. CASE value[ioq] = 1
      BY <3>1, Facts DEF QueueLockInv
    <3>2. CASE value[ioq] = 0
      BY <1>2, <3>2, Facts DEF QueueLockInv
    <3>3. QED  BY <3>1, <3>2, Facts
  <2>2. SemaTake(ioq) /\ value[ioq] = 1
    BY <1>1, <2>1, Facts DEF LockGot, LockTake, LockAgain, SemaTake
  <2>3. QED  BY <1>1, <2>1, <2>2 DEF LockGot, LockTake, LockAgain, SemaTake
<1>4. CallTypes' /\ OthersStay(t) /\ pc'[t] = "wait" /\ todo'[t] > 0
  BY <1>2, Facts DEF CallTypes, OthersStay, Pc, CallsInv
<1>5. CallsInv' /\ LockWaitersInv' /\ SlotInv'
  BY <1>1, <1>2, <1>3, <1>4, OwnStep
<1>6. QueueLockInv'
  BY <1>3, <1>4, Facts DEF QueueLockInv, HasLock, OthersStay
<1>7. (queue = "pipe" => PipeInv)' /\ (queue = "keyboard" => ShellInv)'
  BY <1>1, <1>2, <1>4, LoopOffer DEF ringVars
<1>8. IoQueueTypeOK' /\ SchedInv(sched')
  BY <1>2, <1>3, <1>4, Facts DEF IoQueueTypeOK, SyncTypeOK, SchedInv, CallTypes
<1>9. QED  BY <1>5, <1>6, <1>7, <1>8 DEF QInv

LEMMA UnlockStep == QInv /\ Unlock /\ queue' = queue => QInv'
<1> SUFFICES ASSUME QInv, Unlock, queue' = queue PROVE QInv'
  OBVIOUS
<1>1. PICK t \in Thread : t = self
  BY Facts
<1>2. /\ t \in Client /\ pc[t] = "woken" /\ HasLock(t) /\ pc' = [pc EXCEPT ![t] = "test"]
      /\ UNCHANGED << buf, head, tail, waiter, op, todo >>
  BY <1>1 DEF At, Unlock, Goto, HasLock, ringVars
<1>3. /\ holder[ioq] = t /\ repeat[ioq] = 1 /\ value[ioq] = 0
      /\ \A u \in Thread : HasLock(u) => u = t
  BY <1>2, Facts DEF QueueLockInv
<1>4. /\ holder' = [holder EXCEPT ![ioq] = NULL] /\ repeat' = [repeat EXCEPT ![ioq] = 0]
      /\ sema_up(ioq)
  BY <1>1, <1>3 DEF Unlock, lock_release
<1>5. CallTypes' /\ OthersStay(t) /\ pc'[t] = "test" /\ todo'[t] > 0
  BY <1>2, Facts DEF CallTypes, OthersStay, Pc, CallsInv
<1>6. /\ SchedInv(sched') /\ sched'.cur = sched.cur
      /\ value' = [value EXCEPT ![ioq] = 1]
      /\ waiters' \in [Sema -> Seq(Thread)]
      /\ \/ waiters[ioq] = << >> /\ waiters' = waiters /\ sched' = sched
         \/ \E u \in ToSet(waiters[ioq]) :
              /\ u \in Thread
              /\ waiters' = [waiters EXCEPT ![ioq] = Tail(@)]
              /\ IsInjective(waiters'[ioq])
              /\ ToSet(waiters'[ioq]) = ToSet(waiters[ioq]) \ {u}
              /\ sched'.status = [sched.status EXCEPT ![u] = "READY"]
  <2>1. waiters[ioq] \in Seq(Thread)
    BY Facts
  <2>2. \A u \in ToSet(waiters[ioq]) : u \in Thread
    BY <2>1, LenProperties DEF ToSet
  <2>3. \A u \in ToSet(waiters[ioq]) : sched.status[u] \in Blocked
    BY <2>2, Facts DEF LockWaitersInv, Blocked
  <2>4. IsInjective(waiters[ioq])
    BY Facts DEF LockWaitersInv
  <2>5. QED  BY <1>3, <1>4, <2>3, <2>4, UpStep, Facts
<1>7. LockWaitersInv' /\ SlotInv'
  <2>1. CASE waiters' = waiters /\ sched' = sched
    BY <1>1, <1>2, <1>5, <2>1, OwnStep
  <2>2. CASE \E u \in ToSet(waiters[ioq]) :
              /\ u \in Thread
              /\ waiters' = [waiters EXCEPT ![ioq] = Tail(@)]
              /\ IsInjective(waiters'[ioq])
              /\ ToSet(waiters'[ioq]) = ToSet(waiters[ioq]) \ {u}
              /\ sched'.status = [sched.status EXCEPT ![u] = "READY"]
    <3>1. PICK u \in Thread :
              /\ u \in ToSet(waiters[ioq])
              /\ IsInjective(waiters'[ioq])
              /\ ToSet(waiters'[ioq]) = ToSet(waiters[ioq]) \ {u}
              /\ sched'.status = [sched.status EXCEPT ![u] = "READY"]
      BY <2>2
    <3>2. /\ pc[u] = "lock" /\ u # t /\ sched'.status[u] = "READY"
          /\ sched.status[t] = "RUNNING"
          /\ \A v \in Thread \ {u} : sched'.status[v] = sched.status[v]
      BY <1>1, <1>2, <3>1, Facts DEF LockWaitersInv
    <3>3. LockWaitersInv'
      BY <1>5, <3>1, <3>2, Facts DEF LockWaitersInv, OthersStay
    <3>4. SlotInv'
      <4> SUFFICES ASSUME NEW v \in Thread, NEW o \in Op
                   PROVE  waiter[o] = v <=> /\ pc'[v] = "woken" /\ op'[v] = o
                                            /\ sched'.status[v] = "BLOCKED"
        BY <1>2 DEF SlotInv
      <4>1. waiter[o] = v <=> pc[v] = "woken" /\ op[v] = o /\ sched.status[v] = "BLOCKED"
        BY Facts DEF SlotInv
      <4>2. QED  BY <1>2, <1>5, <3>2, <4>1 DEF OthersStay
    <3>5. QED  BY <3>3, <3>4
  <2>3. QED  BY <1>6, <2>1, <2>2
<1>8. CallsInv'
  BY <1>1, <1>2, <1>5, <1>6, Facts DEF CallsInv, OthersStay, self
<1>9. QueueLockInv'
  BY <1>3, <1>4, <1>5, <1>6, Facts DEF QueueLockInv, HasLock, OthersStay
<1>10. (queue = "pipe" => PipeInv)' /\ (queue = "keyboard" => ShellInv)'
  BY <1>1, <1>2, <1>5, LoopOffer DEF ringVars
<1>11. IoQueueTypeOK'
  BY <1>2, <1>4, <1>5, <1>6, Facts DEF IoQueueTypeOK, SyncTypeOK, SchedInv, CallTypes
<1>12. QED  BY <1>6, <1>7, <1>8, <1>9, <1>10, <1>11 DEF QInv

(***************************************************************************)
(* The steps that switch threads                                           *)
(***************************************************************************)
(* Outside the queue, another thread gets the cpu.                          *)
LEMMA SwitchStep ==
  ASSUME QInv, SchedInv(sched'), pc[self] = "user",
         \A t \in Thread \ {idle_thread} :
           sched'.status[t] = "BLOCKED" <=> sched.status[t] = "BLOCKED",
         UNCHANGED << semaVars, lockVars, ringVars, waiter, callVars, queue >>
  PROVE  QInv'
<1> USE DEF semaVars, lockVars, ringVars, callVars
<1>1. \A t \in Thread : pc[t] # "test"
  BY Facts DEF CallsInv
<1>2. \A t \in Thread : pc[t] # "user" =>
        (sched'.status[t] = "BLOCKED" <=> sched.status[t] = "BLOCKED")
  BY Facts DEF CallsInv
<1>3. CallsInv' /\ QueueLockInv'
  BY <1>1, Facts DEF CallsInv, QueueLockInv, HasLock
<1>4. LockWaitersInv'
  BY <1>2, Facts DEF LockWaitersInv
<1>5. SlotInv'
  BY <1>2, Facts DEF SlotInv
<1>6. (queue = "pipe" => PipeInv)' /\ (queue = "keyboard" => ShellInv)'
  BY <1>1 DEF QInv, PipeInv, ShellInv
<1>7. IoQueueTypeOK'
  BY Facts DEF IoQueueTypeOK, SyncTypeOK, SchedInv
<1>8. QED  BY <1>3, <1>4, <1>5, <1>6, <1>7 DEF QInv

LEMMA TimerIntrStep == QInv /\ TimerIntr /\ queue' = queue => QInv'
<1> SUFFICES ASSUME QInv, TimerIntr, queue' = queue PROVE QInv'
  OBVIOUS
<1>1. SchedInv(sched') /\ SameBlocked(sched, sched')
  BY TickRuns, Facts DEF TimerIntr
<1>2. QED
  BY <1>1, SwitchStep, Facts DEF TimerIntr, IntrOn, SameBlocked, Runnable

LEMMA IdleLoopStep == QInv /\ IdleLoop /\ queue' = queue => QInv'
<1> SUFFICES ASSUME QInv, IdleLoop, queue' = queue PROVE QInv'
  OBVIOUS
<1>1. /\ SchedInv(sched') /\ sched.cur = idle_thread
      /\ \A t \in Thread \ {idle_thread, sched.cur} :
           IF Runnable(sched, t) THEN Runnable(sched', t)
           ELSE sched'.status[t] = sched.status[t]
  BY BlockStep, Facts DEF IdleLoop, self
<1>2. pc[self] = "user"
  BY <1>1, Facts DEF CallsInv, self
<1>3. QED
  BY <1>1, <1>2, SwitchStep, Facts DEF IdleLoop, Runnable

LEMMA LockSleepStep == QInv /\ LockSleep /\ queue' = queue => QInv'
<1> SUFFICES ASSUME QInv, LockSleep, queue' = queue PROVE QInv'
  OBVIOUS
<1>1. PICK t \in Thread : t = self
  BY Facts
<1>2. /\ t \in Client /\ pc[t] = "lock" /\ SemaWait(ioq) /\ t # idle_thread
      /\ UNCHANGED << holder, repeat, buf, head, tail, waiter, pc, op, todo >>
  BY <1>1, Facts DEF LockSleep, At, LockWait, lockVars, ringVars, callVars
<1>3. /\ SchedInv(sched') /\ value' = value
      /\ waiters' \in [Sema -> Seq(Thread)]
      /\ IsInjective(waiters'[ioq])
      /\ ToSet(waiters'[ioq]) = ToSet(waiters[ioq]) \cup {t}
      /\ sched'.status[t] = "BLOCKED"
      /\ \A u \in Thread \ {idle_thread, t} :
           IF Runnable(sched, u) THEN Runnable(sched', u)
           ELSE sched'.status[u] = sched.status[u]
  <2>1. IsInjective(waiters[ioq]) /\ self \notin ToSet(waiters[ioq])
    BY Facts DEF LockWaitersInv
  <2>2. QED  BY <1>1, <1>2, <2>1, WaitStep, Facts
<1>4. /\ \A u \in Thread : pc[u] # "test"
      /\ \A u \in Thread \ {t} : pc[u] # "user" =>
           (sched'.status[u] = "BLOCKED" <=> sched.status[u] = "BLOCKED")
  BY <1>1, <1>2, <1>3, Facts DEF CallsInv, Runnable
<1>5. CallsInv' /\ QueueLockInv'
  BY <1>2, <1>3, <1>4, Facts DEF CallsInv, QueueLockInv, HasLock
<1>6. LockWaitersInv'
  BY <1>2, <1>3, <1>4, Facts DEF LockWaitersInv
<1>7. SlotInv'
  <2> SUFFICES ASSUME NEW v \in Thread, NEW o \in Op
               PROVE  waiter[o] = v <=> /\ pc[v] = "woken" /\ op[v] = o
                                        /\ sched'.status[v] = "BLOCKED"
    BY <1>2 DEF SlotInv
  <2>1. waiter[o] = v <=> pc[v] = "woken" /\ op[v] = o /\ sched.status[v] = "BLOCKED"
    BY Facts DEF SlotInv
  <2>2. QED  BY <1>2, <1>4, <2>1
<1>8. (queue = "pipe" => PipeInv)' /\ (queue = "keyboard" => ShellInv)'
  BY <1>2, <1>4 DEF QInv, PipeInv, ShellInv
<1>9. IoQueueTypeOK'
  BY <1>2, <1>3, Facts DEF IoQueueTypeOK, SyncTypeOK, SchedInv
<1>10. QED  BY <1>3, <1>5, <1>6, <1>7, <1>8, <1>9 DEF QInv

(* The thread in ioq_wait has the lock, so both slots are empty.            *)
LEMMA ioq_waitStep == QInv /\ ioq_wait /\ queue' = queue => QInv'
<1> SUFFICES ASSUME QInv, ioq_wait, queue' = queue PROVE QInv'
  OBVIOUS
<1>1. PICK t \in Thread : t = self
  BY Facts
<1>2. /\ t \in Client /\ pc[t] = "wait" /\ HasLock(t) /\ t # idle_thread /\ op[t] \in Op
      /\ UNCHANGED << value, waiters, holder, repeat, buf, head, tail, op, todo >>
  BY <1>1, Facts DEF ioq_wait, At, HasLock, semaVars, lockVars, ringVars
<1>3. \A o \in Op : waiter[o] = NULL
  <2>1. \A u \in Thread \ {t} : pc[u] # "woken"
    BY <1>2, Facts DEF QueueLockInv, HasLock
  <2>2. QED  BY <1>2, <2>1, Facts DEF SlotInv
<1>4. /\ waiter' = [waiter EXCEPT ![op[t]] = t]
      /\ sched' = thread_block(sched, "BLOCKED")
      /\ pc' = [pc EXCEPT ![t] = "woken"]
  BY <1>1, <1>2, <1>3 DEF ioq_wait, Goto
<1>5. /\ SchedInv(sched')
      /\ sched'.status[t] = "BLOCKED"
      /\ \A u \in Thread \ {idle_thread, t} :
           IF Runnable(sched, u) THEN Runnable(sched', u)
           ELSE sched'.status[u] = sched.status[u]
  BY <1>1, <1>2, <1>4, BlockStep, Facts DEF self
<1>6. /\ CallTypes' /\ OthersStay(t) /\ pc'[t] = "woken"
      /\ \A u \in Thread : pc[u] # "test"
      /\ \A u \in Thread \ {t} : pc[u] # "user" =>
           (sched'.status[u] = "BLOCKED" <=> sched.status[u] = "BLOCKED")
  BY <1>1, <1>2, <1>4, <1>5, Facts DEF CallTypes, CallsInv, OthersStay, Runnable, Pc
<1>7. CallsInv'
  BY <1>2, <1>6, Facts DEF CallsInv, OthersStay
<1>8. QueueLockInv'
  BY <1>2, <1>6, LockKept DEF HasLock, lockVars
<1>9. LockWaitersInv'
  BY <1>2, <1>6, Facts DEF LockWaitersInv, OthersStay
<1>10. SlotInv'
  <2> SUFFICES ASSUME NEW v \in Thread, NEW o \in Op
               PROVE  waiter'[o] = v <=> /\ pc'[v] = "woken" /\ op[v] = o
                                         /\ sched'.status[v] = "BLOCKED"
    BY <1>2 DEF SlotInv
  <2>1. ~(pc[v] = "woken" /\ op[v] = o /\ sched.status[v] = "BLOCKED")
    BY <1>3, Facts DEF SlotInv
  <2>2. waiter'[o] = IF o = op[t] THEN t ELSE NULL
    BY <1>3, <1>4, Facts
  <2>3. QED  BY <1>2, <1>5, <1>6, <2>1, <2>2, Facts DEF OthersStay
<1>11. (queue = "pipe" => PipeInv)' /\ (queue = "keyboard" => ShellInv)'
  BY <1>1, <1>2, <1>6, LoopOffer DEF ringVars
<1>12. IoQueueTypeOK'
  BY <1>2, <1>4, <1>5, <1>6, Facts DEF IoQueueTypeOK, SyncTypeOK, SchedInv, CallTypes
<1>13. QED  BY <1>5, <1>7, <1>8, <1>9, <1>10, <1>11, <1>12 DEF QInv

(***************************************************************************)
(* The steps that move a character                                         *)
(***************************************************************************)
(* The sleeper of a slot is made ready and leaves the slot.                 *)
LEMMA WakeupStep ==
  ASSUME QInv, NEW o \in Op, wakeup(o), NEW t \in Thread, t = self,
         CallTypes', OthersStay(t), UNCHANGED << op, waiters >>,
         pc[t] \notin {"lock", "woken"}, pc'[t] \notin {"lock", "woken"}
  PROVE  /\ SchedInv(sched') /\ sched'.cur = sched.cur
         /\ waiter' \in [Op -> Client \cup {NULL}]
         /\ SlotInv' /\ LockWaitersInv'
<1>1. CASE waiter[o] = NULL
  <2>1. UNCHANGED << sched, waiter >>
    BY <1>1 DEF wakeup
  <2>2. SlotInv' /\ LockWaitersInv'
    BY <2>1, Facts DEF SlotInv, LockWaitersInv, OthersStay
  <2>3. QED  BY <2>1, <2>2, Facts
<1>2. CASE waiter[o] # NULL
  <2>1. PICK w \in Thread : w = waiter[o]
    BY <1>2, Facts
  <2>2. /\ sched' = thread_unblock(sched, w) /\ waiter' = [waiter EXCEPT ![o] = NULL]
    BY <1>2, <2>1 DEF wakeup
  <2>3. pc[w] = "woken" /\ op[w] = o /\ sched.status[w] = "BLOCKED"
    BY <2>1, Facts DEF SlotInv
  <2>4. /\ SchedInv(sched') /\ sched'.cur = sched.cur
        /\ sched'.status = [sched.status EXCEPT ![w] = "READY"]
    BY <2>2, <2>3, UnblockRuns, Facts DEF Blocked
  <2>5. /\ sched'.status[w] = "READY"
        /\ \A u \in Thread \ {w} : sched'.status[u] = sched.status[u]
    BY <2>4, Facts
  <2>6. SlotInv'
    <3> SUFFICES ASSUME NEW v \in Thread, NEW p \in Op
                 PROVE  waiter'[p] = v <=> /\ pc'[v] = "woken" /\ op[v] = p
                                           /\ sched'.status[v] = "BLOCKED"
      BY DEF SlotInv
    <3>1. waiter[p] = v <=> pc[v] = "woken" /\ op[v] = p /\ sched.status[v] = "BLOCKED"
      BY Facts DEF SlotInv
    <3>2. v = w => waiter'[p] # v /\ sched'.status[v] # "BLOCKED"
      BY <2>1, <2>2, <2>3, <2>5, <3>1, Facts
    <3>3. v # w => (waiter'[p] = v <=> waiter[p] = v)
      BY <2>1, <2>2, Facts
    <3>4. pc'[v] = "woken" <=> pc[v] = "woken"
      BY DEF OthersStay
    <3>5. QED  BY <2>5, <3>1, <3>2, <3>3, <3>4
  <2>7. LockWaitersInv'
    BY <2>3, <2>5, Facts DEF LockWaitersInv, OthersStay
  <2>8. QED  BY <2>2, <2>4, <2>6, <2>7, Facts
<1>3. QED  BY <1>1, <1>2

LEMMA MoveStep == QInv /\ Move /\ queue' = queue => QInv'
<1> SUFFICES ASSUME QInv, Move, queue' = queue PROVE QInv'
  OBVIOUS
<1>1. PICK t \in Thread : t = self
  BY Facts
<1>2. /\ t \in Client /\ pc[t] = "test" /\ ~CannotServe(op[t]) /\ op[t] \in Op
      /\ todo[t] > 0 /\ todo[t] \in Nat
      /\ wakeup(Other(op[t])) /\ Other(op[t]) \in Op
      /\ todo' = [todo EXCEPT ![t] = @ - 1]
      /\ pc' = [pc EXCEPT ![t] = IF todo[t] = 1 THEN "user" ELSE "test"]
      /\ UNCHANGED << value, waiters, holder, repeat, op >>
  BY <1>1, Facts DEF Move, At, Goto, CallsInv, semaVars, lockVars, Other, Op
<1>3. /\ buf' \in [Pos -> Char] /\ head' \in Pos /\ tail' \in Pos
      /\ Offer(op[t])' = Offer(op[t]) - 1
  <2>1. CASE op[t] = "get"
    <3>1. ~ioq_empty /\ TakeChar
      BY <1>1, <1>2, <2>1 DEF Move, CannotServe
    <3>2. QED  BY <1>2, <2>1, <3>1, TakeRemoves, Facts DEF Offer
  <2>2. CASE op[t] = "put"
    <3>1. PICK ch \in Char : ~ioq_full /\ StoreChar(ch)
      BY <1>1, <1>2, <2>2, IoQueueAssumption DEF Move, CannotServe
    <3>2. /\ buf' \in [Pos -> Char] /\ head' \in Pos /\ tail' \in Pos
          /\ ioq_length' = ioq_length + 1
      BY <3>1, StoreAppends, Facts
    <3>3. ioq_length \in Int /\ bufsize \in Int
      BY Facts, RingLength, IoQueueAssumption
    <3>4. Offer(op[t]) = bufsize - ioq_length /\ Offer(op[t])' = bufsize - ioq_length'
      BY <1>2, <2>2 DEF Offer
    <3>5. QED  BY <3>2, <3>3, <3>4
  <2>3. QED  BY <1>2, <2>1, <2>2 DEF Op
<1>4. /\ CallTypes' /\ OthersStay(t) /\ todo'[t] = todo[t] - 1
      /\ IF todo[t] = 1 THEN pc'[t] = "user" ELSE pc'[t] = "test"
  <2>1. todo' \in [Thread -> Nat] /\ todo'[t] = todo[t] - 1
    BY <1>2, Facts
  <2>2. QED  BY <1>2, <2>1, Facts DEF CallTypes, OthersStay, Pc
<1>5. /\ SchedInv(sched') /\ sched'.cur = sched.cur
      /\ waiter' \in [Op -> Client \cup {NULL}]
      /\ SlotInv' /\ LockWaitersInv'
  BY <1>1, <1>2, <1>4, WakeupStep
<1>6. CallsInv'
  BY <1>1, <1>2, <1>4, <1>5, Facts DEF CallsInv, OthersStay, self
<1>7. QueueLockInv'
  BY <1>2, <1>4, LockKept DEF HasLock, lockVars
<1>8. (queue = "pipe" => PipeInv)' /\ (queue = "keyboard" => ShellInv)'
  <2>1. queue = "pipe" => todo[t] <= Offer(op[t])
    BY <1>2 DEF QInv, PipeInv
  <2>2. queue = "keyboard" => op[t] = "get" /\ t = shell
    BY <1>2 DEF QInv, ShellInv
  <2>3. Offer(op[t]) \in Int
    BY Facts, RingLength, IoQueueAssumption DEF Offer
  <2>4. queue = "pipe" => todo'[t] <= Offer(op[t])'
    BY <1>2, <1>3, <1>4, <2>1, <2>3
  <2>5. QED  BY <1>1, <1>2, <1>4, <2>2, <2>4, OwnOffer
<1>9. IoQueueTypeOK'
  BY <1>2, <1>3, <1>4, <1>5, Facts DEF IoQueueTypeOK, SyncTypeOK, SchedInv, CallTypes
<1>10. QED  BY <1>5, <1>6, <1>7, <1>8, <1>9 DEF QInv

LEMMA PutKeyStep ==
  ASSUME QInv, NEW ch \in Char, PutKey(ch), queue = "keyboard", pc[self] = "user",
         UNCHANGED << semaVars, lockVars, callVars, queue >>
  PROVE  QInv'
<1> USE DEF semaVars, lockVars, ringVars, callVars
<1>1. PICK t \in Thread : t = self
  BY Facts
<1>2. CallTypes' /\ OthersStay(t) /\ \A u \in Thread : pc[u] # "test"
  BY <1>1, Facts DEF CallTypes, OthersStay, CallsInv
<1>3. /\ SchedInv(sched') /\ sched'.cur = sched.cur
      /\ waiter' \in [Op -> Client \cup {NULL}]
      /\ SlotInv' /\ LockWaitersInv'
      /\ buf' \in [Pos -> Char] /\ head' \in Pos /\ tail' \in Pos
  <2>1. CASE ioq_full
    <3>1. UNCHANGED << sched, waiter, ringVars >>
      BY <2>1 DEF PutKey
    <3>2. QED  BY <3>1, Facts DEF SlotInv, LockWaitersInv
  <2>2. CASE ~ioq_full
    <3>1. StoreChar(ch) /\ wakeup("get")
      BY <2>2 DEF PutKey
    <3>2. buf' \in [Pos -> Char] /\ head' \in Pos /\ tail' \in Pos
      BY <2>2, <3>1, StoreAppends, Facts
    <3>3. QED  BY <1>1, <1>2, <3>1, <3>2, WakeupStep DEF Op
  <2>3. QED  BY <2>1, <2>2
<1>4. CallsInv' /\ QueueLockInv'
  BY <1>2, Facts DEF CallsInv, QueueLockInv, HasLock
<1>5. (queue = "pipe" => PipeInv)' /\ (queue = "keyboard" => ShellInv)'
  BY <1>2 DEF QInv, ShellInv
<1>6. IoQueueTypeOK'
  BY <1>2, <1>3, Facts DEF IoQueueTypeOK, SyncTypeOK, SchedInv, CallTypes
<1>7. QED  BY <1>3, <1>4, <1>5, <1>6 DEF QInv

-----------------------------------------------------------------------------
(***************************************************************************)
(* The two uses                                                            *)
(***************************************************************************)
LEMMA WaitStepKeeps == QInv /\ Wait /\ queue' = queue => QInv'
BY TestStep, LockSleepStep, LockGotStep, ioq_waitStep, UnlockStep DEF Wait

LEMMA MinOfTwo ==
  ASSUME NEW a \in Int, NEW b \in Int
  PROVE  Min({a, b}) \in {a, b} /\ Min({a, b}) <= a /\ Min({a, b}) <= b
<1>1. \E x \in {a, b} : \A y \in {a, b} : x <= y
  <2>1. CASE a <= b
    BY <2>1
  <2>2. CASE b <= a
    BY <2>2
  <2>3. QED  BY <2>1, <2>2
<1>2. QED  BY <1>1 DEF Min

LEMMA PipeStep == QInv /\ queue = "pipe" /\ PipeNext /\ queue' = queue => QInv'
<1> SUFFICES ASSUME QInv, queue = "pipe", PipeNext, queue' = queue PROVE QInv'
  OBVIOUS
<1>1. ioq_length \in Nat /\ bufsize \in Nat /\ ioq_length < bufsize /\ MaxCount \in Nat
  BY Facts, RingLength, IoQueueAssumption, PipeAssumption
<1>2. CASE pipe_read
  <2>1. PICK count \in 1 .. MaxCount : Begin("get", Min({ioq_length, count}))
    BY <1>2 DEF pipe_read
  <2>2. PICK n \in Nat : n = Min({ioq_length, count}) /\ n <= ioq_length
    BY <1>1, MinOfTwo
  <2>3. QED  BY <1>2, <2>1, <2>2, BeginStep DEF pipe_read, Offer, Op
<1>3. CASE pipe_write
  <2>1. PICK count \in 1 .. MaxCount : Begin("put", Min({bufsize - ioq_length, count}))
    BY <1>3 DEF pipe_write
  <2>2. PICK n \in Nat : n = Min({bufsize - ioq_length, count}) /\ n <= bufsize - ioq_length
    <3>1. PICK room \in Nat : room = bufsize - ioq_length
      BY <1>1
    <3>2. room \in Int /\ count \in Int /\ count \in Nat
      BY <1>1
    <3>3. Min({room, count}) \in {room, count} /\ Min({room, count}) <= room
      BY <3>2, MinOfTwo
    <3>4. QED  BY <3>1, <3>2, <3>3
  <2>3. QED  BY <1>3, <2>1, <2>2, BeginStep DEF pipe_write, Offer, Op
<1>4. QED
  BY <1>2, <1>3, WaitStepKeeps, MoveStep DEF PipeNext, PipeQueueStep

(* The character that a key puts into the queue is one of Char.             *)
LEMMA KeyIsChar ==
  ASSUME KbdInv, NEW key \in Sendable, CharOf(key, mode) # ""
  PROVE  CharOf(key, mode) \in Char
BY CharAssumption DEF KbdInv, Sendable

LEMMA KeyboardStep ==
  QInv /\ KbdInv /\ queue = "keyboard" /\ KeyboardNext /\ queue' = queue => QInv'
<1> SUFFICES ASSUME QInv, KbdInv, queue = "keyboard", KeyboardNext, queue' = queue PROVE QInv'
  OBVIOUS
<1>1. CASE readline
  BY <1>1, BeginStep DEF readline, Op
<1>2. CASE KeyboardQueueStep
  BY <1>2, WaitStepKeeps, MoveStep DEF KeyboardQueueStep
<1>3. CASE CharKey
  <2>1. PICK key \in Sendable : CharOf(key, mode) # "" /\ PutKey(CharOf(key, mode))
    BY <1>3 DEF CharKey
  <2>2. pc[self] = "user" /\ UNCHANGED << semaVars, lockVars, callVars >>
    BY <1>3 DEF CharKey, IntrOn
  <2>3. QED  BY <2>1, <2>2, KeyIsChar, PutKeyStep
<1>4. CASE ExtPrefix \/ BreakCode \/ PlainKey
  <2>1. /\ UNCHANGED << sched, semaVars, lockVars, ringVars, waiter, callVars, queue >>
        /\ pc[self] = "user"
    BY <1>4 DEF ExtPrefix, BreakCode, PlainKey, IntrOn, vars, semaVars, lockVars, ringVars, callVars
  <2>2. QED  BY <2>1, SwitchStep, Facts
<1>5. QED  BY <1>1, <1>2, <1>3, <1>4 DEF KeyboardNext

LEMMA EditFits ==
  ASSUME NEW l \in Seq(Char), Len(l) <= cmd_len, NEW ch \in Char
  PROVE  Edit(l, ch) \in Seq(Char) /\ Len(Edit(l, ch)) <= cmd_len
<1>1. Len(l) \in Nat /\ cmd_len \in Nat
  BY LenProperties, KeyboardAssumption
<1>2. << >> \in Seq(Char) /\ Len(<< >>) = 0
  BY EmptySeq
<1>3. Append(l, ch) \in Seq(Char) /\ Len(Append(l, ch)) = Len(l) + 1
  BY AppendProperties
<1>4. Backspace(l) \in Seq(Char) /\ Len(Backspace(l)) <= cmd_len
  <2>1. CASE l = << >>
    <3>1. Append(l, "backspace")[1] = "backspace"
      BY <2>1
    <3>2. QED  BY <3>1 DEF Backspace
  <2>2. CASE l # << >>
    <3>1. Front(l) \in Seq(Char) /\ Len(Front(l)) = Len(l) - 1
      <4>1. Len(l) # 0 /\ \A i \in 1 .. Len(l) - 1 : l[i] \in Char
        BY <1>1, <2>2, EmptySeq, LenProperties
      <4>2. PICK n \in Nat : n = Len(l) - 1 /\ \A i \in 1 .. n : l[i] \in Char
        <5>1. Len(l) - 1 \in Nat
          BY <1>1, <4>1
        <5>2. QED  BY <4>1, <5>1
      <4>3. SubSeq(l, 1, n) \in Seq(Char) /\ Len(SubSeq(l, 1, n)) = n
        BY <4>2, SubSeqProperties
      <4>4. QED  BY <4>2, <4>3 DEF Front
    <3>2. QED  BY <1>1, <3>1 DEF Backspace
  <2>3. QED  BY <2>1, <2>2
<1>5. QED  BY <1>1, <1>2, <1>3, <1>4 DEF Edit

LEMMA KeyboardKeeps == QInv /\ KbdInv /\ KeyboardNext => KbdInv'
<1> SUFFICES ASSUME QInv, KbdInv, KeyboardNext PROVE KbdInv'
  OBVIOUS
<1>1. /\ mode \in ModeType /\ held \subseteq Key
      /\ orphan \subseteq DOMAIN Twins /\ misread \in BOOLEAN
      /\ line \in Seq(Char) /\ Len(line) <= cmd_len
      /\ hand \in Char \cup {NULL}
  BY DEF KbdInv
<1>2. CASE readline
  BY <1>1, <1>2, EditFits DEF readline, KbdInv
<1>3. CASE KeyboardQueueStep
  <2>1. buf[tail] \in Char
    BY Facts
  <2>2. QED  BY <1>1, <1>3, <2>1 DEF KeyboardQueueStep, KbdInv, kbdVars
<1>4. CASE ExtPrefix
  BY <1>1, <1>4 DEF ExtPrefix, KbdInv, ModeType
<1>5. CASE BreakCode
  BY <1>1, <1>5 DEF BreakCode, KbdInv, ModeType, Sendable
<1>6. CASE CharKey
  BY <1>1, <1>6 DEF CharKey, KbdInv, ModeType
<1>7. CASE PlainKey
  BY <1>1, <1>7 DEF PlainKey, KbdInv, ModeType, Sendable
<1>8. QED  BY <1>2, <1>3, <1>4, <1>5, <1>6, <1>7 DEF KeyboardNext

LEMMA InitIInv == Init => IInv
<1> SUFFICES ASSUME Init PROVE IInv
  OBVIOUS
<1> DEFINE users == IF queue = "keyboard" THEN {shell} ELSE Reader \cup Writer
<1>1. /\ queue \in {"keyboard", "pipe"} /\ IoQueueInit(users) /\ KeyboardInit
      /\ users \subseteq Client /\ (queue = "keyboard" => users = {shell})
  BY KeyboardAssumption, PipeAssumption DEF Init
<1> HIDE DEF users
<1>2. SchedInv(sched)
  <2>1. PICK first \in users : \E order \in SetToSeqs((users \cup {idle_thread}) \ {first}) :
          sched = [cur    |-> first,
                   status |-> [t \in Thread |-> IF t = first THEN "RUNNING"
                                                ELSE IF t \in Range(order) THEN "READY"
                                                ELSE "BLOCKED"],
                   ready  |-> order,
                   ticks  |-> priority,
                   panic  |-> FALSE]
    BY <1>1 DEF IoQueueInit
  <2> DEFINE S == (users \cup {idle_thread}) \ {first}
  <2>2. /\ first \in Thread /\ first # idle_thread /\ S \in SUBSET Thread
        /\ first \notin S /\ idle_thread \in S \cup {first}
    BY <1>1, IoQueueAssumption, ThreadAssumption
  <2>3. PICK order \in SetToSeqs(S) :
          sched = [cur    |-> first,
                   status |-> [t \in Thread |-> IF t = first THEN "RUNNING"
                                                ELSE IF t \in Range(order) THEN "READY"
                                                ELSE "BLOCKED"],
                   ready  |-> order,
                   ticks  |-> priority,
                   panic  |-> FALSE]
    BY <2>1
  <2>4. Range(order) = S
    <3>1. IsFiniteSet(S)
      BY <2>2, ThreadAssumption, FS_Subset
    <3>2. order \in Seq(S) /\ ToSet(order) = S
      BY <2>3, <3>1, OrderOfAll
    <3>3. QED  BY <3>2, LenProperties DEF Range, ToSet
  <2> HIDE DEF S
  <2>5. sched = [cur |-> first,
                 status |-> [t \in Thread |-> IF t = first THEN "RUNNING"
                                              ELSE IF t \in S THEN "READY" ELSE "BLOCKED"],
                 ready |-> order, ticks |-> priority, panic |-> FALSE]
    BY <2>3, <2>4
  <2>6. QED  BY <2>2, <2>5, StartRuns
<1>3. /\ value = [x \in Sema |-> 1] /\ waiters = [x \in Sema |-> << >>]
      /\ holder = [l \in Lock |-> NULL] /\ repeat = [l \in Lock |-> 0]
      /\ buf \in [Pos -> {CHOOSE ch \in Char : TRUE}] /\ head = 0 /\ tail = 0
      /\ waiter = [o \in Op |-> NULL]
      /\ pc = [t \in Thread |-> "user"] /\ op = [t \in Thread |-> "get"]
      /\ todo = [t \in Thread |-> 0]
  BY <1>1 DEF IoQueueInit
<1>4. ioq \in Sema /\ ioq \in Lock /\ NULL \notin Thread /\ 0 \in Pos
  BY IoQueueAssumption, SyncAssumption DEF Pos
<1>5. IoQueueTypeOK
  <2>1. SyncTypeOK
    BY <1>2, <1>3 DEF SyncTypeOK, SchedInv
  <2>2. buf \in [Pos -> Char]
    BY <1>3, IoQueueAssumption
  <2>3. /\ pc \in [Thread -> Pc] /\ op \in [Thread -> Op] /\ todo \in [Thread -> Nat]
        /\ waiter \in [Op -> Client \cup {NULL}]
    BY <1>3 DEF Pc, Op
  <2>4. QED  BY <1>3, <1>4, <2>1, <2>2, <2>3 DEF IoQueueTypeOK
<1>6. CallsInv /\ QueueLockInv
  BY <1>3, <1>4 DEF CallsInv, QueueLockInv, HasLock
<1>7. LockWaitersInv
  <2>1. ToSet(<< >>) = {} /\ IsInjective(<< >>)
    BY DEF ToSet, IsInjective
  <2>2. waiters[ioq] = << >>
    BY <1>3, <1>4
  <2>3. QED  BY <1>3, <2>1, <2>2 DEF LockWaitersInv
<1>8. SlotInv /\ PipeInv /\ ShellInv
  BY <1>3, <1>4 DEF SlotInv, PipeInv, ShellInv, Op
<1>9. KbdInv
  <2>1. mode \in ModeType /\ line \in Seq(Char) /\ Len(line) <= cmd_len
    BY <1>1, EmptySeq, KeyboardAssumption DEF KeyboardInit, ModeType
  <2>2. held \subseteq Key /\ orphan \subseteq DOMAIN Twins /\ hand = NULL
    BY <1>1 DEF KeyboardInit
  <2>3. misread \in BOOLEAN
    BY <1>1, Zenon DEF KeyboardInit
  <2>4. QED  BY <2>1, <2>2, <2>3 DEF KbdInv
<1>10. QED  BY <1>1, <1>2, <1>5, <1>6, <1>7, <1>8, <1>9 DEF IInv, QInv

LEMMA NextIInv == IInv /\ [Next]_allVars => IInv'
<1> SUFFICES ASSUME QInv, KbdInv, [Next]_allVars PROVE QInv' /\ KbdInv'
  BY DEF IInv
<1>1. CASE queue = "keyboard" /\ KeyboardNext /\ UNCHANGED queue
  BY <1>1, KeyboardStep, KeyboardKeeps
<1>2. CASE UNCHANGED kbdVars
  <2>1. KbdInv'
    BY <1>2 DEF KbdInv, kbdVars
  <2>2. CASE UNCHANGED allVars
    <3>1. /\ UNCHANGED << sched, value, waiters, holder, repeat, queue >>
          /\ UNCHANGED << buf, head, tail, waiter, pc, op, todo >>
      BY <2>2 DEF allVars, vars
    <3>2. CallsInv' /\ QueueLockInv' /\ LockWaitersInv' /\ SlotInv'
      BY <3>1, Facts DEF CallsInv, QueueLockInv, LockWaitersInv, SlotInv, HasLock, self
    <3>3. (queue = "pipe" => PipeInv)' /\ (queue = "keyboard" => ShellInv)'
      BY <3>1 DEF QInv, PipeInv, ShellInv, Offer, ioq_length
    <3>4. IoQueueTypeOK' /\ SchedInv(sched')
      BY <3>1, Facts DEF IoQueueTypeOK, SyncTypeOK, SchedInv
    <3>5. QED  BY <2>1, <3>1, <3>2, <3>3, <3>4 DEF QInv
  <2>3. CASE queue = "pipe" /\ PipeNext /\ UNCHANGED << kbdVars, queue >>
    BY <2>1, <2>3, PipeStep
  <2>4. CASE Tick \/ Idle
    BY <2>1, <2>4, TimerIntrStep, IdleLoopStep DEF Tick, Idle
  <2>5. CASE queue = "keyboard" /\ KeyboardNext /\ UNCHANGED queue
    BY <1>1, <2>5
  <2>6. QED  BY <2>2, <2>3, <2>4, <2>5 DEF Next
<1>3. QED  BY <1>1, <1>2 DEF Next, Tick, Idle, allVars

LEMMA IInvHolds == Spec => []IInv
BY InitIInv, NextIInv, PTL DEF Spec

(* For any number of readers and writers of a pipe, and for the shell at    *)
(* any keys: no slot is overwritten (ioquene.c:29), a sleeper is recorded   *)
(* and holds the lock, a read of a pipe does not sleep, and a write sleeps  *)
(* for one character at most.                                               *)
THEOREM RulesHold == Spec => []QueueRules
<1>1. IInv => QueueRules
  <2> SUFFICES ASSUME QInv, KbdInv PROVE QueueRules
    BY DEF IInv
  <2>1. /\ IoQueueTypeOK /\ queue \in {"keyboard", "pipe"} /\ NoAssertFails
        /\ held \subseteq Key /\ orphan \subseteq DOMAIN Twins /\ misread \in BOOLEAN
        /\ Len(line) <= cmd_len
    BY DEF QInv, KbdInv, SchedInv, NoAssertFails
  <2>2. SleeperIsRecorded
    <3>1. ASSUME NEW t \in Client, pc[t] = "woken"
          PROVE  holder[ioq] = t /\ (sched.status[t] = "BLOCKED" <=> waiter[op[t]] = t)
      BY <3>1, Facts DEF SlotInv, QueueLockInv, HasLock
    <3>2. waiter["get"] = NULL \/ waiter["put"] = NULL
      <4> SUFFICES ASSUME waiter["get"] # NULL, waiter["put"] # NULL PROVE FALSE
        OBVIOUS
      <4>1. PICK g \in Thread, p \in Thread : g = waiter["get"] /\ p = waiter["put"]
        BY Facts DEF Op
      <4>2. pc[g] = "woken" /\ op[g] = "get" /\ pc[p] = "woken" /\ op[p] = "put"
        BY <4>1, Facts DEF SlotInv, Op
      <4>3. g = p
        BY <4>2, Facts DEF QueueLockInv, HasLock
      <4>4. QED  BY <4>2, <4>3
    <3>3. QED  BY <3>1, <3>2 DEF SleeperIsRecorded
  <2>3. ASSUME queue = "pipe" PROVE ReadDoesNotBlock /\ BlockedWriterOwesOne
    <3>1. PipeInv /\ Reader \subseteq Thread /\ Writer \subseteq Thread
      BY <2>3, Facts, PipeAssumption DEF QInv
    <3>2. QED  BY <3>1, Facts DEF PipeInv, ReadDoesNotBlock, BlockedWriterOwesOne, Pc
  <2>4. QED  BY <2>1, <2>2, <2>3 DEF QueueRules
<1>2. QED  BY <1>1, IInvHolds, PTL

-----------------------------------------------------------------------------
(***************************************************************************)
(* The ring buffer is a FIFO of bufsize - 1 characters, in both uses and   *)
(* however the threads on its two sides interleave: a step either leaves   *)
(* it alone, or puts one character at the end, or takes the first.         *)
(***************************************************************************)
LEMMA RingStep ==
  ASSUME QInv, KbdInv, Next
  PROVE  \/ UNCHANGED ringVars
         \/ Fifo!Put
         \/ Fifo!Get
<1>1. ASSUME ~ioq_full, NEW ch \in Char, StoreChar(ch) PROVE Fifo!Put
  BY <1>1, StoreAppends, Facts DEF Fifo!Put
<1>2. ASSUME ~ioq_empty, TakeChar PROVE Fifo!Get
  BY <1>2, TakeRemoves, Facts DEF Fifo!Get
<1>3. ASSUME Move PROVE Fifo!Put \/ Fifo!Get
  BY <1>1, <1>2, <1>3, IoQueueAssumption DEF Move, CannotServe
<1>4. ASSUME CharKey PROVE UNCHANGED ringVars \/ Fifo!Put
  <2>1. PICK key \in Sendable : CharOf(key, mode) # "" /\ PutKey(CharOf(key, mode))
    BY <1>4 DEF CharKey
  <2>2. QED  BY <1>1, <2>1, KeyIsChar DEF PutKey
<1>5. ASSUME Wait PROVE UNCHANGED ringVars
  BY <1>5 DEF Wait, Test, LockSleep, LockGot, ioq_wait, Unlock
<1>6. ASSUME readline \/ pipe_read \/ pipe_write \/ Tick \/ Idle PROVE UNCHANGED ringVars
  BY <1>6 DEF readline, pipe_read, pipe_write, Begin, Tick, Idle, TimerIntr, IdleLoop
<1>7. ASSUME ExtPrefix \/ BreakCode \/ PlainKey PROVE UNCHANGED ringVars
  BY <1>7 DEF ExtPrefix, BreakCode, PlainKey, vars, ringVars
<1>8. QED
  BY <1>3, <1>4, <1>5, <1>6, <1>7
     DEF Next, KeyboardNext, KeyboardQueueStep, PipeNext, PipeQueueStep

(* The ring is a FIFO of bufsize - 1 places: what ioq_getchar takes out is  *)
(* what ioq_putchar put in, in that order, over any wrap of head and tail   *)
(* and whoever sleeps or is woken in between.                               *)
THEOREM QueueImplementsFifo == Spec => FifoRefinement
<1>1. Init => Fifo!Init
  <2> SUFFICES ASSUME Init PROVE Content = << >>
    BY DEF Fifo!Init
  <2>1. head = 0 /\ tail = 0
    BY DEF Init, IoQueueInit
  <2>2. ioq_length = 0
    BY <2>1 DEF ioq_length
  <2>3. QED  BY <2>2 DEF Content
<1>2. IInv /\ [Next]_allVars => [Fifo!Put \/ Fifo!Get]_Content
  <2>1. UNCHANGED ringVars => UNCHANGED Content
    BY DEF ringVars, Content, ioq_length
  <2>2. UNCHANGED allVars => UNCHANGED ringVars
    BY DEF allVars, vars, ringVars
  <2>3. QED  BY <2>1, <2>2, RingStep DEF IInv
<1>3. QED  BY <1>1, <1>2, IInvHolds, PTL DEF Spec, FifoRefinement, Fifo!Spec
-----------------------------------------------------------------------------
(***************************************************************************)
(* The line at the shell.  What is in the line never begins with a         *)
(* backspace, and of the characters that are on their way one at most is   *)
(* in the shell's hand.                                                    *)
(***************************************************************************)
Lines == {l \in Seq(Char \ {"backspace"}) : Len(l) <= cmd_len}

\* The flags say which modifiers are down, but for the orphans: their key is
\* down and their flag is clear.
FlagSays(flag, k) ==
  /\ flag <=> held \cap Twins[k] # {} /\ k \notin orphan
  /\ k \in orphan => held \cap Twins[k] # {}
ModeInv == FlagSays(mode.ctrl, "ctrl") /\ FlagSays(mode.shift, "shift")

ReadInv == pc[shell] # "user" => todo[shell] = 1 /\ hand = NULL

LineInv ==
  /\ ModeInv /\ line \in Lines
  /\ queue = "keyboard" => ReadInv /\ (~misread => Edited(line, Ahead) = meant)

(* The shell's edit of a line is what the character means.                  *)
LEMMA EditMeans ==
  ASSUME NEW l \in Lines, NEW ch \in Char
  PROVE  Edit(l, ch) \in Lines /\ Edit(l, ch) = Means(l, ch)
<1>1. /\ l \in Seq(Char \ {"backspace"}) /\ Len(l) \in Nat /\ Len(l) <= cmd_len
      /\ cmd_len \in Nat /\ cmd_len > 0
  BY LenProperties, KeyboardAssumption DEF Lines
<1>2. << >> \in Lines
  BY EmptySeq, <1>1 DEF Lines
<1>3. CASE Len(l) = cmd_len \/ ch = "enter"
  BY <1>2, <1>3 DEF Edit, Means
<1>4. CASE ~(Len(l) = cmd_len \/ ch = "enter") /\ ch = "backspace"
  <2>1. Edit(l, ch) = Backspace(l) /\ Means(l, ch) = SubSeq(l, 1, Len(l) - 1)
    BY <1>4 DEF Edit, Means
  <2>2. CASE l = << >>
    <3>1. Append(l, "backspace")[1] = "backspace"
      BY <2>2
    <3>2. Backspace(l) = << >>
      BY <2>2, <3>1 DEF Backspace
    <3>3. Len(l) - 1 = -1
      BY <2>2, EmptySeq
    <3>4. SubSeq(l, 1, Len(l) - 1) = << >>
      BY <2>2, <3>3
    <3>5. QED  BY <1>2, <2>1, <3>2, <3>4
  <2>3. CASE l # << >>
    <3>1. Len(l) # 0 /\ \A i \in 1 .. Len(l) : l[i] \in Char \ {"backspace"}
      BY <1>1, <2>3, EmptySeq, LenProperties
    <3>2. Append(l, "backspace")[1] = l[1] /\ l[1] # "backspace"
      BY <1>1, <3>1
    <3>3. Backspace(l) = SubSeq(l, 1, Len(l) - 1)
      BY <3>2 DEF Backspace, Front
    <3>4. PICK n \in Nat : n = Len(l) - 1 /\ \A i \in 1 .. n : l[i] \in Char \ {"backspace"}
      <4>1. Len(l) - 1 \in Nat
        BY <1>1, <3>1
      <4>2. QED  BY <3>1, <4>1
    <3>5. SubSeq(l, 1, n) \in Seq(Char \ {"backspace"}) /\ Len(SubSeq(l, 1, n)) = n
      <4>1. PICK S : S = Char \ {"backspace"}
        OBVIOUS
      <4>2. l \in Seq(S) /\ \A i \in 1 .. n : l[i] \in S
        BY <1>1, <3>4, <4>1
      <4>3. SubSeq(l, 1, n) \in Seq(S) /\ Len(SubSeq(l, 1, n)) = n
        BY <4>2, SubSeqProperties
      <4>4. QED  BY <4>1, <4>3
    <3>6. SubSeq(l, 1, Len(l) - 1) \in Lines
      BY <1>1, <3>4, <3>5 DEF Lines
    <3>7. QED  BY <2>1, <3>3, <3>6
  <2>4. QED  BY <2>2, <2>3
<1>5. CASE ~(Len(l) = cmd_len \/ ch = "enter") /\ ch # "backspace"
  <2>1. /\ Append(l, ch) \in Seq(Char \ {"backspace"}) /\ Len(Append(l, ch)) = Len(l) + 1
    BY <1>1, <1>5, AppendProperties
  <2>2. Append(l, ch) \in Lines
    BY <1>1, <1>5, <2>1 DEF Lines
  <2>3. QED  BY <1>2, <1>5, <2>2 DEF Edit, Means
<1>6. QED  BY <1>3, <1>4, <1>5

(* Induction up to n, on a set of numbers.                                  *)
LEMMA UpTo ==
  ASSUME NEW n \in Nat, NEW T, 0 \in T, \A i \in 1 .. n : i - 1 \in T => i \in T
  PROVE  \A i \in 0 .. n : i \in T
<1> DEFINE bad == {i \in 0 .. n : i \notin T}
<1>1. bad = {}
  <2> SUFFICES ASSUME bad # {} PROVE FALSE
    OBVIOUS
  <2>1. bad \in SUBSET Nat
    OBVIOUS
  <2> HIDE DEF bad
  <2>2. PICK k \in bad : \A i \in bad : ~(<< i, k >> \in OpToRel(<, Nat))
    BY <2>1, NatLessThanWellFounded, WFMin
  <2>3. \A i \in bad : << i, k >> \in Nat \X Nat
    BY <2>1
  <2>4. \A i \in bad : ~(i < k)
    BY <2>2, <2>3 DEF OpToRel
  <2> USE DEF bad
  <2>5. k \in 1 .. n
    OBVIOUS
  <2>6. k - 1 \in 0 .. n /\ k - 1 \notin bad
    BY <2>4, <2>5
  <2>7. k - 1 \in T
    BY <2>6
  <2>8. QED  BY <2>5, <2>7
<1>2. QED  BY <1>1

\* e holds the lines in between when the first n of chars are read.
Reads(e, l, chars, n) == e[0] = l /\ \A i \in 1 .. n : e[i] = Edit(e[i - 1], chars[i])

(* Such lines exist, whatever is read.                                      *)
LEMMA EditsExist ==
  ASSUME NEW l \in Lines, NEW chars \in Seq(Char)
  PROVE  \E e \in [0 .. Len(chars) -> Lines] : Reads(e, l, chars, Len(chars))
<1>0. PICK n \in Nat : n = Len(chars)
  BY LenProperties
<1> DEFINE Good(k, e) == Reads(e, l, chars, k)
           T == {k \in 0 .. n : \E e \in [0 .. k -> Lines] : Good(k, e)}
<1>1. 0 \in T
  <2> DEFINE e == [i \in 0 .. 0 |-> l]
  <2>1. e \in [0 .. 0 -> Lines] /\ Good(0, e)
    BY DEF Reads
  <2> HIDE DEF e, Good
  <2>2. 0 \in 0 .. n
    OBVIOUS
  <2>3. QED  BY <2>1, <2>2
<1>2. ASSUME NEW k \in 1 .. n, k - 1 \in T PROVE k \in T
  <2>1. PICK e \in [0 .. k - 1 -> Lines] : Good(k - 1, e)
    BY <1>2
  <2>2. PICK last \in Lines : last = Edit(e[k - 1], chars[k])
    <3>1. chars[k] \in Char /\ e[k - 1] \in Lines
      BY <1>0, LenProperties
    <3>2. QED  BY <3>1, EditMeans
  <2> DEFINE h == [i \in 0 .. k |-> IF i = k THEN last ELSE e[i]]
  <2>3. h \in [0 .. k -> Lines] /\ h[k] = last /\ \A i \in 0 .. k - 1 : h[i] = e[i]
    OBVIOUS
  <2> HIDE DEF h
  <2>4. ASSUME NEW i \in 1 .. k PROVE h[i] = Edit(h[i - 1], chars[i])
    <3>1. h[i - 1] = e[i - 1]
      BY <2>3
    <3>2. CASE i = k
      BY <2>2, <2>3, <3>1, <3>2
    <3>3. CASE i # k
      <4>1. i \in 1 .. k - 1 /\ h[i] = e[i]
        BY <2>3, <3>3
      <4>2. QED  BY <2>1, <3>1, <4>1 DEF Reads
    <3>4. QED  BY <3>2, <3>3
  <2>5. h[0] = l
    BY <2>1, <2>3 DEF Reads
  <2>6. Good(k, h)
    BY <2>4, <2>5 DEF Reads
  <2>7. k \in 0 .. n
    OBVIOUS
  <2> HIDE DEF Good
  <2>8. QED  BY <2>3, <2>6, <2>7
<1> HIDE DEF T
<1>3. \A i \in 1 .. n : i - 1 \in T => i \in T
  BY <1>2
<1>4. \A i \in 0 .. n : i \in T
  BY <1>1, <1>3, UpTo
<1>5. n \in T
  BY <1>4
<1>6. QED  BY <1>0, <1>5 DEF T

(* Edited is the last of these lines, however they were come by.            *)
LEMMA EditedIs ==
  ASSUME NEW l \in Lines, NEW chars \in Seq(Char), NEW e, Reads(e, l, chars, Len(chars))
  PROVE  Edited(l, chars) = e[Len(chars)]
<1>0. PICK n \in Nat : n = Len(chars)
  BY LenProperties
<1> DEFINE Body(f) == [k \in 0 .. n |-> IF k = 0 THEN l ELSE Edit(f[k - 1], chars[k])]
<1>1. PICK f \in [0 .. n -> Lines] : Reads(f, l, chars, n)
  BY <1>0, EditsExist
<1>2. f = Body(f)
  BY <1>1 DEF Reads
<1> DEFINE g == CHOOSE h : h = Body(h)
<1>3. g = Body(g)
  <2> HIDE DEF Body
  <2>1. QED  BY <1>2
<1>4. Edited(l, chars) = g[n]
  BY <1>0 DEF Edited
<1> HIDE DEF g
<1>5. g[0] = l /\ \A i \in 1 .. n : g[i] = Edit(g[i - 1], chars[i])
  BY <1>3
<1> DEFINE T == {i \in 0 .. n : g[i] = e[i]}
<1>6. 0 \in T
  BY <1>5 DEF Reads
<1>7. \A i \in 1 .. n : i - 1 \in T => i \in T
  BY <1>0, <1>5 DEF Reads
<1> HIDE DEF T
<1>8. \A i \in 0 .. n : i \in T
  BY <1>6, <1>7, UpTo
<1>9. n \in T
  BY <1>8
<1>10. QED  BY <1>0, <1>4, <1>9 DEF T

(* Nothing read, one character more at the end, one at the beginning.       *)
LEMMA EditedNone ==
  ASSUME NEW l \in Lines PROVE Edited(l, << >>) = l
<1> DEFINE e == [i \in 0 .. 0 |-> l]
<1>1. << >> \in Seq(Char) /\ Len(<< >>) = 0
  BY EmptySeq
<1>2. Reads(e, l, << >>, 0) /\ e[0] = l
  BY DEF Reads
<1> HIDE DEF e
<1>3. QED  BY <1>1, <1>2, EditedIs

LEMMA EditedLast ==
  ASSUME NEW l \in Lines, NEW chars \in Seq(Char), NEW ch \in Char
  PROVE  /\ Edited(l, chars) \in Lines
         /\ Edited(l, Append(chars, ch)) = Edit(Edited(l, chars), ch)
<1>1. PICK n \in Nat : n = Len(chars)
  BY LenProperties
<1>2. PICK more \in Seq(Char) : more = Append(chars, ch)
  BY AppendProperties
<1>3. Len(more) = n + 1 /\ more[n + 1] = ch /\ \A i \in 1 .. n : more[i] = chars[i]
  BY <1>1, <1>2, AppendProperties
<1>4. PICK e \in [0 .. Len(more) -> Lines] : Reads(e, l, more, Len(more))
  BY EditsExist
<1>5. Reads(e, l, chars, n)
  BY <1>3, <1>4 DEF Reads
<1>6. Edited(l, chars) = e[n]
  BY <1>1, <1>5, EditedIs
<1>7. Edited(l, more) = e[n + 1]
  BY <1>3, <1>4, EditedIs
<1>8. e[n + 1] = Edit(e[n], ch) /\ e[n] \in Lines
  <2>1. n + 1 \in 1 .. Len(more) /\ n \in 0 .. Len(more) /\ (n + 1) - 1 = n
    BY <1>3
  <2>2. e[n + 1] = Edit(e[(n + 1) - 1], more[n + 1])
    BY <1>4, <2>1 DEF Reads
  <2>3. QED  BY <1>3, <2>1, <2>2
<1>9. QED  BY <1>2, <1>6, <1>7, <1>8

LEMMA EditedFirst ==
  ASSUME NEW l \in Lines, NEW chars \in Seq(Char), NEW ch \in Char, NEW more \in Seq(Char),
         Len(more) = Len(chars) + 1, more[1] = ch,
         \A i \in 1 .. Len(chars) : more[i + 1] = chars[i]
  PROVE  Edited(l, more) = Edited(Edit(l, ch), chars)
<1>1. PICK n \in Nat : n = Len(chars)
  BY LenProperties
<1>2. PICK e \in [0 .. Len(more) -> Lines] : Reads(e, l, more, Len(more))
  BY EditsExist
<1>3. Edited(l, more) = e[n + 1]
  BY <1>1, <1>2, EditedIs
<1> DEFINE g == [i \in 0 .. n |-> e[i + 1]]
<1>4. \A i \in 0 .. n : g[i] = e[i + 1]
  OBVIOUS
<1> HIDE DEF g
<1>5. e[1] = Edit(l, ch)
  <2>1. 1 \in 1 .. Len(more) /\ 1 - 1 = 0
    BY <1>1
  <2>2. e[1] = Edit(e[1 - 1], more[1]) /\ e[0] = l
    BY <1>2, <2>1 DEF Reads
  <2>3. QED  BY <2>1, <2>2
<1>6. ASSUME NEW i \in 1 .. n PROVE g[i] = Edit(g[i - 1], chars[i])
  <2>1. i + 1 \in 1 .. Len(more) /\ (i + 1) - 1 = i /\ (i - 1) + 1 = i
    BY <1>1
  <2>2. e[i + 1] = Edit(e[i], more[i + 1])
    BY <1>2, <2>1 DEF Reads
  <2>3. g[i] = e[i + 1] /\ g[i - 1] = e[i]
    BY <1>4, <2>1
  <2>4. QED  BY <1>1, <2>2, <2>3
<1>7. g[0] = Edit(l, ch)
  <2>1. g[0] = e[0 + 1] /\ 0 + 1 = 1
    BY <1>4
  <2>2. QED  BY <1>5, <2>1
<1>8. Reads(g, Edit(l, ch), chars, n)
  BY <1>6, <1>7 DEF Reads
<1>9. Edited(Edit(l, ch), chars) = g[n]
  BY <1>1, <1>8, EditMeans, EditedIs
<1>10. QED  BY <1>3, <1>4, <1>9

(* The characters on their way are characters; the one in hand is first.    *)
LEMMA AheadFacts ==
  ASSUME QInv, KbdInv
  PROVE  /\ Content \in Seq(Char) /\ Ahead \in Seq(Char)
         /\ hand = NULL => Ahead = Content
         /\ hand # NULL => /\ hand \in Char /\ Len(Ahead) = Len(Content) + 1 /\ Ahead[1] = hand
                           /\ \A i \in 1 .. Len(Content) : Ahead[i + 1] = Content[i]
<1>1. PICK n \in 0 .. bufsize - 1 : n = ioq_length
  BY Facts, RingLength
<1>2. Content \in Seq(Char)
  BY <1>1, Facts, ContentIs DEF Content, ContentOf
<1>3. PICK c \in Seq(Char) : c = Content
  BY <1>2
<1>4. CASE hand = NULL
  <2>1. << >> \o c = c
    BY EmptySeq, ConcatEmptySeq
  <2>2. QED  BY <1>3, <1>4, <2>1 DEF Ahead
<1>5. CASE hand # NULL
  <2>1. hand \in Char
    BY <1>5 DEF KbdInv
  <2>2. << hand >> \in Seq(Char) /\ Len(<< hand >>) = 1 /\ << hand >>[1] = hand /\ Len(c) \in Nat
    BY <2>1, LenProperties
  <2>3. /\ << hand >> \o c \in Seq(Char) /\ Len(<< hand >> \o c) = 1 + Len(c)
        /\ \A i \in 1 .. 1 + Len(c) :
             (<< hand >> \o c)[i] = IF i <= 1 THEN << hand >>[i] ELSE c[i - 1]
    BY <2>2, ConcatProperties
  <2>4. \A i \in 1 .. Len(c) : (<< hand >> \o c)[i + 1] = c[i]
    BY <2>2, <2>3
  <2>5. (<< hand >> \o c)[1] = hand
    BY <2>2, <2>3
  <2>6. Ahead = << hand >> \o c
    BY <1>3, <1>5 DEF Ahead
  <2>7. QED  BY <1>3, <1>5, <2>1, <2>2, <2>3, <2>4, <2>5, <2>6
<1>6. QED  BY <1>4, <1>5

(* What the keyboard thinks is down is down, but for the orphans.           *)
LEMMA ModeKept ==
  ASSUME KbdInv, ModeInv, KeyboardNext PROVE ModeInv'
<1>1. mode \in ModeType /\ held \subseteq Key /\ orphan \subseteq {"ctrl", "shift"}
  BY DEF KbdInv, Twins
<1>2. CASE readline \/ KeyboardQueueStep \/ CharKey \/ ExtPrefix
  <2>1. held' = held /\ orphan' = orphan /\ mode'.ctrl = mode.ctrl /\ mode'.shift = mode.shift
    BY <1>1, <1>2 DEF readline, KeyboardQueueStep, CharKey, ExtPrefix, kbdVars, ModeType
  <2>2. QED  BY <2>1 DEF ModeInv, FlagSays
<1>3. CASE BreakCode
  <2>1. PICK key \in Sendable :
          /\ held' = held \ {key}
          /\ orphan' = {k \in DOMAIN Twins : IF key \in Twins[k] THEN Twins[k] \cap held' # {}
                                             ELSE k \in orphan}
          /\ mode' = [mode EXCEPT !.ext = FALSE,
                        !.ctrl = @ /\ key \notin Twins.ctrl,
                        !.shift = @ /\ key \notin Twins.shift]
    BY <1>3 DEF BreakCode
  <2>2. /\ mode'.ctrl <=> mode.ctrl /\ key \notin Twins.ctrl
        /\ mode'.shift <=> mode.shift /\ key \notin Twins.shift
    BY <1>1, <2>1 DEF ModeType
  <2>3. \A k \in {"ctrl", "shift"} :
          k \in orphan' <=> IF key \in Twins[k] THEN Twins[k] \cap held' # {} ELSE k \in orphan
    BY <2>1 DEF Twins
  <2>4. \A k \in {"ctrl", "shift"} : key \notin Twins[k] => held' \cap Twins[k] = held \cap Twins[k]
    BY <2>1
  <2>5. FlagSays(mode.ctrl, "ctrl")'
    BY <2>2, <2>3, <2>4 DEF ModeInv, FlagSays
  <2>6. FlagSays(mode.shift, "shift")'
    BY <2>2, <2>3, <2>4 DEF ModeInv, FlagSays
  <2>7. QED  BY <2>5, <2>6 DEF ModeInv
<1>4. CASE PlainKey
  <2>1. PICK key \in Sendable :
          /\ held' = IF IsTwin(key) THEN held \cup {key} ELSE held
          /\ orphan' = {k \in orphan : key \notin Twins[k]}
          /\ mode' = [mode EXCEPT !.ext = FALSE,
                        !.ctrl = @ \/ key \in Twins.ctrl,
                        !.shift = @ \/ key \in Twins.shift,
                        !.caps = (@ # (key = "caps_lock"))]
    BY <1>4 DEF PlainKey
  <2>2. /\ mode'.ctrl <=> mode.ctrl \/ key \in Twins.ctrl
        /\ mode'.shift <=> mode.shift \/ key \in Twins.shift
    BY <1>1, <2>1 DEF ModeType
  <2>3. \A k \in {"ctrl", "shift"} :
          IF key \in Twins[k] THEN key \in held' /\ k \notin orphan'
          ELSE held' \cap Twins[k] = held \cap Twins[k] /\ (k \in orphan' <=> k \in orphan)
    BY <2>1 DEF IsTwin, Twins
  <2>4. FlagSays(mode.ctrl, "ctrl")'
    BY <2>2, <2>3 DEF ModeInv, FlagSays
  <2>5. FlagSays(mode.shift, "shift")'
    BY <2>2, <2>3 DEF ModeInv, FlagSays
  <2>6. QED  BY <2>4, <2>5 DEF ModeInv
<1>5. QED  BY <1>2, <1>3, <1>4 DEF KeyboardNext

\* Nothing of the line changes.
LineSame ==
  /\ UNCHANGED << line, hand, meant, misread, queue >> /\ UNCHANGED ringVars
  /\ pc'[shell] # "user" => pc[shell] # "user" /\ todo'[shell] = todo[shell]

LEMMA LineSameKeeps ==
  ASSUME LineInv, LineSame
  PROVE  /\ line' \in Lines
         /\ queue' = "keyboard" => ReadInv' /\ (~misread' => Edited(line, Ahead)' = meant')
<1>1. Ahead' = Ahead
  BY DEF LineSame, Ahead, Content, ioq_length, ringVars
<1>2. Edited(line, Ahead)' = Edited(line, Ahead)
  BY <1>1 DEF LineSame, Edited
<1>3. QED  BY <1>2 DEF LineInv, LineSame, ReadInv

(* The shell edits its line with the character it has read.                 *)
LEMMA readlineKeeps ==
  ASSUME IInv, LineInv, queue = "keyboard", readline
  PROVE  line' \in Lines /\ ReadInv' /\ Edited(line, Ahead)' = Edited(line, Ahead)
<1>0. PICK was : was = Edited(line, Ahead)
  OBVIOUS
<1>1. shell \in Thread /\ self = shell /\ line \in Lines /\ QInv /\ KbdInv
  BY Facts, KeyboardAssumption DEF IInv, LineInv, readline
<1>2. /\ pc' = [pc EXCEPT ![shell] = "test"] /\ todo' = [todo EXCEPT ![shell] = 1]
      /\ UNCHANGED ringVars /\ hand' = NULL
      /\ line' = IF hand = NULL THEN line ELSE Edit(line, hand)
  BY <1>1 DEF readline, Begin, Goto
<1>3. ReadInv'
  BY <1>1, <1>2, Facts DEF ReadInv
<1>4. Content' = Content
  BY <1>2 DEF Content, ioq_length, ringVars
<1>5. PICK c \in Seq(Char) : c = Content
  BY <1>1, AheadFacts
<1>6. Ahead' = c
  <2>1. << >> \o c = c
    BY EmptySeq, ConcatEmptySeq
  <2>2. QED  BY <1>2, <1>4, <1>5, <2>1 DEF Ahead
<1>7. PICK l \in Lines : l = line
  BY <1>1
<1>8. CASE hand = NULL
  <2>1. line' = l /\ Edited(l, c) = was
    BY <1>0, <1>1, <1>2, <1>5, <1>7, <1>8, AheadFacts
  <2>2. Edited(line, Ahead)' = Edited(l, c)
    BY <1>6, <2>1 DEF Edited
  <2>3. QED  BY <1>0, <1>2, <1>3, <1>7, <2>1, <2>2
<1>9. CASE hand # NULL
  <2>1. PICK ch \in Char, more \in Seq(Char) :
          /\ ch = hand /\ more = Ahead /\ Len(more) = Len(c) + 1 /\ more[1] = ch
          /\ \A i \in 1 .. Len(c) : more[i + 1] = c[i]
    BY <1>1, <1>5, <1>9, AheadFacts
  <2>2. Edited(l, more) = Edited(Edit(l, ch), c)
    BY <2>1, EditedFirst
  <2>3. line' = Edit(l, ch) /\ Edit(l, ch) \in Lines
    BY <1>2, <1>7, <1>9, <2>1, EditMeans
  <2>4. Edited(line, Ahead)' = Edited(Edit(l, ch), c)
    BY <1>6, <2>3 DEF Edited
  <2>5. Edited(l, more) = was
    BY <1>0, <1>7, <2>1
  <2>6. QED  BY <1>0, <1>2, <1>3, <2>2, <2>3, <2>4, <2>5
<1>10. QED  BY <1>8, <1>9

(* The first character of the queue goes to the shell's hand.               *)
LEMMA MoveKeeps ==
  ASSUME IInv, LineInv, queue = "keyboard", Move, hand' = buf[tail],
         UNCHANGED line
  PROVE  line' \in Lines /\ ReadInv' /\ Edited(line, Ahead)' = Edited(line, Ahead)
<1>1. /\ shell \in Thread /\ line \in Lines
      /\ QInv /\ KbdInv /\ ShellInv
  BY Facts, KeyboardAssumption DEF IInv, LineInv, QInv
<1>2. pc[self] = "test" /\ self \in Thread
  BY <1>1, Facts DEF Move, At
<1>3. self = shell /\ op[shell] = "get"
  BY <1>1, <1>2 DEF ShellInv
<1>4. todo[shell] = 1 /\ hand = NULL
  BY <1>2, <1>3 DEF LineInv, ReadInv
<1>5. ~ioq_empty /\ TakeChar /\ pc' = [pc EXCEPT ![shell] = "user"]
  BY <1>3, <1>4 DEF Move, CannotServe, Goto
<1>6. ReadInv'
  BY <1>1, <1>5, Facts DEF ReadInv
<1>7. Content # << >> /\ Content' = Tail(Content)
  BY <1>1, <1>5, TakeRemoves, Facts
<1>8. PICK c \in Seq(Char) : c = Content
  BY <1>1, AheadFacts
<1>9. buf[tail] = c[1] /\ buf[tail] \in Char
  <2>1. PICK n \in 0 .. bufsize - 1 : n = ioq_length
    BY <1>1, Facts, RingLength
  <2>2. n # 0 /\ tail \in Pos /\ buf \in [Pos -> Char]
    BY <1>1, <1>5, <2>1, Facts, RingLength
  <2>3. Content = ContentOf(buf, tail, n)
    BY <2>1 DEF Content, ContentOf
  <2>4. 1 \in 1 .. n
    BY <2>2
  <2>5. ContentOf(buf, tail, n)[1] = buf[Slot(tail, 1)]
    BY <2>2, <2>4, ContentIs
  <2>6. Slot(tail, 1) = tail
    BY <2>2, IoQueueAssumption DEF Slot, Pos
  <2>7. QED  BY <1>8, <2>2, <2>3, <2>5, <2>6
<1>10. Ahead' = c
  <2>1. hand' # NULL /\ hand' = c[1]
    BY <1>9, KeyboardAssumption
  <2>2. Ahead' = << c[1] >> \o Tail(c)
    BY <1>7, <1>8, <2>1 DEF Ahead
  <2>3. << c[1] >> \o Tail(c) = c
    <3>1. c # << >>
      BY <1>7, <1>8
    <3>2. c = << Head(c) >> \o Tail(c) /\ Head(c) = c[1]
      BY <3>1, HeadTailProperties
    <3>3. QED  BY <3>2
  <2>4. QED  BY <2>2, <2>3
<1>11. Ahead = c
  BY <1>1, <1>4, <1>8, AheadFacts
<1>12. Edited(line, Ahead)' = Edited(line, Ahead)
  BY <1>10, <1>11 DEF Edited
<1>13. QED  BY <1>1, <1>6, <1>12

(* A key's character joins the queue, and the line that is meant.           *)
LEMMA CharKeyKeeps ==
  ASSUME IInv, LineInv, queue = "keyboard", CharKey
  PROVE  line' \in Lines /\ ReadInv' /\ (~misread' => Edited(line, Ahead)' = meant')
<1>1. /\ shell \in Thread /\ line \in Lines /\ (~misread => Edited(line, Ahead) = meant)
      /\ QInv /\ KbdInv /\ ModeInv
  BY Facts, KeyboardAssumption DEF IInv, LineInv
<1>2. PICK key \in Sendable :
        /\ CharOf(key, mode) # "" /\ PutKey(CharOf(key, mode))
        /\ IF ioq_full
           THEN UNCHANGED << meant, misread >>
           ELSE /\ misread' = (key # "enter" /\ (misread \/ orphan # {}))
                /\ meant' = IF misread' THEN << >> ELSE Means(meant, CharOf(key, Modifiers))
  BY DEF CharKey
<1>3. UNCHANGED << pc, op, todo, line, hand >>
  BY DEF CharKey, callVars
<1>4. ReadInv'
  BY <1>3 DEF ReadInv, LineInv
<1>5. orphan = {} => Modifiers = mode
  BY <1>1 DEF Modifiers, ModeInv, FlagSays, KbdInv, ModeType
<1>6. PICK ch \in Char : ch = CharOf(key, mode)
  BY <1>1, <1>2, KeyIsChar
<1>7. CASE ioq_full
  <2>1. UNCHANGED ringVars /\ meant' = meant /\ misread' = misread
    BY <1>2, <1>7 DEF PutKey
  <2>2. Ahead' = Ahead
    BY <1>3, <2>1 DEF Ahead, Content, ioq_length, ringVars
  <2>3. Edited(line, Ahead)' = Edited(line, Ahead)
    BY <1>3, <2>2 DEF Edited
  <2>4. QED  BY <1>1, <1>3, <1>4, <2>1, <2>3
<1>8. CASE ~ioq_full
  <2>1. StoreChar(ch)
    BY <1>2, <1>6, <1>8 DEF PutKey
  <2>2. Content' = Append(Content, ch)
    BY <1>1, <1>8, <2>1, StoreAppends, Facts
  <2>3. PICK l \in Lines, chars \in Seq(Char) : l = line /\ chars = Ahead
    BY <1>1, AheadFacts
  <2>4. Ahead' = Append(chars, ch)
    <3>1. PICK c \in Seq(Char) : c = Content
      BY <1>1, AheadFacts
    <3>2. << hand >> \in Seq(Char) \/ hand = NULL
      BY <1>1 DEF KbdInv
    <3>3. PICK h : h = IF hand = NULL THEN << >> ELSE << hand >>
      OBVIOUS
    <3>4. h \in Seq(Char)
      BY <3>2, <3>3, EmptySeq
    <3>5. h \o Append(c, ch) = Append(h \o c, ch)
      BY <3>1, <3>4, ConcatProperties, AppendProperties, SeqEqual
    <3>6. Ahead' = h \o Append(c, ch) /\ Ahead = h \o c
      BY <1>3, <2>2, <3>1, <3>3 DEF Ahead
    <3>7. QED  BY <2>3, <3>5, <3>6
  <2>5. Edited(l, chars) \in Lines /\ Edited(l, Append(chars, ch)) = Edit(Edited(l, chars), ch)
    BY <2>3, EditedLast
  <2>6. Edited(line, Ahead)' = Edited(l, Append(chars, ch))
    BY <1>3, <2>3, <2>4 DEF Edited
  <2>7. ASSUME ~misread' PROVE Edited(l, Append(chars, ch)) = meant'
    <3>1. (key = "enter" \/ (~misread /\ orphan = {})) /\ meant' = Means(meant, CharOf(key, Modifiers))
      BY <1>2, <1>8, <2>7
    <3>2. CASE key = "enter"
      <4>1. \A m : CharOf(key, m) = "enter"
        BY <3>2 DEF CharOf, keymap, Byte
      <4>2. ch = "enter" /\ meant' = Means(meant, "enter")
        BY <1>6, <3>1, <4>1
      <4>3. QED  BY <2>5, <4>2 DEF Edit, Means
    <3>3. CASE ~misread /\ orphan = {}
      <4>1. Edited(l, chars) = meant
        BY <1>1, <2>3, <3>3
      <4>2. meant' = Means(meant, ch)
        BY <1>5, <1>6, <3>1, <3>3
      <4>3. QED  BY <2>5, <4>1, <4>2, EditMeans
    <3>4. QED  BY <3>1, <3>2, <3>3
  <2>8. QED  BY <1>1, <1>3, <1>4, <2>6, <2>7
<1>9. QED  BY <1>7, <1>8

(* Every step keeps the line as it is meant.                                *)
LEMMA NextLine ==
  ASSUME IInv, LineInv, [Next]_allVars PROVE LineInv'
<1>1. shell \in Thread /\ QInv /\ KbdInv
  BY Facts, KeyboardAssumption DEF IInv
<1>2. ASSUME ModeInv', LineSame PROVE LineInv'
  BY <1>2, LineSameKeeps DEF LineInv
<1>3. ASSUME UNCHANGED << mode, held, orphan >> PROVE ModeInv'
  BY <1>3 DEF LineInv, ModeInv, FlagSays
<1>4. ASSUME Wait PROVE UNCHANGED ringVars /\ (pc'[shell] # "user" => pc[shell] # "user" /\ todo'[shell] = todo[shell])
  <2>1. UNCHANGED ringVars
    BY <1>4 DEF Wait, Test, LockSleep, LockGot, ioq_wait, Unlock
  <2>2. todo' = todo /\ pc[self] # "user" /\ (pc' = pc \/ \E p : pc' = [pc EXCEPT ![self] = p])
    BY <1>4 DEF Wait, Test, LockSleep, LockGot, ioq_wait, Unlock, At, Goto, callVars
  <2>3. QED  BY <1>1, <2>1, <2>2, Facts
<1>5. CASE queue = "keyboard" /\ KeyboardNext /\ UNCHANGED queue
  <2>1. ModeInv'
    BY <1>1, <1>5, ModeKept DEF LineInv
  <2>2. CASE readline
    <3>1. UNCHANGED << meant, misread >>
      BY <2>2 DEF readline
    <3>2. QED  BY <1>5, <2>1, <2>2, <3>1, readlineKeeps DEF LineInv
  <2>3. CASE CharKey
    BY <1>5, <2>1, <2>3, CharKeyKeeps DEF LineInv
  <2>4. CASE KeyboardQueueStep
    <3>1. CASE Wait /\ UNCHANGED kbdVars
      BY <1>2, <1>4, <1>5, <2>1, <3>1 DEF LineSame, kbdVars
    <3>2. CASE Move /\ hand' = buf[tail] /\ UNCHANGED << mode, line, held, orphan, meant, misread >>
      BY <1>5, <2>1, <3>2, MoveKeeps DEF LineInv
    <3>3. QED  BY <2>4, <3>1, <3>2 DEF KeyboardQueueStep
  <2>5. CASE ExtPrefix \/ BreakCode \/ PlainKey
    <3>1. UNCHANGED << vars, line, hand, meant, misread >>
      BY <2>5 DEF ExtPrefix, BreakCode, PlainKey
    <3>2. QED  BY <1>2, <1>5, <2>1, <3>1 DEF LineSame, vars, ringVars
  <2>6. QED  BY <1>5, <2>2, <2>3, <2>4, <2>5 DEF KeyboardNext
<1>6. CASE queue = "pipe" /\ PipeNext /\ UNCHANGED << kbdVars, queue >>
  BY <1>3, <1>6 DEF LineInv, kbdVars
<1>7. CASE Tick \/ Idle
  BY <1>2, <1>3, <1>7 DEF Tick, Idle, TimerIntr, IdleLoop, LineSame, kbdVars, callVars
<1>8. CASE UNCHANGED allVars
  BY <1>2, <1>3, <1>8 DEF allVars, vars, kbdVars, LineSame, ringVars
<1>9. QED  BY <1>5, <1>6, <1>7, <1>8 DEF Next

(* For any keys, any buffer and any length of the line: what readline has   *)
(* and will have made of the characters is the line that the keys mean,     *)
(* whatever is typed while the shell reads, sleeps or waits for the cpu,    *)
(* but for a line typed with one ctrl or shift key still down after its     *)
(* twin was released.                                                       *)
THEOREM LineIsAsTyped == Spec => []TypedLine
<1>1. Init => LineInv
  <2> SUFFICES ASSUME Init PROVE LineInv
    OBVIOUS
  <2>1. /\ mode = [ctrl |-> FALSE, shift |-> FALSE, caps |-> FALSE, ext |-> FALSE]
        /\ line = << >> /\ hand = NULL /\ held = {} /\ orphan = {} /\ meant = << >>
        /\ head = 0 /\ tail = 0 /\ pc = [t \in Thread |-> "user"]
    BY DEF Init, KeyboardInit, IoQueueInit
  <2>2. << >> \in Lines
    BY EmptySeq, KeyboardAssumption DEF Lines
  <2>3. Content = << >>
    <3>1. ioq_length = 0
      BY <2>1 DEF ioq_length
    <3>2. QED  BY <3>1 DEF Content
  <2>4. Ahead = << >>
    BY <2>1, <2>3 DEF Ahead
  <2>5. Edited(<< >>, << >>) = << >>
    BY <2>2, EditedNone
  <2>6. ReadInv
    BY <2>1, IoQueueAssumption, KeyboardAssumption DEF ReadInv
  <2>7. QED  BY <2>1, <2>2, <2>4, <2>5, <2>6 DEF LineInv, ModeInv, FlagSays
<1>2. IInv /\ LineInv /\ [Next]_allVars => LineInv'
  BY NextLine
<1>3. LineInv => TypedLine
  BY DEF LineInv, TypedLine
<1>4. QED  BY <1>1, <1>2, <1>3, IInvHolds, PTL DEF Spec
===============================================================================
