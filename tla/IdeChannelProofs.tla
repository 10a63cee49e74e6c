--------------------------- MODULE IdeChannelProofs ---------------------------
(***************************************************************************)
(* The disk driver for any number of processes, any boot script, and a     *)
(* drive that has the data of an identify at once (as under Bochs; module  *)
(* IdeChannel names the other drives in PollDelay).                        *)
(***************************************************************************)
EXTENDS IdeChannel, SyncOpsProofs

\* The drive whose interrupt identify_disk does not wait for is a prompt one.
PromptIdentify == "identify" \notin PollDelay

\* Thread t has the channel to itself.
Busy(t) == pc[t] \in {"cmd", "down", "asleep", "poll", "nap", "data", "unlock"}

(***************************************************************************)
(* Who is in the driver: one thread has the channel; nobody but main until *)
(* the boot script is done; and an identify belongs to the script.         *)
(***************************************************************************)
DriverInv ==
  /\ \A t \in Thread : pc[t] # "out" => t \in Client
  /\ \A t, u \in Thread : Busy(t) /\ Busy(u) => t = u
  /\ Booting => \A t \in Thread \ {main} : pc[t] = "out"
  /\ \A t \in Thread : pc[t] # "out" /\ kind[t] = "identify" =>
       Booting /\ pc[t] \in {"cmd", "poll", "data"}

(***************************************************************************)
(* The channel lock is held by the thread that has the channel, except     *)
(* that identify_disk works without it.                                    *)
(***************************************************************************)
HoldsLock(t) == Busy(t) /\ kind[t] # "identify"

ChannelLockInv ==
  /\ value[ch_lock] = 1 =>
       /\ holder[ch_lock] = NULL /\ repeat[ch_lock] = 0
       /\ \A t \in Thread : ~HoldsLock(t)
  /\ value[ch_lock] = 0 => \E t \in Thread : HoldsLock(t)
  /\ \A t \in Thread : HoldsLock(t) => holder[ch_lock] = t /\ repeat[ch_lock] = 1

\* Where a thread sleeps on semaphore x.
SleepsAt(x) == IF x = ch_lock THEN "lock" ELSE "asleep"

WaitersInv ==
  \A x \in {ch_lock, disk_done} :
    /\ IsInjective(waiters[x])
    /\ \A t \in Thread : t \in ToSet(waiters[x])
                           <=> pc[t] = SleepsAt(x) /\ sched.status[t] = "BLOCKED"

(***************************************************************************)
(* The drive as the thread that has the channel knows it.                  *)
(***************************************************************************)
AtRest ==
  /\ drive = "idle" /\ running = NULL
  /\ value[disk_done] = 0 /\ (irq => ~expecting_intr)

\* The interrupt that ends the wait for the disk is still to come.
Pending(t) ==
  /\ expecting_intr /\ value[disk_done] = 0
  /\ IF kind[t] = "read"
     THEN running = t /\ drive \in {"busy", "drq"} /\ (irq <=> drive = "drq")
     ELSE \/ drive = "flush" /\ running = t /\ ~irq
          \/ drive = "idle" /\ running = NULL /\ irq

\* It has come and has been handled.
Completed(t) ==
  /\ ~expecting_intr /\ ~irq
  /\ IF kind[t] = "read" THEN drive = "drq" /\ running = t
                         ELSE drive = "idle" /\ running = NULL

\* The command has no interrupt before its data is transferred.
BeforeData(t) ==
  /\ expecting_intr /\ ~irq /\ value[disk_done] = 0
  /\ running = t /\ drive \in {"busy", "drq"}
  /\ pc[t] = "data" \/ kind[t] = "identify" => drive = "drq"

DriveOf(t) ==
  /\ pc[t] = "cmd" => AtRest
  /\ pc[t] \in {"down", "asleep"} =>
       \/ Pending(t)
       \/ /\ Completed(t) /\ value[disk_done] = 1
          /\ pc[t] = "asleep" => sched.status[t] # "BLOCKED"
  /\ pc[t] \in {"poll", "nap", "data"} =>
       IF kind[t] = "read"
       THEN pc[t] # "nap" /\ Completed(t) /\ value[disk_done] = 0
       ELSE BeforeData(t)
  /\ pc[t] = "unlock" => AtRest /\ ~expecting_intr

DriveInv ==
  /\ (\A t \in Thread : ~Busy(t)) => AtRest
  /\ \A t \in Thread : Busy(t) => DriveOf(t)

IInv ==
  /\ TypeOK
  /\ SchedInv(sched)
  /\ DriverInv
  /\ ChannelLockInv
  /\ WaitersInv
  /\ DriveInv

-----------------------------------------------------------------------------
(* The facts about the current state that every step starts from.           *)
LEMMA Facts ==
  ASSUME IInv
  PROVE  /\ self \in Thread /\ self = sched.cur
         /\ sched.status \in [Thread -> TaskStatus]
         /\ \A t \in Thread : sched.status[t] = "RUNNING" <=> t = self
         /\ value \in [Sema -> {0, 1}] /\ waiters \in [Sema -> Seq(Thread)]
         /\ holder \in [Lock -> Thread \cup {NULL}] /\ repeat \in [Lock -> Nat]
         /\ pc \in [Thread -> Pc] /\ kind \in [Thread -> Kind]
         /\ ticked \in [Thread -> BOOLEAN] /\ script \in Seq(Kind)
         /\ DriverInv /\ ChannelLockInv /\ WaitersInv /\ DriveInv /\ SchedInv(sched)
         /\ ch_lock \in Sema /\ disk_done \in Sema /\ ch_lock # disk_done
         /\ ch_lock \in Lock /\ Lock = {ch_lock} /\ NULL \notin Thread
         /\ Client \subseteq Thread \ {idle_thread}
<1>1. /\ sched \in SchedState
      /\ \A t \in Thread : sched.status[t] = "RUNNING" <=> t = sched.cur
  BY DEF IInv, SchedInv, OneRunning
<1>2. sched.cur \in Thread /\ sched.status \in [Thread -> TaskStatus]
  BY <1>1 DEF SchedState
<1>3. QED
  BY <1>1, <1>2, IdeAssumption, SyncAssumption
     DEF IInv, TypeOK, SyncTypeOK, self, Client

(* A waiters list holds threads.                                            *)
LEMMA WaitersAreThreads ==
  ASSUME IInv, NEW x \in Sema
  PROVE  \A t \in ToSet(waiters[x]) : t \in Thread
<1>1. waiters[x] \in Seq(Thread)
  BY Facts
<1>2. QED  BY <1>1, LenProperties DEF ToSet

LEMMA InitIInv == Init => IInv
<1> SUFFICES ASSUME Init PROVE IInv
  OBVIOUS
<1>0. /\ main \in Thread /\ main # idle_thread /\ ch_lock \in Sema /\ disk_done \in Sema
      /\ ch_lock # disk_done /\ Lock = {ch_lock} /\ Client \subseteq Thread
  BY IdeAssumption DEF Client
<1>1. SchedInv(sched)
  <2> DEFINE S == Thread \ {main}
             st == [t \in Thread |-> IF t = main THEN "RUNNING"
                                     ELSE IF t \in S THEN "READY" ELSE "BLOCKED"]
  <2>1. PICK order \in SetToSeqs(S) :
           sched = [cur |-> main, status |-> st, ready |-> order,
                    ticks |-> priority, panic |-> FALSE]
    <3>1. st = [t \in Thread |-> IF t = main THEN "RUNNING" ELSE "READY"]
      OBVIOUS
    <3>2. QED  BY <3>1 DEF Init
  <2>2. main \notin S /\ S \in SUBSET Thread /\ idle_thread \in S \cup {main}
    BY ThreadAssumption
  <2>3. QED  BY <1>0, <2>1, <2>2, StartRuns
<1>2. /\ value = [x \in Sema |-> IF x = disk_done THEN 0 ELSE 1]
      /\ waiters = [x \in Sema |-> << >>]
      /\ holder = [l \in Lock |-> NULL] /\ repeat = [l \in Lock |-> 0]
      /\ pc = [t \in Thread |-> "out"] /\ kind = [t \in Thread |-> "read"]
      /\ ticked = [t \in Thread |-> FALSE] /\ expecting_intr = FALSE
      /\ script = BootCommands /\ drive = "idle" /\ running = NULL /\ irq = FALSE
  BY DEF Init
<1>3. TypeOK
  <2>1. SyncTypeOK
    BY <1>1, <1>2 DEF SyncTypeOK, SchedInv
  <2>2. /\ pc \in [Thread -> Pc] /\ kind \in [Thread -> Kind]
        /\ ticked \in [Thread -> BOOLEAN] /\ expecting_intr \in BOOLEAN
        /\ drive \in DriveState /\ running \in Client \cup {NULL} /\ irq \in BOOLEAN
    BY <1>2 DEF Pc, Kind, DriveState
  <2>3. script \in Seq(Kind)
    BY <1>2, IdeAssumption DEF Kind
  <2>4. QED  BY <2>1, <2>2, <2>3 DEF TypeOK
<1>4. DriverInv
  BY <1>0, <1>2 DEF DriverInv, Busy
<1>5. ChannelLockInv
  BY <1>0, <1>2 DEF ChannelLockInv, HoldsLock, Busy
<1>6. WaitersInv
  <2>1. ToSet(<< >>) = {} /\ IsInjective(<< >>)
    BY DEF ToSet, IsInjective
  <2>2. waiters[ch_lock] = << >> /\ waiters[disk_done] = << >>
    BY <1>0, <1>2
  <2>3. QED  BY <1>2, <2>1, <2>2 DEF WaitersInv, SleepsAt
<1>7. DriveInv
  BY <1>0, <1>2 DEF DriveInv, Busy, AtRest
<1>8. QED  BY <1>1, <1>3, <1>4, <1>5, <1>6, <1>7 DEF IInv

-----------------------------------------------------------------------------
(* The running thread moves in the driver; nobody is woken or put to sleep. *)
LEMMA WaitersKept ==
  ASSUME IInv, NEW p, pc' = [pc EXCEPT ![self] = p], UNCHANGED << sched, waiters >>
  PROVE  WaitersInv'
<1>1. \A t \in Thread : \/ t = self /\ sched.status[t] = "RUNNING"
                        \/ pc'[t] = pc[t]
  BY Facts
<1>2. QED  BY <1>1, Facts DEF WaitersInv, SleepsAt

(* The thread that has the channel takes its next step and keeps it.        *)
LEMMA BusyMoves ==
  ASSUME IInv, NEW t \in Thread, t = self, Busy(t), NEW p,
         p \in {"cmd", "down", "asleep", "poll", "nap", "data", "unlock"},
         kind[t] = "identify" => p \in {"cmd", "poll", "data"},
         pc' = [pc EXCEPT ![t] = p], kind' = kind, script' = script,
         value'[ch_lock] = value[ch_lock], UNCHANGED << holder, repeat >>,
         DriveOf(t)'
  PROVE  pc' \in [Thread -> Pc] /\ DriverInv' /\ ChannelLockInv' /\ DriveInv'
<1>1. /\ pc' \in [Thread -> Pc] /\ pc'[t] = p
      /\ \A u \in Thread \ {t} : pc'[u] = pc[u]
  BY Facts DEF Pc
<1>2. \A u \in Thread : Busy(u) <=> u = t
  BY Facts DEF DriverInv
<1>3. \A u \in Thread : Busy(u)' <=> u = t
  BY <1>1, <1>2, Facts DEF Busy
<1>4. DriverInv'
  <2>1. pc[t] # "out" /\ t \in Client
    BY Facts DEF DriverInv, Busy
  <2>2. Booting' <=> Booting
    BY DEF Booting
  <2>3. QED  BY <1>1, <1>3, <2>1, <2>2, Facts DEF DriverInv
<1>5. ChannelLockInv'
  BY <1>2, <1>3, Facts DEF ChannelLockInv, HoldsLock
<1>6. DriveInv'
  BY <1>3 DEF DriveInv
<1>7. QED  BY <1>1, <1>4, <1>5, <1>6

(* The drive, or the handler, changes what the thread that has the channel  *)
(* knows of the drive, and no thread moves.                                 *)
LEMMA NobodyMoves ==
  ASSUME IInv, UNCHANGED << pc, kind, script, holder, repeat >>,
         value'[ch_lock] = value[ch_lock]
  PROVE  DriverInv' /\ ChannelLockInv'
<1>1. \A t \in Thread : (Busy(t)' <=> Busy(t)) /\ (HoldsLock(t)' <=> HoldsLock(t))
  BY DEF Busy, HoldsLock
<1>2. Booting' <=> Booting
  BY DEF Booting
<1>3. QED  BY <1>1, <1>2, Facts DEF DriverInv, ChannelLockInv

-----------------------------------------------------------------------------
LEMMA BootCommandStep == IInv /\ BootCommand => IInv'
<1> SUFFICES ASSUME IInv, BootCommand PROVE IInv'
  OBVIOUS
<1> DEFINE k == Head(script)
           p == IF k = "identify" THEN "cmd" ELSE "lock"
<1>1. /\ self = main /\ main \in Thread /\ main \in Client /\ script # << >> /\ k \in Kind
      /\ pc = [t \in Thread |-> "out"]
  <2>1. self = main /\ script # << >> /\ pc[main] = "out"
    BY DEF BootCommand, At, Booting
  <2>2. k \in Kind
    BY <2>1, Facts, HeadTailProperties
  <2>3. \A t \in Thread : pc[t] = "out"
    BY <2>1, Facts DEF DriverInv, Booting
  <2>4. pc = [t \in Thread |-> "out"]
    BY <2>3, Facts
  <2>5. QED  BY <2>1, <2>2, <2>4, IdeAssumption DEF Client
<1>2. /\ kind' = [kind EXCEPT ![main] = k] /\ pc' = [pc EXCEPT ![main] = p]
      /\ UNCHANGED << sched, value, waiters, holder, repeat, ticked, expecting_intr,
                      script, drive, running, irq >>
  BY <1>1 DEF BootCommand, Enter, Goto, semaVars, lockVars, driveVars
<1> HIDE DEF k
<1>3. /\ pc' \in [Thread -> Pc] /\ kind' \in [Thread -> Kind]
      /\ pc'[main] = p /\ kind'[main] = k
      /\ \A t \in Thread \ {main} : pc'[t] = "out"
      /\ \A t \in Thread : ~Busy(t) /\ (Busy(t)' <=> t = main /\ k = "identify")
  BY <1>1, <1>2, Facts DEF Pc, Busy
<1>4. TypeOK'
  BY <1>2, <1>3 DEF IInv, TypeOK, SyncTypeOK
<1>5. DriverInv'
  BY <1>1, <1>2, <1>3 DEF DriverInv, Booting
<1>6. ChannelLockInv'
  BY <1>2, <1>3, Facts DEF ChannelLockInv, HoldsLock
<1>7. WaitersInv'
  BY <1>1, <1>2, WaitersKept
<1>8. DriveInv'
  BY <1>1, <1>2, <1>3, Facts DEF DriveInv, DriveOf, AtRest
<1>9. QED  BY <1>2, <1>4, <1>5, <1>6, <1>7, <1>8, Facts DEF IInv

LEMMA RequestStep == IInv /\ Request => IInv'
<1> SUFFICES ASSUME IInv, Request PROVE IInv'
  OBVIOUS
<1> DEFINE t == self
<1>1. PICK k \in {"read", "write"} : Enter(k)
  BY DEF Request
<1>2. /\ kind' = [kind EXCEPT ![t] = k] /\ pc' = [pc EXCEPT ![t] = "lock"]
      /\ pc[t] = "out" /\ t \in Client /\ ~Booting /\ t \in Thread
      /\ UNCHANGED << sched, value, waiters, holder, repeat, ticked, expecting_intr,
                      script, drive, running, irq >>
  BY <1>1, Facts DEF Request, Enter, Goto, At, semaVars, lockVars, driveVars
<1> HIDE DEF t
<1>3. /\ pc' \in [Thread -> Pc] /\ kind' \in [Thread -> Kind]
      /\ \A u \in Thread : /\ Busy(u)' <=> Busy(u)
                           /\ u # t => pc'[u] = pc[u] /\ kind'[u] = kind[u]
      /\ pc'[t] = "lock" /\ kind'[t] = k /\ ~Busy(t)
  BY <1>2, Facts DEF Pc, Kind, Busy
<1>4. TypeOK'
  BY <1>2, <1>3 DEF IInv, TypeOK, SyncTypeOK
<1>5. DriverInv'
  BY <1>2, <1>3, Facts DEF DriverInv, Booting
<1>6. ChannelLockInv'
  BY <1>2, <1>3, Facts DEF ChannelLockInv, HoldsLock
<1>7. WaitersInv'
  BY <1>2, WaitersKept DEF t
<1>8. DriveInv'
  BY <1>2, <1>3, Facts DEF DriveInv, DriveOf, AtRest, Pending, Completed, BeforeData
<1>9. QED  BY <1>2, <1>4, <1>5, <1>6, <1>7, <1>8, Facts DEF IInv

LEMMA cmd_outStep == PromptIdentify /\ IInv /\ cmd_out => IInv'
<1> SUFFICES ASSUME PromptIdentify, IInv, cmd_out PROVE IInv'
  OBVIOUS
<1>1. PICK t \in Thread : t = self
  BY Facts
<1> DEFINE p == IF kind[t] = "read" THEN "down" ELSE "poll"
<1>2. pc[t] = "cmd" /\ Busy(t) /\ AtRest /\ t \in Client /\ kind[t] \in Kind
  BY <1>1, Facts DEF cmd_out, At, Busy, DriveInv, DriveOf, Client
<1>3. /\ pc' = [pc EXCEPT ![t] = p] /\ expecting_intr' = TRUE
      /\ running' = t /\ irq' = FALSE
      /\ drive' = IF kind[t] \in {"read"} \cup PollDelay THEN "busy" ELSE "drq"
      /\ UNCHANGED << sched, value, waiters, holder, repeat, kind, ticked, script >>
  BY <1>1, <1>2 DEF cmd_out, Goto, AtRest, semaVars, lockVars
<1>4. DriveOf(t)'
  <2>1. pc'[t] = p
    BY <1>3, Facts
  <2>2. QED
    BY <1>2, <1>3, <2>1 DEF DriveOf, Pending, BeforeData, AtRest, PromptIdentify, Kind
<1>5. pc' \in [Thread -> Pc] /\ DriverInv' /\ ChannelLockInv' /\ DriveInv'
  BY <1>1, <1>2, <1>3, <1>4, BusyMoves
<1>6. WaitersInv'
  BY <1>1, <1>3, WaitersKept
<1>7. TypeOK'
  BY <1>2, <1>3, <1>5 DEF IInv, TypeOK, SyncTypeOK, DriveState
<1>8. QED  BY <1>3, <1>5, <1>6, <1>7, Facts DEF IInv

LEMMA DownStep == IInv /\ Down => IInv'
<1> SUFFICES ASSUME IInv, Down PROVE IInv'
  OBVIOUS
<1>1. PICK t \in Thread : t = self
  BY Facts
<1> DEFINE p == IF kind[t] = "read" THEN "poll" ELSE "unlock"
<1>2. /\ pc[t] \in {"down", "asleep"} /\ Busy(t) /\ value[disk_done] = 1
      /\ value' = [value EXCEPT ![disk_done] = 0]
      /\ pc' = [pc EXCEPT ![t] = p]
      /\ UNCHANGED << sched, waiters, holder, repeat, kind, ticked, expecting_intr,
                      script, drive, running, irq >>
  BY <1>1, Facts DEF Down, At, Goto, SemaTake, Busy, lockVars, driveVars
<1>3. Completed(t) /\ kind[t] # "identify"
  BY <1>1, <1>2, Facts DEF DriveInv, DriveOf, Pending, DriverInv
<1>4. DriveOf(t)'
  <2>1. pc'[t] = p /\ value'[disk_done] = 0
    BY <1>2, Facts
  <2>2. QED  BY <1>2, <1>3, <2>1 DEF DriveOf, Completed, AtRest
<1>5. pc' \in [Thread -> Pc] /\ DriverInv' /\ ChannelLockInv' /\ DriveInv'
  BY <1>1, <1>2, <1>3, <1>4, BusyMoves, Facts
<1>6. WaitersInv'
  BY <1>1, <1>2, WaitersKept
<1>7. TypeOK'
  BY <1>2, <1>5 DEF IInv, TypeOK, SyncTypeOK
<1>8. QED  BY <1>2, <1>5, <1>6, <1>7, Facts DEF IInv

LEMMA BusyWaitStep == IInv /\ BusyWait => IInv'
<1> SUFFICES ASSUME IInv, BusyWait PROVE IInv'
  OBVIOUS
<1>1. PICK t \in Thread : t = self
  BY Facts
<1>2. /\ pc[t] = "poll" /\ Busy(t)
      /\ IF kind[t] = "read" THEN Completed(t) /\ value[disk_done] = 0 ELSE BeforeData(t)
  BY <1>1, Facts DEF BusyWait, At, Busy, DriveInv, DriveOf
<1> DEFINE p == IF drive = "busy" THEN "nap" ELSE "data"
<1>3. /\ drive \in {"busy", "drq"} /\ (drive = "busy" => kind[t] = "write")
  BY <1>2, Facts DEF Completed, BeforeData, Kind
<1>4. /\ pc' = [pc EXCEPT ![t] = p] /\ irq' = FALSE
      /\ ticked' \in [Thread -> BOOLEAN]
      /\ UNCHANGED << sched, value, waiters, holder, repeat, kind, expecting_intr,
                      script, drive, running >>
  BY <1>1, <1>3, Facts DEF BusyWait, Goto, semaVars, lockVars
<1>5. DriveOf(t)'
  <2>1. pc'[t] = p
    BY <1>4, Facts
  <2>2. QED  BY <1>2, <1>3, <1>4, <2>1 DEF DriveOf, Completed, BeforeData
<1>6. pc' \in [Thread -> Pc] /\ DriverInv' /\ ChannelLockInv' /\ DriveInv'
  BY <1>1, <1>2, <1>3, <1>4, <1>5, BusyMoves
<1>7. WaitersInv'
  BY <1>1, <1>4, WaitersKept
<1>8. TypeOK'
  BY <1>4, <1>6 DEF IInv, TypeOK, SyncTypeOK
<1>9. QED  BY <1>4, <1>6, <1>7, <1>8, Facts DEF IInv

LEMMA NapOverStep == IInv /\ NapOver => IInv'
<1> SUFFICES ASSUME IInv, NapOver PROVE IInv'
  OBVIOUS
<1>1. PICK t \in Thread : t = self
  BY Facts
<1>2. pc[t] = "nap" /\ Busy(t) /\ kind[t] # "read" /\ BeforeData(t)
  BY <1>1, Facts DEF NapOver, At, Busy, DriveInv, DriveOf
<1>3. /\ pc' = [pc EXCEPT ![t] = "poll"]
      /\ UNCHANGED << sched, value, waiters, holder, repeat, kind, ticked, expecting_intr,
                      script, drive, running, irq >>
  BY <1>1 DEF NapOver, Goto, semaVars, lockVars, driveVars
<1>4. DriveOf(t)'
  <2>1. pc'[t] = "poll"
    BY <1>3, Facts
  <2>2. QED  BY <1>2, <1>3, <2>1 DEF DriveOf, BeforeData
<1>5. pc' \in [Thread -> Pc] /\ DriverInv' /\ ChannelLockInv' /\ DriveInv'
  BY <1>1, <1>2, <1>3, <1>4, BusyMoves
<1>6. WaitersInv'
  BY <1>1, <1>3, WaitersKept
<1>7. TypeOK'
  BY <1>3, <1>5 DEF IInv, TypeOK, SyncTypeOK
<1>8. QED  BY <1>3, <1>5, <1>6, <1>7, Facts DEF IInv

LEMMA TransferStep == IInv /\ Transfer => IInv'
<1> SUFFICES ASSUME IInv, Transfer PROVE IInv'
  OBVIOUS
<1>1. PICK t \in Thread : t = self
  BY Facts
<1>2. /\ pc[t] = "data" /\ Busy(t) /\ kind[t] \in Kind
      /\ IF kind[t] = "read" THEN Completed(t) /\ value[disk_done] = 0 ELSE BeforeData(t)
  BY <1>1, Facts DEF Transfer, At, Busy, DriveInv, DriveOf
<1>3. UNCHANGED << sched, value, waiters, holder, repeat, kind, ticked, expecting_intr >>
  BY DEF Transfer, semaVars, lockVars
<1>4. CASE kind[t] \in {"read", "write"}
  <2> DEFINE p == IF kind[t] = "read" THEN "unlock" ELSE "down"
  <2>1. /\ pc' = [pc EXCEPT ![t] = p] /\ script' = script
        /\ IF kind[t] = "read"
           THEN drive' = "idle" /\ running' = NULL /\ irq' \in BOOLEAN
           ELSE drive' = "flush" /\ running' = running /\ irq' = irq
    BY <1>1, <1>4 DEF Transfer, Goto
  <2>2. DriveOf(t)'
    <3>1. pc'[t] = p
      BY <2>1, Facts
    <3>2. QED
      BY <1>2, <1>3, <1>4, <2>1, <3>1 DEF DriveOf, Completed, BeforeData, AtRest, Pending
  <2>3. pc' \in [Thread -> Pc] /\ DriverInv' /\ ChannelLockInv' /\ DriveInv'
    BY <1>1, <1>2, <1>3, <1>4, <2>1, <2>2, BusyMoves
  <2>4. WaitersInv'
    BY <1>1, <1>3, <2>1, WaitersKept
  <2>5. TypeOK'
    BY <1>3, <2>1, <2>3 DEF IInv, TypeOK, SyncTypeOK, DriveState
  <2>6. QED  BY <1>3, <2>3, <2>4, <2>5, Facts DEF IInv
<1>5. CASE kind[t] = "identify"
  <2>1. /\ pc' = [pc EXCEPT ![t] = "out"] /\ script' = Tail(script)
        /\ drive' = "idle" /\ running' = NULL /\ irq' = irq
    BY <1>1, <1>5 DEF Transfer, Goto
  <2>2. Booting /\ t = main /\ \A u \in Thread : u # t => pc[u] = "out"
    BY <1>2, <1>5, Facts DEF DriverInv
  <2>3. \A u \in Thread : pc'[u] = "out" /\ ~Busy(u)' /\ ~HoldsLock(u)' /\ ~HoldsLock(u)
    BY <1>5, <2>1, <2>2, Facts DEF Busy, HoldsLock
  <2>4. script' \in Seq(Kind)
    BY <2>1, <2>2, Facts, HeadTailProperties DEF Booting
  <2>5. TypeOK'
    BY <1>3, <2>1, <2>4, Facts DEF IInv, TypeOK, SyncTypeOK, DriveState, Pc
  <2>6. DriverInv'
    BY <2>3 DEF DriverInv
  <2>7. ChannelLockInv'
    BY <1>3, <2>3, Facts DEF ChannelLockInv
  <2>8. WaitersInv'
    BY <1>1, <1>3, <2>1, WaitersKept
  <2>9. DriveInv'
    BY <1>2, <1>3, <1>5, <2>1, <2>3 DEF DriveInv, AtRest, BeforeData
  <2>10. QED  BY <1>3, <2>5, <2>6, <2>7, <2>8, <2>9, Facts DEF IInv
<1>6. QED  BY <1>2, <1>4, <1>5 DEF Kind

(* lock_acquire finds the channel free: nobody is in the driver then.       *)
LEMMA AcquireStep == IInv /\ Acquire => IInv'
<1> SUFFICES ASSUME IInv, Acquire PROVE IInv'
  OBVIOUS
<1>1. PICK t \in Thread : t = self
  BY Facts
<1>2. pc[t] = "lock" /\ t \in Client /\ kind[t] # "identify"
  BY <1>1, Facts DEF Acquire, At, DriverInv
<1>3. holder[ch_lock] # t
  <2> SUFFICES ASSUME holder[ch_lock] = t PROVE FALSE
    OBVIOUS
  <2>1. PICK u \in Thread : HoldsLock(u)
    BY Facts DEF ChannelLockInv
  <2>2. u = t
    BY <2>1, Facts DEF ChannelLockInv
  <2>3. QED  BY <1>2, <2>1, <2>2 DEF HoldsLock, Busy
<1>4. /\ value[ch_lock] = 1 /\ value' = [value EXCEPT ![ch_lock] = 0]
      /\ holder' = [holder EXCEPT ![ch_lock] = t]
      /\ repeat' = [repeat EXCEPT ![ch_lock] = 1]
      /\ pc' = [pc EXCEPT ![t] = "cmd"]
      /\ UNCHANGED << sched, waiters, kind, ticked, expecting_intr,
                      script, drive, running, irq >>
  BY <1>1, <1>3, Facts DEF Acquire, Goto, LockTake, LockAgain, SemaTake, driveVars
<1>5. \A u \in Thread : ~Busy(u)
  <2> SUFFICES ASSUME NEW u \in Thread, Busy(u) PROVE FALSE
    OBVIOUS
  <2>1. kind[u] = "identify"
    BY <1>4, Facts DEF ChannelLockInv, HoldsLock
  <2>2. Booting /\ u = main /\ t = main
    BY <1>2, <2>1, Facts DEF DriverInv, Busy
  <2>3. QED  BY <1>2, <2>2 DEF Busy
<1>6. /\ pc' \in [Thread -> Pc]
      /\ \A u \in Thread : /\ Busy(u)' <=> u = t
                           /\ HoldsLock(u)' <=> u = t
                           /\ u # t => pc'[u] = pc[u]
      /\ pc'[t] = "cmd" /\ pc'[t] # "out"
  BY <1>2, <1>4, <1>5, Facts DEF Pc, Busy, HoldsLock
<1>7. TypeOK'
  BY <1>4, <1>6, Facts DEF IInv, TypeOK, SyncTypeOK
<1>8. DriverInv'
  BY <1>2, <1>4, <1>6, Facts DEF DriverInv, Booting
<1>9. ChannelLockInv'
  BY <1>4, <1>6, Facts DEF ChannelLockInv
<1>10. WaitersInv'
  BY <1>1, <1>4, WaitersKept
<1>11. DriveInv'
  BY <1>4, <1>5, <1>6, Facts DEF DriveInv, DriveOf, AtRest
<1>12. QED  BY <1>4, <1>7, <1>8, <1>9, <1>10, <1>11, Facts DEF IInv

LEMMA DriveReadyStep == IInv /\ DriveReady => IInv'
<1> SUFFICES ASSUME IInv, DriveReady PROVE IInv'
  OBVIOUS
<1>1. /\ drive = "busy" /\ drive' = "drq"
      /\ irq' = IF kind[running] = "write" THEN irq ELSE TRUE
      /\ UNCHANGED << sched, value, waiters, holder, repeat, pc, kind, ticked,
                      expecting_intr, script, running >>
  BY DEF DriveReady, semaVars, lockVars, driverVars
<1>2. PICK t \in Thread : Busy(t) /\ DriveOf(t)
  BY <1>1, Facts DEF DriveInv, AtRest
<1>3. DriveOf(t)'
  <2>1. kind[t] \in Kind /\ running = t
    BY <1>1, <1>2, Facts
       DEF Busy, DriveOf, AtRest, Pending, Completed, BeforeData
  <2>2. QED
    BY <1>1, <1>2, <2>1 DEF Kind, Busy, DriveOf, AtRest, Pending, Completed, BeforeData
<1>4. DriveInv'
  <2>1. \A u \in Thread : Busy(u)' <=> u = t
    BY <1>1, <1>2, Facts DEF DriverInv, Busy
  <2>2. QED  BY <1>3, <2>1 DEF DriveInv
<1>5. TypeOK'
  BY <1>1 DEF IInv, TypeOK, SyncTypeOK, DriveState
<1>6. DriverInv' /\ ChannelLockInv' /\ WaitersInv'
  BY <1>1, NobodyMoves, Facts DEF WaitersInv, SleepsAt
<1>7. QED  BY <1>1, <1>4, <1>5, <1>6, Facts DEF IInv

LEMMA DriveWrittenStep == IInv /\ DriveWritten => IInv'
<1> SUFFICES ASSUME IInv, DriveWritten PROVE IInv'
  OBVIOUS
<1>1. /\ drive = "flush" /\ drive' = "idle" /\ running' = NULL /\ irq' = TRUE
      /\ UNCHANGED << sched, value, waiters, holder, repeat, pc, kind, ticked,
                      expecting_intr, script >>
  BY DEF DriveWritten, semaVars, lockVars, driverVars
<1>2. PICK t \in Thread : Busy(t) /\ DriveOf(t)
  BY <1>1, Facts DEF DriveInv, AtRest
<1>3. DriveOf(t)'
  BY <1>1, <1>2 DEF Busy, DriveOf, AtRest, Pending, Completed, BeforeData
<1>4. DriveInv'
  <2>1. \A u \in Thread : Busy(u)' <=> u = t
    BY <1>1, <1>2, Facts DEF DriverInv, Busy
  <2>2. QED  BY <1>3, <2>1 DEF DriveInv
<1>5. TypeOK'
  BY <1>1 DEF IInv, TypeOK, SyncTypeOK, DriveState
<1>6. DriverInv' /\ ChannelLockInv' /\ WaitersInv'
  BY <1>1, NobodyMoves, Facts DEF WaitersInv, SleepsAt
<1>7. QED  BY <1>1, <1>4, <1>5, <1>6, Facts DEF IInv

-----------------------------------------------------------------------------
(* Another thread may get the cpu; those who sleep go on sleeping.          *)
LEMMA SwitchStep ==
  ASSUME IInv, SchedInv(sched'), ticked' \in [Thread -> BOOLEAN],
         UNCHANGED << value, waiters, holder, repeat, pc, kind, expecting_intr,
                      script, drive, running, irq >>,
         \A t \in Thread : pc[t] \in {"lock", "asleep"} =>
           (sched'.status[t] = "BLOCKED" <=> sched.status[t] = "BLOCKED")
  PROVE  IInv'
<1>1. TypeOK'
  BY DEF IInv, TypeOK, SyncTypeOK, SchedInv
<1>2. DriverInv' /\ ChannelLockInv'
  BY NobodyMoves
<1>3. WaitersInv'
  BY Facts DEF WaitersInv, SleepsAt
<1>4. DriveInv'
  <2>1. AtRest' <=> AtRest
    BY DEF AtRest
  <2>2. \A t \in Thread : (Busy(t)' <=> Busy(t)) /\ (DriveOf(t)' <=> DriveOf(t))
    BY <2>1 DEF Busy, DriveOf, Pending, Completed, BeforeData
  <2>3. QED  BY <2>1, <2>2, Facts DEF DriveInv
<1>5. QED  BY <1>1, <1>2, <1>3, <1>4 DEF IInv

(* Who sleeps in the driver is a client, hence not idle.                    *)
LEMMA SleepersAreClients ==
  ASSUME IInv, NEW t \in Thread, pc[t] # "out"
  PROVE  t \in Client /\ t # idle_thread
BY Facts DEF DriverInv

LEMMA NapYieldStep == IInv /\ NapYield => IInv'
<1> SUFFICES ASSUME IInv, NapYield PROVE IInv'
  OBVIOUS
<1>1. /\ sched' = thread_yield(sched)
      /\ UNCHANGED << value, waiters, holder, repeat, pc, kind, ticked, expecting_intr,
                      script, drive, running, irq >>
  BY DEF NapYield, semaVars, lockVars, driverVars, driveVars
<1>2. SchedInv(sched') /\ SameBlocked(sched, sched')
  BY <1>1, YieldRuns, Facts
<1>3. QED
  BY <1>1, <1>2, SwitchStep, SleepersAreClients, Facts DEF SameBlocked, Runnable

LEMMA TimerIntrStep == IInv /\ TimerIntr => IInv'
<1> SUFFICES ASSUME IInv, TimerIntr PROVE IInv'
  OBVIOUS
<1>1. /\ sched' = intr_timer_handler(sched) /\ ticked' = [t \in Thread |-> TRUE]
      /\ UNCHANGED << value, waiters, holder, repeat, pc, kind, expecting_intr,
                      script, drive, running, irq >>
  BY DEF TimerIntr, semaVars, lockVars, driveVars
<1>2. SchedInv(sched') /\ SameBlocked(sched, sched')
  BY <1>1, TickRuns, Facts
<1>3. QED
  BY <1>1, <1>2, SwitchStep, SleepersAreClients, Facts DEF SameBlocked, Runnable

LEMMA IdleLoopStep == IInv /\ IdleLoop => IInv'
<1> SUFFICES ASSUME IInv, IdleLoop PROVE IInv'
  OBVIOUS
<1>1. /\ sched' = thread_block(sched, "BLOCKED") /\ sched.cur = idle_thread
      /\ UNCHANGED << value, waiters, holder, repeat, pc, kind, ticked, expecting_intr,
                      script, drive, running, irq >>
  BY DEF IdleLoop, semaVars, lockVars, driverVars, driveVars, self
<1>2. /\ SchedInv(sched')
      /\ \A t \in Thread \ {idle_thread} :
           IF Runnable(sched, t) THEN Runnable(sched', t)
           ELSE sched'.status[t] = sched.status[t]
  BY <1>1, BlockStep, Facts
<1>3. QED
  BY <1>1, <1>2, SwitchStep, SleepersAreClients, Facts DEF Runnable

(* The effect of going to sleep in sema_down of x on the waiters lists.     *)
LEMMA SleepsInList ==
  ASSUME IInv, NEW x \in {ch_lock, disk_done}, NEW t \in Thread, t = self,
         t \in Client, pc[t] # "out", SemaWait(x),
         pc' = [pc EXCEPT ![t] = SleepsAt(x)]
  PROVE  /\ SchedInv(sched') /\ value[x] = 0 /\ value' = value
         /\ waiters' \in [Sema -> Seq(Thread)]
         /\ WaitersInv'
<1>1. /\ x \in Sema /\ IsInjective(waiters[x]) /\ t \notin ToSet(waiters[x])
      /\ waiters \in [Sema -> Seq(Thread)] /\ SchedInv(sched) /\ t # idle_thread
  BY Facts DEF WaitersInv
<1>2. /\ SchedInv(sched') /\ value[x] = 0 /\ value' = value
      /\ waiters' \in [Sema -> Seq(Thread)]
      /\ waiters' = [waiters EXCEPT ![x] = Append(@, t)]
      /\ IsInjective(waiters'[x])
      /\ ToSet(waiters'[x]) = ToSet(waiters[x]) \cup {t}
      /\ sched'.status[t] = "BLOCKED"
      /\ \A u \in Thread \ {idle_thread, t} :
           IF Runnable(sched, u) THEN Runnable(sched', u)
           ELSE sched'.status[u] = sched.status[u]
  BY <1>1, WaitStep
<1>3. /\ pc'[t] = SleepsAt(x) /\ \A u \in Thread \ {t} : pc'[u] = pc[u]
  BY Facts
<1>4. ASSUME NEW y \in {ch_lock, disk_done}
      PROVE  /\ IsInjective(waiters'[y])
             /\ \A u \in Thread : u \in ToSet(waiters'[y])
                  <=> pc'[u] = SleepsAt(y) /\ sched'.status[u] = "BLOCKED"
  <2>1. /\ IsInjective(waiters[y])
        /\ \A u \in Thread : u \in ToSet(waiters[y])
             <=> pc[u] = SleepsAt(y) /\ sched.status[u] = "BLOCKED"
    BY Facts DEF WaitersInv
  <2>2. \A u \in Thread \ {t} : pc[u] = SleepsAt(y) =>
          (sched'.status[u] = "BLOCKED" <=> sched.status[u] = "BLOCKED")
    BY <1>2, SleepersAreClients DEF Runnable, SleepsAt
  <2>3. y # x => waiters'[y] = waiters[y] /\ SleepsAt(y) # SleepsAt(x)
    BY <1>2, Facts DEF SleepsAt
  <2>4. sched.status[t] # "BLOCKED"
    BY Facts
  <2>5. CASE y = x
    BY <1>2, <1>3, <2>1, <2>2, <2>4, <2>5
  <2>6. CASE y # x
    BY <1>2, <1>3, <2>1, <2>2, <2>3, <2>4, <2>6
  <2>7. QED  BY <2>5, <2>6
<1>5. WaitersInv'
  BY <1>4 DEF WaitersInv, SleepsAt
<1>6. QED  BY <1>2, <1>5

LEMMA AcquireWaitStep == IInv /\ AcquireWait => IInv'
<1> SUFFICES ASSUME IInv, AcquireWait PROVE IInv'
  OBVIOUS
<1>1. PICK t \in Thread : t = self
  BY Facts
<1>2. /\ pc[t] = "lock" /\ t \in Client /\ SemaWait(ch_lock)
      /\ pc' = [pc EXCEPT ![t] = SleepsAt(ch_lock)]
      /\ UNCHANGED << holder, repeat, pc, kind, ticked, expecting_intr,
                      script, drive, running, irq >>
  BY <1>1, Facts DEF AcquireWait, At, LockWait, lockVars, driverVars, driveVars, SleepsAt
<1>3. /\ SchedInv(sched') /\ value' = value /\ waiters' \in [Sema -> Seq(Thread)]
      /\ WaitersInv'
  BY <1>1, <1>2, SleepsInList
<1>4. TypeOK'
  BY <1>2, <1>3 DEF IInv, TypeOK, SyncTypeOK, SchedInv
<1>5. DriverInv' /\ ChannelLockInv'
  BY <1>2, <1>3, NobodyMoves
<1>6. DriveInv'
  <2>1. \A u \in Thread : Busy(u) => u # t
    BY <1>2 DEF Busy
  <2>2. \A u \in Thread : Busy(u) /\ DriveOf(u) => DriveOf(u)'
    <3> SUFFICES ASSUME NEW u \in Thread, Busy(u), DriveOf(u) PROVE DriveOf(u)'
      OBVIOUS
    <3>1. pc[u] = "asleep" /\ sched'.status[u] = "BLOCKED" => sched.status[u] = "BLOCKED"
      <4>1. waiters'[disk_done] = waiters[disk_done]
        BY <1>2, Facts DEF SemaWait, SemaPanic, semaVars
      <4>2. QED  BY <1>2, <1>3, <4>1, Facts DEF WaitersInv, SleepsAt
    <3>2. QED
      BY <1>2, <1>3, <3>1 DEF DriveOf, AtRest, Pending, Completed, BeforeData
  <2>3. QED
    BY <1>2, <1>3, <2>2, Facts DEF DriveInv, Busy, AtRest
<1>7. QED  BY <1>3, <1>4, <1>5, <1>6 DEF IInv

LEMMA DownWaitStep == IInv /\ DownWait => IInv'
<1> SUFFICES ASSUME IInv, DownWait PROVE IInv'
  OBVIOUS
<1>1. PICK t \in Thread : t = self
  BY Facts
<1>2. /\ pc[t] \in {"down", "asleep"} /\ Busy(t) /\ t \in Client /\ SemaWait(disk_done)
      /\ pc' = [pc EXCEPT ![t] = "asleep"]
      /\ UNCHANGED << holder, repeat, kind, ticked, expecting_intr,
                      script, drive, running, irq >>
  BY <1>1 DEF DownWait, At, Goto, Busy, lockVars, driveVars
<1>3. /\ SchedInv(sched') /\ value[disk_done] = 0 /\ value' = value
      /\ waiters' \in [Sema -> Seq(Thread)] /\ WaitersInv'
  BY <1>1, <1>2, SleepsInList, Facts DEF SleepsAt
<1>4. Pending(t) /\ kind[t] # "identify"
  <2>1. kind[t] # "identify"
    BY <1>2, Facts DEF DriverInv
  <2>2. DriveOf(t)
    BY <1>2, Facts DEF DriveInv
  <2>3. QED  BY <1>2, <1>3, <2>1, <2>2 DEF DriveOf
<1>5. DriveOf(t)'
  <2>1. pc'[t] = "asleep"
    BY <1>2, Facts
  <2>2. QED  BY <1>2, <1>3, <1>4, <2>1 DEF DriveOf, Pending
<1>6. pc' \in [Thread -> Pc] /\ DriverInv' /\ ChannelLockInv' /\ DriveInv'
  BY <1>1, <1>2, <1>3, <1>4, <1>5, BusyMoves
<1>7. TypeOK'
  BY <1>2, <1>3, <1>6 DEF IInv, TypeOK, SyncTypeOK, SchedInv
<1>8. QED  BY <1>3, <1>6, <1>7 DEF IInv

(* The effect of sema_up on the waiters lists: who leaves one is awake.     *)
LEMMA WakesInList ==
  ASSUME IInv, NEW x \in {ch_lock, disk_done}, value[x] = 0, sema_up(x),
         NEW t \in Thread, t = self,
         \A u \in Thread \ {t} : pc'[u] = pc[u]
  PROVE  /\ SchedInv(sched') /\ sched'.cur = sched.cur
         /\ value' = [value EXCEPT ![x] = 1]
         /\ waiters' \in [Sema -> Seq(Thread)]
         /\ WaitersInv'
         /\ \A u \in Thread : /\ sched'.status[u] = "BLOCKED" => sched.status[u] = "BLOCKED"
                              /\ pc[u] # SleepsAt(x) => sched'.status[u] = sched.status[u]
         /\ \A u \in Thread : u \in ToSet(waiters[x]) /\ ToSet(waiters[x]) \subseteq {u}
                              => sched'.status[u] # "BLOCKED"
<1>1. /\ x \in Sema /\ IsInjective(waiters[x])
      /\ \A u \in ToSet(waiters[x]) : sched.status[u] \in Blocked
      /\ waiters \in [Sema -> Seq(Thread)] /\ SchedInv(sched)
      /\ sched.status \in [Thread -> TaskStatus]
  BY Facts, WaitersAreThreads DEF WaitersInv, Blocked
<1>2. /\ SchedInv(sched') /\ sched'.cur = sched.cur
      /\ value' = [value EXCEPT ![x] = 1]
      /\ waiters' \in [Sema -> Seq(Thread)]
      /\ \/ waiters[x] = << >> /\ waiters' = waiters /\ sched' = sched
         \/ \E u \in ToSet(waiters[x]) :
              /\ u \in Thread
              /\ waiters' = [waiters EXCEPT ![x] = Tail(@)]
              /\ IsInjective(waiters'[x])
              /\ ToSet(waiters'[x]) = ToSet(waiters[x]) \ {u}
              /\ sched'.status = [sched.status EXCEPT ![u] = "READY"]
  BY <1>1, UpStep
<1>3. CASE waiters[x] = << >> /\ waiters' = waiters /\ sched' = sched
  <2>1. ToSet(waiters[x]) = {}
    BY <1>3, EmptySeq DEF ToSet
  <2>2. \A u \in Thread : (u = t /\ sched.status[u] = "RUNNING") \/ pc'[u] = pc[u]
    BY Facts
  <2>3. WaitersInv'
    BY <1>3, <2>2, Facts DEF WaitersInv, SleepsAt
  <2>4. QED  BY <1>2, <1>3, <2>1, <2>3
<1>4. CASE \E u \in ToSet(waiters[x]) :
              /\ u \in Thread
              /\ waiters' = [waiters EXCEPT ![x] = Tail(@)]
              /\ IsInjective(waiters'[x])
              /\ ToSet(waiters'[x]) = ToSet(waiters[x]) \ {u}
              /\ sched'.status = [sched.status EXCEPT ![u] = "READY"]
  <2>1. PICK w \in Thread :
              /\ w \in ToSet(waiters[x])
              /\ waiters' = [waiters EXCEPT ![x] = Tail(@)]
              /\ IsInjective(waiters'[x])
              /\ ToSet(waiters'[x]) = ToSet(waiters[x]) \ {w}
              /\ sched'.status = [sched.status EXCEPT ![w] = "READY"]
    BY <1>4
  <2>2. /\ sched'.status[w] = "READY" /\ sched.status[w] = "BLOCKED" /\ pc[w] = SleepsAt(x)
        /\ \A u \in Thread \ {w} : sched'.status[u] = sched.status[u]
        /\ w # t
    BY <1>1, <2>1, Facts DEF WaitersInv
  <2>3. ASSUME NEW y \in {ch_lock, disk_done}
        PROVE  /\ IsInjective(waiters'[y])
               /\ \A u \in Thread : u \in ToSet(waiters'[y])
                    <=> pc'[u] = SleepsAt(y) /\ sched'.status[u] = "BLOCKED"
    <3>1. /\ IsInjective(waiters[y])
          /\ \A u \in Thread : u \in ToSet(waiters[y])
               <=> pc[u] = SleepsAt(y) /\ sched.status[u] = "BLOCKED"
      BY Facts DEF WaitersInv
    <3>2. y # x => waiters'[y] = waiters[y] /\ SleepsAt(y) # SleepsAt(x)
      BY <2>1, Facts DEF SleepsAt
    <3>3. sched.status[t] # "BLOCKED" /\ sched'.status[t] # "BLOCKED"
      BY <2>2, Facts
    <3>4. CASE y = x
      BY <2>1, <2>2, <3>1, <3>3, <3>4
    <3>5. CASE y # x
      BY <2>2, <3>1, <3>2, <3>3, <3>5
    <3>6. QED  BY <3>4, <3>5
  <2>4. WaitersInv'
    BY <2>3 DEF WaitersInv, SleepsAt
  <2>5. QED  BY <1>2, <2>1, <2>2, <2>4
<1>5. QED  BY <1>2, <1>3, <1>4

LEMMA ReleaseStep == IInv /\ Release => IInv'
<1> SUFFICES ASSUME IInv, Release PROVE IInv'
  OBVIOUS
<1>1. PICK t \in Thread : t = self
  BY Facts
<1>2. /\ pc[t] = "unlock" /\ Busy(t) /\ HoldsLock(t) /\ AtRest /\ t \in Client
  BY <1>1, Facts DEF Release, At, Busy, HoldsLock, DriveInv, DriveOf, DriverInv
<1>3. /\ holder[ch_lock] = t /\ repeat[ch_lock] = 1 /\ value[ch_lock] = 0
  BY <1>2, Facts DEF ChannelLockInv
<1>4. /\ holder' = [holder EXCEPT ![ch_lock] = NULL]
      /\ repeat' = [repeat EXCEPT ![ch_lock] = 0]
      /\ sema_up(ch_lock) /\ pc' = [pc EXCEPT ![t] = "out"]
      /\ script' = IF t = main /\ Booting THEN Tail(script) ELSE script
      /\ UNCHANGED << kind, ticked, expecting_intr, drive, running, irq >>
  BY <1>1, <1>3 DEF Release, lock_release, Goto, driveVars
<1>5. /\ pc' \in [Thread -> Pc] /\ pc'[t] = "out"
      /\ \A u \in Thread \ {t} : pc'[u] = pc[u]
      /\ \A u \in Thread : ~Busy(u)'
  BY <1>2, <1>4, Facts DEF Pc, DriverInv, Busy
<1>6. /\ SchedInv(sched') /\ sched'.cur = sched.cur
      /\ value' = [value EXCEPT ![ch_lock] = 1]
      /\ waiters' \in [Sema -> Seq(Thread)] /\ WaitersInv'
  BY <1>1, <1>3, <1>4, <1>5, WakesInList
<1>7. script' \in Seq(Kind) /\ (Booting' => Booting)
  BY <1>4, Facts, HeadTailProperties DEF Booting
<1>8. TypeOK'
  BY <1>4, <1>5, <1>6, <1>7, Facts DEF IInv, TypeOK, SyncTypeOK, SchedInv
<1>9. DriverInv'
  <2>1. \A u \in Thread : pc'[u] # "out" => kind'[u] # "identify"
    BY <1>2, <1>4, <1>5, Facts DEF DriverInv, HoldsLock, Busy
  <2>2. QED  BY <1>5, <1>7, <2>1, Facts DEF DriverInv
<1>10. ChannelLockInv'
  BY <1>4, <1>5, <1>6, Facts DEF ChannelLockInv, HoldsLock
<1>11. DriveInv'
  BY <1>2, <1>4, <1>5, <1>6, Facts DEF DriveInv, AtRest
<1>12. QED  BY <1>6, <1>8, <1>9, <1>10, <1>11 DEF IInv

LEMMA HandlerStep == IInv /\ intr_hd_handler => IInv'
<1> SUFFICES ASSUME IInv, intr_hd_handler PROVE IInv'
  OBVIOUS
<1>1. PICK t \in Thread : t = self
  BY Facts
<1>2. /\ irq = TRUE /\ irq' = FALSE
      /\ UNCHANGED << holder, repeat, pc, kind, ticked, script, drive, running >>
  BY Facts DEF intr_hd_handler, lockVars, IInv, TypeOK
<1>3. CASE ~expecting_intr /\ UNCHANGED << expecting_intr, sched, semaVars >>
  <2>1. TypeOK' /\ SchedInv(sched')
    BY <1>2, <1>3, Facts DEF IInv, TypeOK, SyncTypeOK, SchedInv, semaVars
  <2>2. DriverInv' /\ ChannelLockInv' /\ WaitersInv'
    BY <1>2, <1>3, Facts DEF DriverInv, ChannelLockInv, WaitersInv, HoldsLock, Busy, Booting,
                             SleepsAt, semaVars
  <2>3. DriveInv'
    <3>1. AtRest => AtRest'
      BY <1>2, <1>3 DEF AtRest, semaVars
    <3>2. ASSUME NEW u \in Thread, Busy(u) PROVE DriveOf(u)'
      <4>1. DriveOf(u) /\ ~Pending(u) /\ ~Completed(u) /\ ~BeforeData(u)
        BY <1>2, <1>3, <3>2, Facts DEF DriveInv, Pending, Completed, BeforeData
      <4>2. pc[u] \in {"cmd", "unlock"}
        BY <3>2, <4>1 DEF DriveOf, Busy
      <4>3. pc'[u] \in {"cmd", "unlock"} /\ AtRest' /\ ~expecting_intr'
        BY <1>2, <1>3, <3>1, <4>1, <4>2 DEF DriveOf
      <4>4. QED  BY <4>3 DEF DriveOf
    <3>3. \A u \in Thread : Busy(u)' <=> Busy(u)
      BY <1>2 DEF Busy
    <3>4. QED  BY <3>1, <3>2, <3>3, Facts DEF DriveInv
  <2>4. QED  BY <2>1, <2>2, <2>3 DEF IInv
<1>4. CASE expecting_intr /\ expecting_intr' = FALSE /\ sema_up(disk_done)
  <2>1. PICK b \in Thread : Busy(b)
    BY <1>2, <1>4, Facts DEF DriveInv, AtRest
  <2>2. DriveOf(b) /\ ~AtRest /\ ~Completed(b) /\ ~BeforeData(b)
    BY <1>2, <1>4, <2>1, Facts DEF DriveInv, AtRest, Completed, BeforeData
  <2>3. pc[b] \in {"down", "asleep"} /\ Pending(b)
    BY <1>4, <2>1, <2>2 DEF DriveOf, Busy
  <2>4. value[disk_done] = 0
    BY <2>3 DEF Pending
  <2>5. /\ SchedInv(sched') /\ sched'.cur = sched.cur
        /\ value' = [value EXCEPT ![disk_done] = 1]
        /\ waiters' \in [Sema -> Seq(Thread)] /\ WaitersInv'
        /\ \A u \in Thread : sched'.status[u] = "BLOCKED" => sched.status[u] = "BLOCKED"
        /\ \A u \in Thread :
             u \in ToSet(waiters[disk_done]) /\ ToSet(waiters[disk_done]) \subseteq {u}
               => sched'.status[u] # "BLOCKED"
    BY <1>1, <1>2, <1>4, <2>4, WakesInList
  <2>6. pc[b] = "asleep" => sched'.status[b] # "BLOCKED"
    <3> SUFFICES ASSUME pc[b] = "asleep", sched.status[b] = "BLOCKED"
                 PROVE sched'.status[b] # "BLOCKED"
      BY <2>5
    <3>1. b \in ToSet(waiters[disk_done])
      BY Facts DEF WaitersInv, SleepsAt
    <3>2. \A u \in ToSet(waiters[disk_done]) : u \in Thread /\ Busy(u)
      BY WaitersAreThreads, Facts DEF WaitersInv, SleepsAt, Busy
    <3>3. ToSet(waiters[disk_done]) \subseteq {b}
      BY <2>1, <3>2, Facts DEF DriverInv
    <3>4. QED  BY <2>5, <3>1, <3>3
  <2>7. DriveOf(b)'
    <3>1. Completed(b)' /\ value'[disk_done] = 1
      BY <1>2, <1>4, <2>3, <2>5, Facts DEF Pending, Completed
    <3>2. pc'[b] \in {"down", "asleep"}
      BY <1>2, <2>3
    <3>3. pc'[b] = "asleep" => sched'.status[b] # "BLOCKED"
      BY <1>2, <2>6
    <3>4. QED  BY <3>1, <3>2, <3>3 DEF DriveOf
  <2>8. DriveInv'
    BY <1>2, <2>1, <2>7, Facts DEF DriveInv, DriverInv, Busy
  <2>9. DriverInv' /\ ChannelLockInv'
    <3>1. value'[ch_lock] = value[ch_lock]
      BY <2>5, Facts
    <3>2. QED
      BY <1>2, <3>1, Facts DEF DriverInv, ChannelLockInv, HoldsLock, Busy, Booting
  <2>10. TypeOK'
    BY <1>2, <1>4, <2>5, Facts DEF IInv, TypeOK, SyncTypeOK, SchedInv
  <2>11. QED  BY <2>5, <2>8, <2>9, <2>10 DEF IInv
<1>5. QED  BY <1>3, <1>4 DEF intr_hd_handler

LEMMA NextIInv == PromptIdentify /\ IInv /\ [Next]_vars => IInv'
<1> SUFFICES ASSUME PromptIdentify, IInv, [Next]_vars PROVE IInv'
  OBVIOUS
<1>1. CASE DriverStep
  BY <1>1, BootCommandStep, AcquireWaitStep, AcquireStep, cmd_outStep, DownWaitStep, DownStep,
     BusyWaitStep, NapYieldStep, NapOverStep, TransferStep, ReleaseStep DEF DriverStep
<1>2. CASE Next /\ ~DriverStep
  BY <1>2, RequestStep, DriveReadyStep, DriveWrittenStep, HandlerStep, TimerIntrStep,
     IdleLoopStep DEF Next
<1>3. CASE UNCHANGED vars
  <2>1. /\ UNCHANGED << sched, value, waiters, holder, repeat, pc, kind, ticked, expecting_intr >>
        /\ UNCHANGED << script, drive, running, irq >>
    BY <1>3 DEF vars
  <2>2. TypeOK' /\ SchedInv(sched')
    BY <2>1, Facts DEF IInv, TypeOK, SyncTypeOK, SchedInv
  <2>3. DriverInv' /\ ChannelLockInv' /\ WaitersInv'
    BY <2>1, Facts DEF DriverInv, ChannelLockInv, WaitersInv, HoldsLock, Busy, Booting, SleepsAt
  <2>4. DriveInv'
    BY <2>1, Facts DEF DriveInv, DriveOf, Busy, AtRest, Pending, Completed, BeforeData
  <2>5. QED  BY <2>2, <2>3, <2>4 DEF IInv
<1>4. QED  BY <1>1, <1>2, <1>3

LEMMA IInvHolds ==
  ASSUME PromptIdentify PROVE Spec => []IInv
<1>1. IInv /\ [Next]_vars => IInv'
  BY NextIInv
<1>2. QED  BY <1>1, InitIInv, PTL DEF Spec

-----------------------------------------------------------------------------
(* Whatever the interleaving of the processes, the drive and the interrupts *)
(* of the disk and the timer, no ASSERT of the semaphores or of the         *)
(* scheduler fails, the handler never raises disk_done twice for one        *)
(* sema_down, and busy_wait always finds a drive that wants data.           *)
THEOREM NoAssertionFails ==
  ASSUME PromptIdentify PROVE Spec => []NoAssertFails
<1>1. IInv => NoAssertFails
  BY DEF IInv, SchedInv, NoAssertFails
<1>2. QED  BY <1>1, IInvHolds, PTL

(* A command register is written only while the drive is idle, and data is  *)
(* transferred only for the command of the thread that asked for it: no     *)
(* request is taken for finished because of an earlier one's interrupt.     *)
THEOREM CommandsKeepApart ==
  ASSUME PromptIdentify PROVE Spec => []CommandsDoNotOverlap
<1>1. IInv => CommandsDoNotOverlap
  <2> SUFFICES ASSUME IInv, NEW t \in Client
               PROVE  /\ pc[t] = "cmd" => drive = "idle"
                      /\ pc[t] = "data" => drive = "drq" /\ running = t
                      /\ pc[t] = "unlock" => drive = "idle"
    BY DEF CommandsDoNotOverlap
  <2>1. t \in Thread /\ (Busy(t) => DriveOf(t))
    BY Facts DEF DriveInv
  <2>2. QED  BY <2>1 DEF Busy, DriveOf, AtRest, BeforeData, Completed
<1>2. QED  BY <1>1, IInvHolds, PTL

(* Whoever sleeps in sema_down(disk_done) will be woken: its command is     *)
(* still under way, or its interrupt is raised and will not be ignored.     *)
THEOREM SleeperIsWoken ==
  ASSUME PromptIdentify PROVE Spec => []CompletionIsNotLost
<1>1. IInv => CompletionIsNotLost
  <2> SUFFICES ASSUME IInv, NEW t \in Client, pc[t] = "asleep", sched.status[t] = "BLOCKED"
               PROVE  /\ t \in ToSet(waiters[disk_done]) /\ value[disk_done] = 0
                      /\ expecting_intr
                      /\ irq \/ (drive \in {"busy", "flush"} /\ running = t)
    BY DEF CompletionIsNotLost
  <2>1. t \in Thread /\ DriveOf(t)
    BY Facts DEF DriveInv, Busy
  <2>2. t \in ToSet(waiters[disk_done])
    BY <2>1, Facts DEF WaitersInv, SleepsAt
  <2>3. Pending(t)
    BY <2>1 DEF DriveOf
  <2>4. QED  BY <2>2, <2>3 DEF Pending
<1>2. QED  BY <1>1, IInvHolds, PTL
===============================================================================
