----------------------------- MODULE IdeChannel -----------------------------
(***************************************************************************)
(* One ATA channel (device/ide.c), the threads that read and write its     *)
(* disks, and the drive.                                                   *)
(*                                                                         *)
(* The channel lock serialises whole commands; disk_done, a semaphore with *)
(* initial value 0, is raised by intr_hd_handler once per command that     *)
(* expects it.  A system call runs with interrupts off, so the interrupt   *)
(* of its own command can only arrive while some OTHER thread runs with    *)
(* interrupts on.  busy_wait polls the status and sleeps 10 ms, one tick,  *)
(* by yielding until the tick counter moves.                               *)
(*                                                                         *)
(* The drive (external) is the state of one command at a time.  A transfer *)
(* of several sectors is one data phase: after its first sector the drive  *)
(* requests attention again, with the interrupt line left raised.          *)
(***************************************************************************)
EXTENDS SyncOps

CONSTANTS main, Process,        \* the boot thread; the user processes
          ch_lock, disk_done,   \* channel->lock and channel->disk_done
          BootCommands,         \* the commands ide_init and filesys_init issue
          PollDelay             \* the commands for which the drive is busy
                                \* before it takes the data of a write or has
                                \* the data of an identify; none under Bochs

ASSUME IdeAssumption ==
  /\ main \in Thread \ {idle_thread}
  /\ Process \subseteq Thread \ {main, idle_thread}
  /\ {ch_lock, disk_done} \subseteq Sema /\ ch_lock # disk_done
  /\ Lock = {ch_lock}
  /\ BootCommands \in Seq({"identify", "read", "write"})
  /\ PollDelay \subseteq {"identify", "write"}

VARIABLES pc, kind,        \* where a thread is in the driver; its command
          ticked,          \* ticked[t]: ticks moved since t began to nap
          expecting_intr,  \* channel->expecting_intr
          script,          \* what main has still to do with interrupts off
          drive,           \* state of the drive
          running,         \* the command the drive works on
          irq              \* the interrupt line is raised and not yet accepted

driverVars == << pc, kind, ticked, expecting_intr, script >>
driveVars == << drive, running, irq >>
vars == << sched, value, waiters, holder, repeat,
           pc, kind, ticked, expecting_intr, script, drive, running, irq >>

Client == Process \cup {main}

(***************************************************************************)
(* out    not in the driver            poll   in busy_wait                 *)
(* lock   in lock_acquire              nap    in ticks_to_sleep            *)
(* cmd    before cmd_out               data   before the data transfer     *)
(* down   before sema_down(disk_done)  unlock before lock_release          *)
(* asleep in the loop of sema_down                                         *)
(***************************************************************************)
Pc == {"out", "lock", "cmd", "down", "asleep", "poll", "nap", "data", "unlock"}
Kind == {"identify", "read", "write"}

\* idle: no command.  busy: BSY set, before the data phase.  drq: wants to
\* transfer data.  flush: BSY set, writing what it received.
DriveState == {"idle", "busy", "drq", "flush"}

Init ==
  /\ \E order \in SetToSeqs(Thread \ {main}) :
       sched = [cur    |-> main,
                status |-> [t \in Thread |-> IF t = main THEN "RUNNING" ELSE "READY"],
                ready  |-> order,
                ticks  |-> priority,
                panic  |-> FALSE]
  /\ value = [x \in Sema |-> IF x = disk_done THEN 0 ELSE 1]
  /\ waiters = [x \in Sema |-> << >>]
  /\ holder = [l \in Lock |-> NULL]
  /\ repeat = [l \in Lock |-> 0]
  /\ pc = [t \in Thread |-> "out"]
  /\ kind = [t \in Thread |-> "read"]
  /\ ticked = [t \in Thread |-> FALSE]
  /\ expecting_intr = FALSE
  /\ script = BootCommands
  /\ drive = "idle" /\ running = NULL /\ irq = FALSE

At(p) == ~sched.panic /\ self \in Client /\ pc[self] = p
Goto(p) == pc' = [pc EXCEPT ![self] = p]

\* main keeps interrupts off until its script is done (main.c:15).
Booting == script # << >>

\* EFLAGS.IF.  (main's lock_acquire is looked at statement by statement in
\* module Sync.)
IntrOn ==
  /\ ~sched.panic
  /\ \/ pc[self] = "out" /\ ~(self = main /\ Booting)
     \/ self = main /\ ~Booting /\ pc[main] \notin {"lock", "asleep"}

-----------------------------------------------------------------------------
(***************************************************************************)
(* ide_read, ide_write, identify_disk                                      *)
(***************************************************************************)
Enter(k) ==
  /\ kind' = [kind EXCEPT ![self] = k]
  /\ Goto(IF k = "identify" THEN "cmd" ELSE "lock")
  /\ UNCHANGED << sched, semaVars, lockVars, ticked, expecting_intr, driveVars >>

BootCommand ==
  /\ At("out") /\ self = main /\ Booting
  /\ Enter(Head(script))
  /\ UNCHANGED script

\* There is nothing to read or write before filesys_init has mounted.
Request ==
  /\ At("out") /\ ~Booting
  /\ \E k \in {"read", "write"} : Enter(k)
  /\ UNCHANGED script

AcquireWait ==
  /\ At("lock") /\ LockWait(ch_lock)
  /\ UNCHANGED << driverVars, driveVars >>

Acquire ==
  /\ At("lock") /\ (LockTake(ch_lock) \/ LockAgain(ch_lock))
  /\ Goto("cmd")
  /\ UNCHANGED << kind, ticked, expecting_intr, script, driveVars >>

\* Mutant of cmd_out: expecting_intr is not set.
cmd_out_NotExpecting ==
  /\ At("cmd")
  /\ IF drive \in {"busy", "flush"}
     THEN UNCHANGED driveVars
     ELSE /\ running' = self /\ irq' = FALSE
          /\ drive' = IF kind[self] \in {"read"} \cup PollDelay THEN "busy" ELSE "drq"
  /\ Goto(IF kind[self] = "read" THEN "down" ELSE "poll")
  /\ UNCHANGED << sched, semaVars, lockVars, kind, ticked, expecting_intr, script >>

\* expecting_intr = true; outb(reg_cmd).  Writing the command register lowers
\* the interrupt line; a drive that is busy ignores the command.
cmd_out ==
  /\ At("cmd")
  /\ expecting_intr' = TRUE
  /\ IF drive \in {"busy", "flush"}
     THEN UNCHANGED driveVars
     ELSE /\ running' = self /\ irq' = FALSE
          /\ drive' = IF kind[self] \in {"read"} \cup PollDelay THEN "busy" ELSE "drq"
  /\ Goto(IF kind[self] = "read" THEN "down" ELSE "poll")
  /\ UNCHANGED << sched, semaVars, lockVars, kind, ticked, script >>

DownWait ==
  /\ At("down") \/ At("asleep")
  /\ SemaWait(disk_done)
  /\ Goto("asleep")
  /\ UNCHANGED << lockVars, kind, ticked, expecting_intr, script, driveVars >>

Down ==
  /\ At("down") \/ At("asleep")
  /\ SemaTake(disk_done)
  /\ Goto(IF kind[self] = "read" THEN "poll" ELSE "unlock")
  /\ UNCHANGED << lockVars, kind, ticked, expecting_intr, script, driveVars >>

(***************************************************************************)
(* busy_wait: reading the status register lowers the interrupt line.       *)
(* Neither BSY nor DRQ: the transfer failed, PANIC.                        *)
(***************************************************************************)
BusyWait ==
  /\ At("poll")
  /\ irq' = FALSE
  /\ IF drive \in {"busy", "flush"}
     THEN /\ Goto("nap") /\ ticked' = [ticked EXCEPT ![self] = FALSE]
          /\ UNCHANGED sched
     ELSE IF drive = "drq"
     THEN Goto("data") /\ UNCHANGED << sched, ticked >>
     ELSE sched' = Panic(sched) /\ UNCHANGED << pc, ticked >>
  /\ UNCHANGED << semaVars, lockVars, kind, expecting_intr, script, drive, running >>

\* while (ticks - start_tick < sleep_ticks) thread_yield();
NapYield ==
  /\ At("nap") /\ ~ticked[self]
  /\ sched' = thread_yield(sched)
  /\ UNCHANGED << semaVars, lockVars, driverVars, driveVars >>

NapOver ==
  /\ At("nap") /\ ticked[self]
  /\ Goto("poll")
  /\ UNCHANGED << sched, semaVars, lockVars, kind, ticked, expecting_intr, script, driveVars >>

\* Mutant of Transfer: ide_write does not wait for the end of the write.
Transfer_NoWait ==
  /\ At("data")
  /\ IF kind[self] = "write" THEN drive' = "flush" /\ UNCHANGED running
                             ELSE drive' = "idle" /\ running' = NULL
  /\ Goto(IF kind[self] = "identify" THEN "out" ELSE "unlock")
  /\ script' = IF kind[self] = "identify" THEN Tail(script) ELSE script
  /\ UNCHANGED << sched, semaVars, lockVars, kind, ticked, expecting_intr, irq >>

\* read_from_sector, write2sector.  identify_disk is over; a read of several
\* sectors leaves the line raised.
Transfer ==
  /\ At("data")
  /\ CASE kind[self] = "write" -> drive' = "flush" /\ UNCHANGED << irq, running >>
       [] OTHER -> /\ drive' = "idle" /\ running' = NULL
                   /\ IF kind[self] = "read" THEN irq' \in BOOLEAN ELSE UNCHANGED irq
  /\ Goto(CASE kind[self] = "identify" -> "out"
            [] kind[self] = "read" -> "unlock"
            [] OTHER -> "down")
  /\ script' = IF kind[self] = "identify" THEN Tail(script) ELSE script
  /\ UNCHANGED << sched, semaVars, lockVars, kind, ticked, expecting_intr >>

Release ==
  /\ At("unlock") /\ lock_release(ch_lock)
  /\ Goto("out")
  /\ script' = IF self = main /\ Booting THEN Tail(script) ELSE script
  /\ UNCHANGED << kind, ticked, expecting_intr, driveVars >>

-----------------------------------------------------------------------------
\* The drive: the data of a read or identify is there (with an interrupt), the
\* sector buffer is free for a write (without), a written sector is on disk.
DriveReady ==
  /\ drive = "busy"
  /\ drive' = "drq"
  /\ irq' = IF kind[running] = "write" THEN irq ELSE TRUE
  /\ UNCHANGED << sched, semaVars, lockVars, driverVars, running >>

DriveWritten ==
  /\ drive = "flush"
  /\ drive' = "idle" /\ running' = NULL /\ irq' = TRUE
  /\ UNCHANGED << sched, semaVars, lockVars, driverVars >>

\* Mutant of intr_hd_handler: it does not ask whether an interrupt is expected.
intr_hd_handler_NoTest ==
  /\ IntrOn /\ irq
  /\ irq' = FALSE
  /\ sema_up(disk_done)
  /\ UNCHANGED << lockVars, driverVars, drive, running >>

intr_hd_handler ==
  /\ IntrOn /\ irq
  /\ irq' = FALSE
  /\ IF expecting_intr
     THEN expecting_intr' = FALSE /\ sema_up(disk_done)
     ELSE UNCHANGED << expecting_intr, sched, semaVars >>
  /\ UNCHANGED << lockVars, pc, kind, ticked, script, drive, running >>

TimerIntr ==
  /\ IntrOn
  /\ sched' = intr_timer_handler(sched)
  /\ ticked' = [t \in Thread |-> TRUE]
  /\ UNCHANGED << semaVars, lockVars, pc, kind, expecting_intr, script, driveVars >>

IdleLoop ==
  /\ ~sched.panic /\ self = idle_thread
  /\ sched' = thread_block(sched, "BLOCKED")
  /\ UNCHANGED << semaVars, lockVars, driverVars, driveVars >>

DriverStep ==
  \/ BootCommand \/ AcquireWait \/ Acquire \/ cmd_out \/ DownWait \/ Down
  \/ BusyWait \/ NapYield \/ NapOver \/ Transfer \/ Release

Next ==
  \/ DriverStep \/ Request \/ DriveReady \/ DriveWritten
  \/ intr_hd_handler \/ TimerIntr \/ IdleLoop

(***************************************************************************)
(* Fairness: the drive answers, the cpu executes, interrupts stay latched  *)
(* until they are accepted.                                                *)
(***************************************************************************)
Fairness ==
  /\ WF_vars(DriveReady) /\ WF_vars(DriveWritten)
  /\ WF_vars(IdleLoop)
  /\ SF_vars(intr_hd_handler) /\ SF_vars(TimerIntr)
  /\ \A t \in Client : SF_vars(self = t /\ DriverStep)

Spec == Init /\ [][Next]_vars
FairSpec == Spec /\ Fairness

-----------------------------------------------------------------------------
(***************************************************************************)
(* Properties                                                              *)
(***************************************************************************)
TypeOK ==
  /\ SyncTypeOK
  /\ pc \in [Thread -> Pc] /\ kind \in [Thread -> Kind]
  /\ ticked \in [Thread -> BOOLEAN] /\ expecting_intr \in BOOLEAN
  /\ script \in Seq(Kind)
  /\ drive \in DriveState /\ running \in Client \cup {NULL} /\ irq \in BOOLEAN

\* No ASSERT or PANIC is reached: above all the handler never raises disk_done
\* twice for one sema_down (sync.c:39), and busy_wait never sees a drive that
\* has nothing to transfer.
NoAssertFails == ~sched.panic

\* A command register is written only while the drive has nothing to do, and
\* data is transferred only for one's own command: a request is never taken for
\* finished because of an interrupt that belongs to an earlier one.
CommandsDoNotOverlap ==
  \A t \in Client :
    /\ pc[t] = "cmd" => drive = "idle"
    /\ pc[t] = "data" => drive = "drq" /\ running = t
    /\ pc[t] = "unlock" => drive = "idle"

\* Whoever sleeps for the disk will be woken: the drive still works on its
\* command, or the interrupt is on its way and will not be ignored.
CompletionIsNotLost ==
  \A t \in Client :
    pc[t] = "asleep" /\ sched.status[t] = "BLOCKED" =>
      /\ t \in ToSet(waiters[disk_done]) /\ value[disk_done] = 0
      /\ expecting_intr
      /\ irq \/ (drive \in {"busy", "flush"} /\ running = t)

\* A request that has the channel is answered, unless a thread naps in
\* busy_wait.  (With every other thread blocked such a thread yields to itself
\* with interrupts off: the tick it waits for never comes, and neither does the
\* half minute of ide.c:97.)  A request that waits for the channel gets it and
\* is answered as well, unless others take the channel again and again: a
\* released lock is free, and a thread that asks for it before the woken waiter
\* runs has it first (sync.c:36-48).
Answered(t) == pc[t] = "out" \/ \E u \in Client : pc[u] = "nap"
Overtaken(t) == \E u \in Client \ {t} : pc[u] = "cmd"
RequestReturns ==
  \A t \in Client :
    /\ pc[t] = "cmd" ~> Answered(t)
    /\ []<>Overtaken(t) \/ (pc[t] = "lock" ~> Answered(t))
=============================================================================
