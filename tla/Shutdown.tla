------------------------------ MODULE Shutdown ------------------------------
(* How the system goes down: shutdown and sys_reboot (main/main.c), panic    *)
(* (lib/kprintf.c) with the panics its own work causes, and what they do to   *)
(* the other threads (thread_panic, scheduler_shutdown, thread_shutdown).     *)
(* The operations of the file systems are what can be under way: they hold    *)
(* knowndevs_lock and sleep for the disk (disk_clear is held by who uses it).   *)
(* A panic in the idle loop, where there is no current thread, is left out:   *)
(* it never sleeps, as thread_sleep's assertion sends it to the next stage.   *)
EXTENDS Naturals, FiniteSets

CONSTANTS SThread, NoOne

VARIABLES
  state,      \* of each thread: running, ready, asleep, dropped
  wchan,      \* what it sleeps on, or NoOne's "none"
  whereabouts,   \* where each thread is
  caller,     \* who called the file system operation it is in
  lock,       \* knowndevs_lock's holder
  disk_clear,   \* the disk's user
  busy,       \* the disk works on a request
  evil,       \* panic's stage
  in_int,     \* the panic came from an interrupt handler
  printed,    \* the panic message is out
  power       \* on, off or halted

stop_vars == <<state, wchan, whereabouts, caller, lock, disk_clear, busy, evil, in_int, printed, power>>

\* After boot: every thread may run, and nothing is under way.
kernel_booted ==
  /\ state = [t \in SThread |-> "ready"]
  /\ wchan = [t \in SThread |-> "none"]
  /\ whereabouts = [t \in SThread |-> "thread"]
  /\ caller = [t \in SThread |-> "thread"]
  /\ lock = NoOne /\ disk_clear = NoOne /\ busy = FALSE
  /\ evil = 0 /\ in_int = FALSE /\ printed = FALSE
  /\ power = "on"

Runs(t, here) == power = "on" /\ state[t] = "running" /\ whereabouts[t] = here
Panicking == evil > 0 \/ \E t \in SThread : whereabouts[t] = "panic"
MovesTo(t, there) == whereabouts' = [whereabouts EXCEPT ![t] = there]
\* An operation returns to who called it; panic goes on with its next stage.
Returned(t) == MovesTo(t, caller[t])

thread_sleep_on(t, addr) ==
  /\ state' = [state EXCEPT ![t] = "asleep"]
  /\ wchan' = [wchan EXCEPT ![t] = addr]

\* thread_wakeup: those of the sleepers that sleep on the address.
thread_wakeup_on(addr) ==
  LET woken == {t \in SThread : state[t] = "asleep" /\ wchan[t] = addr}
  IN  /\ state' = [t \in SThread |-> IF t \in woken THEN "ready" ELSE state[t]]
      /\ wchan' = [t \in SThread |-> IF t \in woken THEN "none" ELSE wchan[t]]

\* The scheduler takes a thread of the run queue.
scheduler_runs(t) ==
  /\ power = "on"
  /\ \A u \in SThread : state[u] # "running"
  /\ state[t] = "ready"
  /\ state' = [state EXCEPT ![t] = "running"]
  /\ UNCHANGED <<wchan, whereabouts, caller, lock, disk_clear, busy, evil, in_int, printed, power>>

\* hardclock's thread_yield: panic has interrupts off whenever it runs.
hardclock_yields(t) ==
  /\ power = "on" /\ ~Panicking
  /\ state[t] = "running"
  /\ state' = [state EXCEPT ![t] = "ready"]
  /\ UNCHANGED <<wchan, whereabouts, caller, lock, disk_clear, busy, evil, in_int, printed, power>>

\* An operation on file systems begins, or sys_reboot does, whose shutdown
\* unmounts them all.
BeginVfs(t, who) ==
  /\ Runs(t, "thread") /\ ~Panicking
  /\ MovesTo(t, "acquire")
  /\ caller' = [caller EXCEPT ![t] = who]
  /\ UNCHANGED <<state, wchan, lock, disk_clear, busy, evil, in_int, printed, power>>

\* A file operation, which uses the disk without the lock of the device table.
BeginIo(t) ==
  /\ Runs(t, "thread") /\ ~Panicking
  /\ MovesTo(t, "io")
  /\ caller' = [caller EXCEPT ![t] = "thread"]
  /\ UNCHANGED <<state, wchan, lock, disk_clear, busy, evil, in_int, printed, power>>

\* lock_acquire: panics when the thread has the lock, sleeps when another has,
\* and thread_sleep panics in an interrupt handler.
lock_acquire_known(t) ==
  /\ Runs(t, "acquire")
  /\ \/ lock = NoOne /\ lock' = t /\ MovesTo(t, "io") /\ UNCHANGED <<state, wchan>>
     \/ (lock = t \/ (lock # NoOne /\ in_int)) /\ MovesTo(t, "panic") /\ UNCHANGED <<lock, state, wchan>>
     \/ lock \notin {t, NoOne} /\ ~in_int /\ thread_sleep_on(t, "lock") /\ UNCHANGED <<lock, whereabouts>>
  /\ UNCHANGED <<caller, disk_clear, busy, evil, in_int, printed, power>>

\* The operation does without the disk, or waits for it and uses it: lhd_io's
\* P(lh_clear), the request, P(lh_done).  P panics in an interrupt handler.
Finished(t) == IF lock = t THEN MovesTo(t, "release") ELSE Returned(t)
UseDisk(t) ==
  /\ Runs(t, "io")
  /\ \/ Finished(t) /\ UNCHANGED <<state, wchan, disk_clear, busy>>
     \/ in_int /\ MovesTo(t, "panic") /\ UNCHANGED <<state, wchan, disk_clear, busy>>
     \/ /\ ~in_int /\ disk_clear # NoOne
        /\ thread_sleep_on(t, "disk_clear")
        /\ UNCHANGED <<whereabouts, disk_clear, busy>>
     \/ /\ ~in_int /\ disk_clear = NoOne
        /\ disk_clear' = t /\ busy' = TRUE
        /\ thread_sleep_on(t, "lh_done") /\ MovesTo(t, "iodone")
  /\ UNCHANGED <<caller, lock, evil, in_int, printed, power>>

\* The disk's interrupt, taken by a thread outside panic or in the idle loop.
lhd_irq_wakes ==
  /\ power = "on" /\ busy
  /\ Panicking => \A t \in SThread : state[t] # "running"
  /\ busy' = FALSE
  /\ thread_wakeup_on("lh_done")
  /\ UNCHANGED <<whereabouts, caller, lock, disk_clear, evil, in_int, printed, power>>

\* V(lh_clear).
DiskDone(t) ==
  /\ Runs(t, "iodone")
  /\ disk_clear' = NoOne
  /\ thread_wakeup_on("disk_clear")
  /\ Finished(t)
  /\ UNCHANGED <<caller, lock, busy, evil, in_int, printed, power>>

lock_release_known(t) ==
  /\ Runs(t, "release")
  /\ lock' = NoOne
  /\ thread_wakeup_on("lock")
  /\ Returned(t)
  /\ UNCHANGED <<caller, disk_clear, busy, evil, in_int, printed, power>>
----------------------------------------------------------------------------
(* panic.                                                                  *)

\* A thread or an interrupt handler finds something wrong.
BeginPanic(t, inside) ==
  /\ power = "on" /\ ~Panicking
  /\ state[t] = "running"
  /\ MovesTo(t, "panic")
  /\ in_int' = inside
  /\ UNCHANGED <<state, wchan, caller, lock, disk_clear, busy, evil, printed, power>>

\* Threads that are dropped on the floor: those asleep, and those to be run.
thread_killall(s) == [u \in SThread |-> IF s[u] = "asleep" THEN "dropped" ELSE s[u]]
scheduler_killall(s) == [u \in SThread |-> IF s[u] = "ready" THEN "dropped" ELSE s[u]]

thread_panic_RunQueueOnly(s) == scheduler_killall(s)    \* mutant: thread_killall is not called

thread_panic(s) == scheduler_killall(thread_killall(s))

\* scheduler_shutdown also destroys the run queue, and thread_shutdown the
\* sleepers array, so that nobody finds who is in it.
scheduler_shutdown(s) == scheduler_killall(s)
thread_shutdown(s) == [u \in SThread |-> IF s[u] = "asleep" THEN "dropped" ELSE s[u]]

\* The ends: there is no reset, so that rebooting turns the power off as well.
md_poweroff == "off"
md_reboot == md_poweroff
md_halt == "halted"
md_panic == md_poweroff

StageAfter_StaysForSync == IF evil = 3 THEN 3 ELSE evil + 1    \* mutant: evil is set after vfs_sync

\* Every stage moves evil on before it does its work, so that a panic of that
\* work, nested in this one, begins with the next stage.
StageAfter == evil + 1

\* One stage of panic: splhigh, thread_panic, the message, vfs_sync, md_panic.
panic(t) ==
  /\ Runs(t, "panic")
  /\ evil < 5
  /\ evil' = StageAfter
  /\ state' = IF evil = 1 THEN thread_panic(state) ELSE state
  /\ \/ evil = 2 /\ printed' = TRUE
     \/ evil # 2 /\ UNCHANGED printed
     \/ evil = 2 /\ UNCHANGED printed      \* printing panics
  /\ IF evil = 3
     THEN MovesTo(t, "acquire") /\ caller' = [caller EXCEPT ![t] = "panic"]
     ELSE UNCHANGED <<whereabouts, caller>>
  /\ power' = IF evil = 4 THEN md_panic ELSE power
  /\ UNCHANGED <<wchan, lock, disk_clear, busy, in_int>>

\* The sync panics where it is.
SyncPanics(t) ==
  /\ Panicking
  /\ \/ Runs(t, "io") \/ Runs(t, "iodone")
  /\ MovesTo(t, "panic")
  /\ UNCHANGED <<state, wchan, caller, lock, disk_clear, busy, evil, in_int, printed, power>>
----------------------------------------------------------------------------
(* shutdown, once everything is unmounted, and the end sys_reboot asked for. *)
shutdown(t) ==
  /\ Runs(t, "shutdown")
  /\ state' = thread_shutdown(scheduler_shutdown(state))
  /\ power' \in {md_poweroff, md_reboot, md_halt}
  /\ UNCHANGED <<wchan, whereabouts, caller, lock, disk_clear, busy, evil, in_int, printed>>

StopStep(t) ==
  \/ lock_acquire_known(t)
  \/ UseDisk(t)
  \/ DiskDone(t)
  \/ lock_release_known(t)
  \/ panic(t)
  \/ SyncPanics(t)
  \/ shutdown(t)

StopNext ==
  \/ \E t \in SThread :
       \/ StopStep(t)
       \/ scheduler_runs(t)
       \/ hardclock_yields(t)
       \/ \E who \in {"thread", "shutdown"} : BeginVfs(t, who)
       \/ BeginIo(t)
       \/ \E inside \in BOOLEAN : BeginPanic(t, inside)
  \/ lhd_irq_wakes

\* A thread that can go on does, the timer keeps ticking and the run queue is
\* served in turn (so that a thread preempted again and again still gets on),
\* and the disk answers.
StopFairness ==
  /\ \A t \in SThread :
       /\ SF_stop_vars(StopStep(t)) /\ SF_stop_vars(scheduler_runs(t))
       /\ WF_stop_vars(hardclock_yields(t))
  /\ WF_stop_vars(lhd_irq_wakes)

StopSpec == kernel_booted /\ [][StopNext]_stop_vars
----------------------------------------------------------------------------
(* Type invariant.                                                         *)
StopTypeOK ==
  /\ state \in [SThread -> {"running", "ready", "asleep", "dropped"}]
  /\ wchan \in [SThread -> {"none", "lock", "disk_clear", "lh_done"}]
  /\ whereabouts \in [SThread -> {"thread", "acquire", "io", "iodone", "release", "panic", "shutdown"}]
  /\ lock \in SThread \cup {NoOne} /\ disk_clear \in SThread \cup {NoOne}
  /\ evil \in 0..5 /\ power \in {"on", "off", "halted"}
  /\ Cardinality({t \in SThread : state[t] = "running"}) <= 1

\* thread_killall's comment, "to be sure they don't wake up while we're
\* shutting down": once thread_panic has run, every thread but the one that
\* panics stays dropped, though panic's sync sleeps and takes interrupts.
PanicsAlone ==
  evil >= 2 => \E t \in SThread : \A u \in SThread \ {t} : state[u] = "dropped"

\* What a thread that was dropped holds is never released, nor is the disk when
\* the panic struck in the middle of its own transfer.
Stuck ==
  \E t, u \in SThread :
    /\ state[t] = "asleep"
    /\ \/ state[u] = "dropped" /\ wchan[t] = "lock" /\ lock = u
       \/ state[u] = "dropped" /\ wchan[t] = "disk_clear" /\ disk_clear = u
       \/ wchan[t] = "disk_clear" /\ disk_clear = t

\* A panic, wherever it strikes and whatever panics it causes on its way, and
\* a shutdown, whatever the other threads are doing, end with the machine off,
\* unless the sync of panic needs what will never be released.
SystemStops ==
  (Panicking \/ \E t \in SThread : whereabouts[t] = "shutdown") ~> (power # "on" \/ Stuck)
============================================================================
