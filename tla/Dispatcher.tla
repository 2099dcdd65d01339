------------------------------ MODULE Dispatcher ------------------------------
(***************************************************************************)
(* LocalPersistentTaskDispatcher: the kernel that runs accepted executions *)
(* of one task type.  One instance per process; a file lock of the         *)
(* operating system decides which process may have its threads.  A worker  *)
(* scans the accepted rows page by page and runs them one at a time;       *)
(* helpers (maintenance loops and the queue inspector) only wait for the   *)
(* stop event.  Callers start, stop and close the kernel.                  *)
(*                                                                         *)
(* A section under _state_lock is one action; so is one database call.     *)
(* The events _stop_event and _wake_event are read and set outside the     *)
(* lock.  A task is named by its dispatch_sequence.  The shared execution  *)
(* limiter grants its permit whenever it likes, unless the wait is         *)
(* cancelled.  Counters, snapshots and logging are left out.               *)
(***************************************************************************)
EXTENDS Naturals, Sequences, FiniteSets, SequencesExt

CONSTANTS
    Dispatchers,    \* kernel instances, each in a process of its own
    Helpers,        \* background threads beside the worker
    Callers,        \* threads of each process that call start, stop and close
    CalledInStates, \* lifecycle states in which a caller calls start
    Poison,         \* tasks that fail before they can be claimed
    MaxTasks,       \* bound: executions ever accepted
    PageSize,       \* accepted_batch_size
    MaxFaults,      \* bound: failed database calls, aborted threads, crashes
    None

Lifecycle == {"new", "starting", "running", "stopping", "stopped", "closed"}
Tasks     == 1 .. MaxTasks
Worker    == "worker"
Threads   == Helpers \cup {Worker}

ASSUME DispatcherAssumption ==
    /\ None \notin Dispatchers
    /\ Worker \notin Helpers
    /\ CalledInStates \subseteq Lifecycle
    /\ Poison \subseteq Tasks
    /\ MaxTasks \in Nat /\ PageSize \in Nat \ {0} /\ MaxFaults \in Nat

VARIABLES
    state,     \* execution_state of each task
    cooldown,  \* next_dispatch_at of each task: never set, cooling, over
    lock,      \* the process that holds the file lock
    life,      \* _lifecycle_state, "dead" once the process has crashed
    holds,     \* _guard_acquired
    stop,      \* _stop_event
    wake,      \* _wake_event
    finished,  \* the *_finished events that are set
    pc,        \* where each background thread is
    round,     \* the locals of the worker's round
    caller,    \* the calls in progress
    told,      \* tasks dispatch or wake_up has announced (history)
    owed,      \* tasks committed whose wake-up is still to come
    faults     \* faults so far

queue   == <<state, cooldown>>
control == <<lock, life, holds, stop, wake, finished>>
clients == <<caller, told, owed>>
vars    == <<queue, control, pc, round, clients, faults>>

-----------------------------------------------------------------------------
Accepted == {t \in Tasks : state[t] = "accepted"}
Over(d)  == life[d] \in {"stopped", "closed"}
Gone     == {"none", "gone"}
Alive(d) == {t \in Threads : pc[d][t] \notin Gone}

\* Where a thread is still in its loop.
Looping  == {"top", "scan", "item", "waiting", "granted", "executing", "running",
             "returning", "defer", "asleep", "loop"}

Faulty == faults < MaxFaults /\ faults' = faults + 1

NoRound == [page |-> <<>>, size |-> 0, completed |-> TRUE, failed |-> <<>>,
            clean |-> TRUE]
NoCall  == [op |-> "none", at |-> "idle", threads |-> {}]

At(d, t, place) == pc[d][t] = place
Go(d, t, place) == pc' = [pc EXCEPT ![d][t] = place]
Raise(event, d) == [event EXCEPT ![d] = TRUE]

AtCall(d, c, op, at) == caller[d][c].op \in op /\ caller[d][c].at = at
Move(d, c, at)       == caller' = [caller EXCEPT ![d][c].at = at]
Return(d, c)         == caller' = [caller EXCEPT ![d][c] = NoCall]

-----------------------------------------------------------------------------
(* Submission.  The row is committed first; the announcement follows.      *)

Submit(d, t) ==
    /\ life[d] # "dead"
    /\ state[t] = "none"
    /\ \A u \in Tasks : u < t => state[u] # "none"
    /\ state' = [state EXCEPT ![t] = "accepted"]
    /\ owed' = [owed EXCEPT ![d] = @ \cup {t}]
    /\ UNCHANGED <<cooldown, control, pc, round, caller, told, faults>>

\* _signal_wakeup: refused once the dispatcher is stopping.
Announce(d, t) ==
    /\ t \in owed[d]
    /\ owed' = [owed EXCEPT ![d] = @ \ {t}]
    /\ IF life[d] \in {"stopping", "stopped", "closed"}
       THEN UNCHANGED <<wake, told>>
       ELSE wake' = Raise(wake, d) /\ told' = [told EXCEPT ![d] = @ \cup {t}]
    /\ UNCHANGED <<queue, lock, life, holds, stop, finished, pc, round, caller, faults>>

\* next_dispatch_at passes.  A cooldown outlasts the scans of one burst: it
\* ends while a worker sleeps or runs a task.
CoolDown(t) ==
    /\ cooldown[t] = "cooling"
    /\ \E d \in Dispatchers : pc[d][Worker] \in {"asleep", "running"}
    /\ cooldown' = [cooldown EXCEPT ![t] = "over"]
    /\ UNCHANGED <<state, control, pc, round, clients, faults>>

-----------------------------------------------------------------------------
(* start: under the lock, the file lock is taken and the threads started.  *)

CallStart(d, c) ==
    caller[d][c] = NoCall /\ life[d] \in CalledInStates

Failing(d, c, started) ==
    caller' = [caller EXCEPT ![d][c] =
                 [op |-> "start", at |-> "failing", threads |-> started]]

\* Already stopping or over, or the lock is another process's.
StartRefused(d, c) ==
    /\ CallStart(d, c)
    /\ \/ life[d] \in {"stopping", "stopped", "closed"}
       \/ life[d] = "new" /\ lock \notin {None, d}
    /\ Failing(d, c, {})
    /\ UNCHANGED <<queue, control, pc, round, told, owed, faults>>

\* The startup gate raises: the lock is held and no thread exists.
StartGateFails(d, c) ==
    /\ CallStart(d, c)
    /\ life[d] = "new" /\ lock \in {None, d}
    /\ Faulty
    /\ lock' = d /\ holds' = Raise(holds, d)
    /\ Failing(d, c, {})
    /\ UNCHANGED <<queue, life, stop, wake, finished, pc, round, told, owed>>

\* The threads begin, the worker first; if one cannot be created, start fails.
Started == {{}} \cup {ts \in SUBSET Threads : Worker \in ts}

StartThreads(d, c, started) ==
    /\ CallStart(d, c)
    /\ life[d] = "new" /\ lock \in {None, d}
    /\ lock' = d /\ holds' = Raise(holds, d)
    /\ stop' = [stop EXCEPT ![d] = FALSE]
    /\ wake' = [wake EXCEPT ![d] = FALSE]
    /\ finished' = [finished EXCEPT ![d] = {}]
    /\ pc' = [pc EXCEPT ![d] = [t \in Threads |-> IF t \notin started THEN "none"
                                                  ELSE IF t = Worker THEN "top" ELSE "loop"]]
    /\ IF started = Threads
       THEN /\ life' = [life EXCEPT ![d] = "running"]
            /\ UNCHANGED <<caller, faults>>
       ELSE /\ life' = [life EXCEPT ![d] = "starting"]
            /\ Faulty
            /\ Failing(d, c, started)
    /\ UNCHANGED <<queue, round, told, owed>>

\* The except clause of start, which every failure of it reaches.
StartSetsStop(d, c) ==
    /\ AtCall(d, c, {"start"}, "failing")
    /\ stop' = Raise(stop, d) /\ wake' = Raise(wake, d)
    /\ Move(d, c, "marking")
    /\ UNCHANGED <<queue, lock, life, holds, finished, pc, round, told, owed, faults>>

\* Mutant: every event is set, also of the threads that were started.
StartMarksAll(d, c) ==
    /\ AtCall(d, c, {"start"}, "marking")
    /\ finished' = [finished EXCEPT ![d] = Threads]
    /\ life' = [life EXCEPT ![d] = "stopping"]
    /\ Move(d, c, "joining")
    /\ UNCHANGED <<queue, lock, holds, stop, wake, pc, round, told, owed, faults>>

StartMarks(d, c) ==
    /\ AtCall(d, c, {"start"}, "marking")
    /\ finished' = [finished EXCEPT ![d] = @ \cup (Threads \ caller[d][c].threads)]
    /\ life' = [life EXCEPT ![d] = "stopping"]
    /\ Move(d, c, "joining")
    /\ UNCHANGED <<queue, lock, holds, stop, wake, pc, round, told, owed, faults>>

-----------------------------------------------------------------------------
(* stop and close.                                                         *)

\* A new dispatcher has nothing to stop; one that is over and quiet is left.
StopIdle(d, c, op) ==
    /\ caller[d][c] = NoCall
    /\ \/ life[d] = "new"
       \/ Over(d) /\ Alive(d) = {} /\ op = "close" /\ life[d] # "closed"
    /\ IF life[d] = "new" THEN stop' = Raise(stop, d) /\ wake' = Raise(wake, d) ELSE UNCHANGED <<stop, wake>>
    /\ life' = [life EXCEPT ![d] = IF op = "close" THEN "closed" ELSE "stopped"]
    /\ UNCHANGED <<queue, lock, holds, finished, pc, round, clients, faults>>

StopSignals(d, c, op) ==
    /\ caller[d][c] = NoCall
    /\ life[d] \in {"starting", "running", "stopping"} \/ (Over(d) /\ Alive(d) # {})
    /\ ~(op = "close" /\ life[d] = "closed")
    /\ life' = [life EXCEPT ![d] = "stopping"]
    /\ stop' = Raise(stop, d) /\ wake' = Raise(wake, d)
    /\ caller' = [caller EXCEPT ![d][c] =
                    [op |-> op, at |-> "joining", threads |-> Alive(d)]]
    /\ UNCHANGED <<queue, lock, holds, finished, pc, round, told, owed, faults>>

\* Joined, or timed out: stop then returns False, start goes on regardless.
\* Only a thread in its loop keeps a caller waiting for so long.
Complete(d, c) ==
    caller' = [caller EXCEPT ![d][c] = [op |-> @.op, at |-> "completing", threads |-> {}]]

Joined(d, c) ==
    /\ AtCall(d, c, {"start", "stop", "close"}, "joining")
    /\ caller[d][c].threads \cap Alive(d) = {}
    /\ Complete(d, c)
    /\ UNCHANGED <<queue, control, pc, round, told, owed, faults>>

JoinTimesOut(d, c) ==
    /\ AtCall(d, c, {"start", "stop", "close"}, "joining")
    /\ \E t \in caller[d][c].threads : pc[d][t] \in Looping
    /\ IF caller[d][c].op = "start" THEN Complete(d, c) ELSE Return(d, c)
    /\ UNCHANGED <<queue, control, pc, round, told, owed, faults>>

-----------------------------------------------------------------------------
(* _complete_stop_if_finished, which callers and ending threads run: the   *)
(* lifecycle first, the file lock after.                                   *)

\* Mutant: the worker is not asked.
AllHelpersFinished(d) == Helpers \subseteq finished[d]

AllFinished(d) == finished[d] = Threads

MarkStopped(d) ==
    life' = [life EXCEPT ![d] = IF AllFinished(d) /\ @ # "closed" THEN "stopped" ELSE @]

\* _release_process_guard, if this kernel still has it.
ReleaseLock(d) ==
    /\ holds' = [holds EXCEPT ![d] = FALSE]
    /\ lock' = IF holds[d] THEN None ELSE lock

CallCompletes(d, c) ==
    /\ AtCall(d, c, {"start", "stop", "close"}, "completing")
    /\ MarkStopped(d)
    /\ Move(d, c, IF AllFinished(d) THEN "releasing" ELSE "returning")
    /\ UNCHANGED <<queue, lock, holds, stop, wake, finished, pc, round, told, owed, faults>>

CallReleases(d, c) ==
    /\ AtCall(d, c, {"start", "stop", "close"}, "releasing")
    /\ ReleaseLock(d)
    /\ Move(d, c, "returning")
    /\ UNCHANGED <<queue, life, stop, wake, finished, pc, round, told, owed, faults>>

CallReturns(d, c) ==
    /\ AtCall(d, c, {"start", "stop", "close"}, "returning")
    /\ life' = [life EXCEPT ![d] = IF caller[d][c].op = "close" THEN "closed" ELSE @]
    /\ Return(d, c)
    /\ UNCHANGED <<queue, lock, holds, stop, wake, finished, pc, round, told, owed, faults>>

\* The finally clause of a thread.
ThreadFinishes(d, t) ==
    /\ At(d, t, "finally")
    /\ finished' = [finished EXCEPT ![d] = @ \cup {t}]
    /\ Go(d, t, "completing")
    /\ round' = [round EXCEPT ![d] = IF t = Worker THEN NoRound ELSE @]
    /\ UNCHANGED <<queue, lock, life, holds, stop, wake, clients, faults>>

\* Mutant: only callers complete a stop.
ThreadLeaves(d, t) ==
    /\ At(d, t, "completing")
    /\ Go(d, t, "gone")
    /\ UNCHANGED <<queue, control, round, clients, faults>>

ThreadCompletes(d, t) ==
    /\ At(d, t, "completing")
    /\ MarkStopped(d)
    /\ Go(d, t, IF AllFinished(d) THEN "releasing" ELSE "gone")
    /\ UNCHANGED <<queue, lock, holds, stop, wake, finished, round, clients, faults>>

ThreadReleases(d, t) ==
    /\ At(d, t, "releasing")
    /\ ReleaseLock(d)
    /\ Go(d, t, "gone")
    /\ UNCHANGED <<queue, life, stop, wake, finished, round, clients, faults>>

-----------------------------------------------------------------------------
(* A thread that ends unexpectedly: _abort_all_loops.                      *)

Aborts(d, t) ==
    /\ pc[d][t] \in {"loop", "executing", "running"}
    /\ Faulty
    /\ stop' = Raise(stop, d) /\ wake' = Raise(wake, d)
    /\ Go(d, t, "aborting")
    /\ UNCHANGED <<queue, lock, life, holds, finished, round, clients>>

AbortMarks(d, t) ==
    /\ At(d, t, "aborting")
    /\ life' = [life EXCEPT ![d] = IF Over(d) THEN @ ELSE "stopping"]
    /\ Go(d, t, "finally")
    /\ UNCHANGED <<queue, lock, holds, stop, wake, finished, round, clients, faults>>

\* A maintenance loop or the queue inspector sees the stop event.
HelperStops(d, h) ==
    /\ At(d, h, "loop")
    /\ stop[d]
    /\ Go(d, h, "finally")
    /\ UNCHANGED <<queue, control, round, clients, faults>>

-----------------------------------------------------------------------------
(* The worker: clear the wake-up, scan a page, run it, cool down what      *)
(* failed before it was claimed, and sleep if there is nothing more.       *)

WorkerTop(d) ==
    /\ At(d, Worker, "top")
    /\ IF stop[d] THEN Go(d, Worker, "finally") /\ UNCHANGED wake
                  ELSE Go(d, Worker, "scan") /\ wake' = [wake EXCEPT ![d] = FALSE]
    /\ UNCHANGED <<queue, lock, life, holds, stop, finished, round, clients, faults>>

\* Mutant: the newest row first.
NewestBefore(a, b) == a > b

\* list_accepted: the first rows that are not cooling, by dispatch_sequence.  A
\* row is left out only if it comes after a full page.
Before(a, b) == a < b
Ready == {t \in Accepted : cooldown[t] # "cooling"}

Ascending(page) == \A i, j \in 1 .. Len(page) : i < j => Before(page[i], page[j])
LeftOut(page, t) ==
    Len(page) = PageSize /\ \A i \in 1 .. Len(page) : Before(page[i], t)

\* Mutant: no limit.
PagesUnlimited == {page \in BoundedSeq(Ready, MaxTasks) :
                      Ascending(page) /\ Ready \subseteq ToSet(page)}

Pages == {page \in BoundedSeq(Ready, MaxTasks) :
             /\ Len(page) <= PageSize /\ Ascending(page)
             /\ \A t \in Ready : t \in ToSet(page) \/ LeftOut(page, t)}

Scan(d) ==
    /\ At(d, Worker, "scan")
    /\ \E page \in Pages :
          round' = [round EXCEPT ![d] = [NoRound EXCEPT !.page = page, !.size = Len(page)]]
    /\ Go(d, Worker, "item")
    /\ UNCHANGED <<queue, control, clients, faults>>

\* The page cannot be read: wait for the next period.
ScanFails(d) ==
    /\ At(d, Worker, "scan")
    /\ Faulty
    /\ round' = [round EXCEPT ![d] = [NoRound EXCEPT !.completed = FALSE, !.clean = FALSE]]
    /\ Go(d, Worker, "defer")
    /\ UNCHANGED <<queue, control, clients>>

Abandon(d) ==
    /\ round' = [round EXCEPT ![d].page = <<>>, ![d].completed = FALSE]
    /\ Go(d, Worker, "defer")

NextItem(d) ==
    /\ At(d, Worker, "item")
    /\ IF round[d].page # <<>> /\ stop[d] THEN Abandon(d)
       ELSE /\ Go(d, Worker, IF round[d].page = <<>> THEN "defer" ELSE "waiting")
            /\ UNCHANGED round
    /\ UNCHANGED <<queue, control, clients, faults>>

\* acquire_interruptibly: granted, or cancelled by the stop event.
Permit(d) ==
    /\ At(d, Worker, "waiting")
    /\ \/ Go(d, Worker, "granted") /\ UNCHANGED round
       \/ stop[d] /\ Abandon(d)
    /\ UNCHANGED <<queue, control, clients, faults>>

\* Mutant: the stop event is not asked again once the permit is granted.
BeginUnasked(d) ==
    /\ At(d, Worker, "granted")
    /\ Go(d, Worker, "executing")
    /\ UNCHANGED <<queue, control, round, clients, faults>>

\* Under the lock that stop takes: a task begins, or stop came first.
Begin(d) ==
    /\ At(d, Worker, "granted")
    /\ IF stop[d] THEN Abandon(d)
       ELSE Go(d, Worker, "executing") /\ UNCHANGED round
    /\ UNCHANGED <<queue, control, clients, faults>>

Current(d) == Head(round[d].page)
Finishing(d, failed) ==
    round' = [round EXCEPT ![d].page = Tail(@), ![d].failed = failed]

\* execute: the row is claimed if it is still accepted.
Execute(d) ==
    /\ At(d, Worker, "executing")
    /\ Current(d) \notin Poison
    /\ IF Current(d) \in Accepted
       THEN /\ state' = [state EXCEPT ![Current(d)] = "running"]
            /\ Go(d, Worker, "running")
            /\ UNCHANGED round
       ELSE /\ Go(d, Worker, "returning")
            /\ Finishing(d, round[d].failed)
            /\ UNCHANGED state
    /\ UNCHANGED <<cooldown, control, clients, faults>>

\* It raises before the claim.
ExecuteRaises(d) ==
    /\ At(d, Worker, "executing")
    /\ Current(d) \in Poison
    /\ Finishing(d, Append(round[d].failed, Current(d)))
    /\ Go(d, Worker, "returning")
    /\ UNCHANGED <<queue, control, clients, faults>>

\* It returns, or raises after the claim and leaves the row running.
ExecuteEnds(d) ==
    /\ At(d, Worker, "running")
    /\ state' = [state EXCEPT ![Current(d)] = "ended"]
    /\ Finishing(d, round[d].failed)
    /\ Go(d, Worker, "returning")
    /\ UNCHANGED <<cooldown, control, clients, faults>>

RunRaises(d) ==
    /\ At(d, Worker, "running")
    /\ Faulty
    /\ Finishing(d, Append(round[d].failed, Current(d)))
    /\ Go(d, Worker, "returning")
    /\ UNCHANGED <<queue, control, clients>>

\* The permit goes back.  If the limiter refuses it, the dispatcher stops itself.
ReturnPermit(d) ==
    /\ At(d, Worker, "returning")
    /\ Go(d, Worker, "item")
    /\ UNCHANGED <<queue, control, round, clients, faults>>

ReturnFails(d) ==
    /\ At(d, Worker, "returning")
    /\ Faulty
    /\ stop' = Raise(stop, d) /\ wake' = Raise(wake, d)
    /\ round' = [round EXCEPT ![d].completed = FALSE]
    /\ Go(d, Worker, "item")
    /\ UNCHANGED <<queue, lock, life, holds, finished, clients>>

\* Mutant: what failed is not put off.
DeferNothing(d) ==
    /\ At(d, Worker, "defer")
    /\ round[d].failed # <<>>
    /\ round' = [round EXCEPT ![d].failed = Tail(@)]
    /\ UNCHANGED <<queue, control, pc, clients, faults>>

\* _defer_failed_accepted, one row at a time; only an accepted row is put off.
Defer(d) ==
    /\ At(d, Worker, "defer")
    /\ round[d].failed # <<>>
    /\ LET t == Head(round[d].failed) IN
       cooldown' = [cooldown EXCEPT ![t] = IF t \in Accepted THEN "cooling" ELSE @]
    /\ round' = [round EXCEPT ![d].failed = Tail(@)]
    /\ UNCHANGED <<state, control, pc, clients, faults>>

DeferFails(d) ==
    /\ At(d, Worker, "defer")
    /\ round[d].failed # <<>>
    /\ Faulty
    /\ round' = [round EXCEPT ![d].failed = Tail(@), ![d].clean = FALSE]
    /\ UNCHANGED <<queue, control, pc, clients>>

FullBatch(d) == /\ round[d].completed /\ round[d].clean
                /\ ~stop[d]
                /\ round[d].size = PageSize

\* Mutant: the wake-up is cleared before the worker sleeps.
DecideClears(d) ==
    /\ At(d, Worker, "defer")
    /\ round[d].failed = <<>>
    /\ Go(d, Worker, IF stop[d] THEN "finally" ELSE IF FullBatch(d) THEN "top" ELSE "asleep")
    /\ wake' = [wake EXCEPT ![d] = FALSE]
    /\ UNCHANGED <<queue, lock, life, holds, stop, finished, round, clients, faults>>

Decide(d) ==
    /\ At(d, Worker, "defer")
    /\ round[d].failed = <<>>
    /\ Go(d, Worker, IF stop[d] THEN "finally"
                     ELSE IF FullBatch(d) \/ wake[d] THEN "top" ELSE "asleep")
    /\ UNCHANGED <<queue, control, round, clients, faults>>

\* _wake_event.wait: the event, or the scan interval.
WakeUp(d) ==
    /\ At(d, Worker, "asleep")
    /\ Go(d, Worker, "top")
    /\ UNCHANGED <<queue, control, round, clients, faults>>

-----------------------------------------------------------------------------
\* The process dies and its memory with it; the operating system frees its lock.
Crash(d) ==
    /\ life[d] # "dead"
    /\ Faulty
    /\ life' = [life EXCEPT ![d] = "dead"]
    /\ lock' = IF lock = d THEN None ELSE lock
    /\ holds' = [holds EXCEPT ![d] = FALSE]
    /\ stop' = [stop EXCEPT ![d] = FALSE] /\ wake' = [wake EXCEPT ![d] = FALSE]
    /\ finished' = [finished EXCEPT ![d] = Threads]
    /\ pc' = [pc EXCEPT ![d] = [t \in Threads |-> "gone"]]
    /\ round' = [round EXCEPT ![d] = NoRound]
    /\ caller' = [caller EXCEPT ![d] = [c \in Callers |-> NoCall]]
    /\ told' = [told EXCEPT ![d] = {}] /\ owed' = [owed EXCEPT ![d] = {}]
    /\ UNCHANGED queue

Init ==
    /\ state = [t \in Tasks |-> "none"]
    /\ cooldown = [t \in Tasks |-> "never"]
    /\ lock = None
    /\ life = [d \in Dispatchers |-> "new"]
    /\ holds = [d \in Dispatchers |-> FALSE]
    /\ stop = [d \in Dispatchers |-> FALSE]
    /\ wake = [d \in Dispatchers |-> FALSE]
    /\ finished = [d \in Dispatchers |-> Threads]
    /\ pc = [d \in Dispatchers |-> [t \in Threads |-> "none"]]
    /\ round = [d \in Dispatchers |-> NoRound]
    /\ caller = [d \in Dispatchers |-> [c \in Callers |-> NoCall]]
    /\ told = [d \in Dispatchers |-> {}]
    /\ owed = [d \in Dispatchers |-> {}]
    /\ faults = 0

Call(d, c) ==
    \/ StartSetsStop(d, c) \/ StartMarks(d, c)
    \/ Joined(d, c) \/ JoinTimesOut(d, c)
    \/ CallCompletes(d, c) \/ CallReleases(d, c) \/ CallReturns(d, c)

Work(d) ==
    \/ WorkerTop(d) \/ Scan(d) \/ NextItem(d) \/ Permit(d) \/ Begin(d)
    \/ Execute(d) \/ ExecuteRaises(d) \/ ExecuteEnds(d) \/ ReturnPermit(d)
    \/ Defer(d) \/ Decide(d) \/ WakeUp(d)

WorkFails(d) ==
    ScanFails(d) \/ RunRaises(d) \/ ReturnFails(d) \/ DeferFails(d)

EndThread(d, t) ==
    AbortMarks(d, t) \/ ThreadFinishes(d, t) \/ ThreadCompletes(d, t) \/ ThreadReleases(d, t)

Next ==
    \/ \E d \in Dispatchers :
          \/ \E t \in Tasks : Submit(d, t) \/ Announce(d, t)
          \/ \E c \in Callers :
                \/ StartRefused(d, c) \/ StartGateFails(d, c)
                \/ \E started \in Started : StartThreads(d, c, started)
                \/ \E op \in {"stop", "close"} : StopIdle(d, c, op) \/ StopSignals(d, c, op)
                \/ Call(d, c)
          \/ \E t \in Threads : Aborts(d, t) \/ EndThread(d, t)
          \/ \E h \in Helpers : HelperStops(d, h)
          \/ Work(d) \/ WorkFails(d)
          \/ Crash(d)
    \/ \E t \in Tasks : CoolDown(t)

Spec == Init /\ [][Next]_vars

\* Threads and calls run on, a task that was begun ends, the scan interval
\* passes.  Nobody has to submit, announce, start or stop anything.
Fairness ==
    \A d \in Dispatchers :
        /\ WF_vars(Work(d))
        /\ \A t \in Threads : WF_vars(EndThread(d, t))
        /\ \A h \in Helpers : WF_vars(HelperStops(d, h))
        /\ \A c \in Callers : WF_vars(Call(d, c))

FairSpec == Spec /\ Fairness

-----------------------------------------------------------------------------
(* Properties.                                                             *)

\* Every thread, call and row is in a place it can be; a page never exceeds
\* the batch size.
Rounds == [page : Seq(Tasks), size : 0 .. PageSize, completed : BOOLEAN,
           failed : Seq(Tasks), clean : BOOLEAN]

TypeOK ==
    /\ state \in [Tasks -> {"none", "accepted", "running", "ended"}]
    /\ cooldown \in [Tasks -> {"never", "cooling", "over"}]
    /\ lock \in Dispatchers \cup {None}
    /\ life \in [Dispatchers -> Lifecycle \cup {"dead"}]
    /\ {holds, stop, wake} \subseteq [Dispatchers -> BOOLEAN]
    /\ finished \in [Dispatchers -> SUBSET Threads]
    /\ pc \in [Dispatchers -> [Threads -> Looping \cup Gone \cup
                                {"aborting", "finally", "completing", "releasing"}]]
    /\ \A d \in Dispatchers : /\ round[d] \in Rounds
                              /\ Len(round[d].page) <= round[d].size
                              /\ Len(round[d].failed) <= round[d].size
    /\ caller \in [Dispatchers -> [Callers ->
          [op : {"none", "start", "stop", "close"},
           at : {"idle", "failing", "marking", "joining", "completing", "releasing",
                 "returning"},
           threads : SUBSET Threads]]]
    /\ told \in [Dispatchers -> SUBSET Tasks] /\ owed \in [Dispatchers -> SUBSET Tasks]
    /\ faults \in 0 .. MaxFaults

\* However processes start, stop, fail and die, one task is executed at a time.
Executing == {d \in Dispatchers : pc[d][Worker] \in {"executing", "running"}}
OneExecutor == Cardinality(Executing) <= 1

\* "stopped" and "closed" are never false: no thread is still in its loop.
StoppedIsQuiet ==
    \A d \in Dispatchers : Over(d) => \A t \in Threads : pc[d][t] \notin Looping

\* The flag and the file lock agree, and threads in their loops keep it.
LockAgrees ==
    \A d \in Dispatchers :
        /\ holds[d] <=> lock = d
        /\ (\E t \in Threads : pc[d][t] \in Looping) => holds[d]

\* A worker whose last round went well never sleeps on a task it was told of
\* and has not put off: the wake-up is cleared before the scan, not after.
NoLostWakeup ==
    \A d \in Dispatchers :
        (pc[d][Worker] = "asleep" /\ ~wake[d] /\ round[d].completed /\ round[d].clean) =>
            \A t \in told[d] \cap Accepted : cooldown[t] # "never"

\* Tasks begin in the order of their dispatch_sequence; an older one that is
\* still accepted has been put off, or has just failed in the same round.
Begins(d) == pc[d][Worker] = "granted" /\ pc'[d][Worker] = "executing"

InOrder ==
    [][\A d \in Dispatchers : Begins(d) =>
         \A u \in Accepted : u < Current(d) =>
            \/ cooldown[u] # "never"
            \/ \E i \in 1 .. Len(round[d].failed) : round[d].failed[i] = u]_vars

\* Once stop or close has been called, or a thread has aborted, no task begins.
NothingBeginsOnceStopping ==
    [][\A d \in Dispatchers : Begins(d) => life[d] \in {"starting", "running"}]_vars

\* A task that can be claimed is claimed if its dispatcher keeps running,
\* whether or not it was announced and however many poisoned ones are older.
NoStarvation ==
    \A t \in Tasks \ Poison :
        state[t] = "accepted" ~> \/ state[t] # "accepted"
                                 \/ \A d \in Dispatchers : life[d] # "running"

\* A dispatcher told to stop comes to its end and gives the file lock back: by stop or
\* close, also when that timed out, by a thread that aborts, and by its own worker when
\* the limiter refuses the permit, which leaves the lifecycle as it is.
StopEnds ==
    \A d \in Dispatchers :
        stop[d] \/ life[d] = "stopping" ~>
            life[d] \in {"stopped", "closed", "dead"} /\ ~holds[d]
=============================================================================
