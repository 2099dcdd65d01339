# DocSense, specified

DocSense takes documents and requests from an upstream system, runs long
executions over them (analysis of files, reports, "weaponry" extraction), and
sends each result back through an HTTP callback.  Its hard part is not the
language model but the control plane around it: rows in SQLite, threads in
several processes, leases that expire, a callback of which nobody knows whether
it arrived, and a dispatcher that has to stop without losing or doubling work.
Around it stand four protocols of the same kind: the records of the remote
resources an analysis makes, the file chat with its leases, the saga that moves a
document between categories, and the progress that reaches a browser.  These modules specify these parts,
translated from the code under `src/app`; TLC checks them on small instances and
TLAPS proves the central invariants for every value of the constants.

Paths below are relative to `src/app`.

## 1. Inventory

### Components

| Component | Where | State it keeps | Operations | What makes it correct |
|---|---|---|---|---|
| Task store | `services/llm_service/task_service.py` | `llm_tasks` (latest projection of a business key), `llm_task_executions` (one row per execution, ordered by `dispatch_sequence`) | admit one task or a batch, claim, finish, fail a poisoned row, defer, read | one active execution per key; projection and execution agree; a batch is all or nothing; nothing is superseded before it is settled |
| Callback Guard | same file; `modules/*/adapters/callback_guard.py` | `callback_delivery_guards`, the ledger `callback_delivery_attempt_events` | acquire, validate, POST, complete, observe, sweep, release by an operator | one lease at a time, fenced; no automatic retry; a late answer changes nothing; every lease ends; ledger, Guard and rows agree |
| Report, analysis, weaponry executions | `modules/{report,analysis,weaponry}/application` | local variables of a worker thread; artifacts | run, converge on failure, recover a callback | they use store and Guard in the right order |
| Dispatcher | `modules/tasks/adapters/local_persistent_dispatcher.py`, `process_guard.py` | lifecycle, stop and wake-up events, finished events, an OS file lock | dispatch, start, stop, close, scan, defer | one executor; stopped means stopped; no lost wake-up; FIFO; no starvation; a stop ends |
| Execution limiter | `modules/tasks/adapters/execution_limiter.py` | permits, a queue of tickets | acquire (FIFO, cancellable), release | permits conserved, no ghost waiter, FIFO |
| Resource records | `modules/analysis/application/{run_analysis,failure_convergence,recover_resources}.py`, `task_service.py` 4341-4848 | a record per execution: state, ownership of the document, receipt, close, deadlines | plan, advance (compare and set), close, defer, recover | "cleaned" is true; a record gets one verdict; recovery never touches what a live execution uses; every planned close is settled |
| Knowledge index operations | `services/llm_service/knowledge_index_operation_service.py`, `services/core/database.py` | operation rows, collection reservations | begin, transition, detach, resolve an uncertain upload | local rows and the external index converge |
| Chat | `services/chat/**` | session, admission guard, runs, resource leases, cleanup jobs, document bindings | admit, execute, abort, expire, title, delete, clean up | one run at a time and none in a deleted chat; an expired run changes no verdict; no remote resource is lost sight of |
| Reassign saga | `modules/reassign/**` | operation, steps, lease with fencing token, observations | execute, compensate, renew, take over, observe, finalize, isolate | the verdict is true of the local row and both workspaces; every remote effect has a recorded intent; one thread mutates at a time |
| Progress | `services/core/progress_hub.py`, `modules/tasks/application/{progress,progress_delivery}.py`, `modules/tasks/adapters/{in_memory,latest}_progress.py`, `blueprints/llm.py` | the latest event and the subscribers of a key; a bounded queue, a barrier and watermarks per connection | publish, subscribe, read, initial batch, take, close | the hub follows the owner of a key and never goes back; a client's view follows the hub; nothing is left of a closed connection |
| Document processing, translation | `modules/document_processing`, `modules/translation` | capacity tickets, records of runs | convert, translate | capacity respected |
| AnythingLLM client | `integrations/anythingllm` | none | HTTP | (I/O) |
| Web layer, container, config | `container.py`, `blueprints`, `adapters/web` | component order | start, stop, parse, present | start and roll back in order |
| Legacy services, scripts | `services/llm_service/*_service.py`, `scripts` | (shared tables) | superseded | |

### How they interact

A request is admitted by one transaction of the task store and announced to the
dispatcher of its type (a call that only sets an event: the row is the queue).
The dispatcher's single worker scans accepted rows in order, waits for a permit
of the limiter shared by all types, and calls the `execute` of a use case.  That
use case claims the row, works, finishes it, and delivers the callback through
the Guard.  A check-task request of the upstream system may deliver a callback
again, in a web thread of any process; a maintenance thread of the dispatcher
sweeps expired leases; an operator may release a frozen Guard.  Progress is
published on the way and reaches the browser over connections.  Chat, reassign
and the knowledge index have stores and leases of their own.

### What is hard

* Threads of several processes share one database; every method is one
  transaction, but a use case is many, and it may pause or die between any two.
* The POST itself is outside every transaction: time passes between the last
  check and the network, and its outcome may never be known.
* Six paths freeze an expired lease, and each writes four tables.
* Starting, stopping, failing to start, and timing out while stopping overlap,
  in two processes, around one file lock.
* Events that are cleared and set outside the lock; rows that fail before they
  can be claimed and would block the head of the queue.
* Compensation, take-over and recovery of half-done external effects.

Each of these is a line of `PROJECT.json` "hazards", with the properties that
cover it or the module of the plan that will.

## 2. Plan

In this order, the most important behaviour first.

1. `TaskControl` (done): store and Guard, with `TaskControlProofs` (done).
2. `Dispatcher` (done): the kernel and the process lock, with `DispatcherProofs`
   (the lock) and `DispatcherRoundProofs` (the worker's rounds; both done).
3. `Chat` (done): admission, runs, titles, leases, abort, expiry, deletion, with
   `ChatProofs` (done).
4. `Reassign` (done): the saga with compensation and take-over, with
   `ReassignProofs` (done).
5. `AnalysisResources` (done): worker, records and sweep with a crash at every
   step; `ResourceDisposal` (done), the abstract promise of a record, implemented
   by it under a refinement mapping - checked, and proved in
   `AnalysisResourcesProofs` (done).
6. `ProgressDelivery` (done): the hub, its publishers and a connection, with
   `ProgressDeliveryProofs` (the hub) and `ConnectionProofs` (what a client is
   sent; both done).
7. `CallbackDelivery`: the abstract promise of the Guard - per key, a sequence
   of deliveries each decided at most once - with `TaskControl` as its
   implementation.
8. `KnowledgeIndex`: attach, detach, uncertain uploads.
9. `ExecutionLimiter`: the FIFO tickets, and its composition with `Dispatcher`.

How they relate: `TaskControl` and `Dispatcher` meet in the rows of
`llm_task_executions`, each with the part of a row it writes.  An execution of
`AnalysisResources` is one claimed row of `TaskControl`, of which it keeps what
its code asks (still the latest, ended).  `Chat` and `Reassign` share nothing
with them but the AnythingLLM workspaces, and each keeps its own.

Runs stay small enough for a few minutes each: two keys or one, two or three
executions or runs, two processes, one crash.

## 3. `TaskControl`: admission, execution, callback

One action per transaction (`BEGIN IMMEDIATE` serializes writers), plus one per
step of a thread outside the database (the POST, dying).

| State | Code |
|---|---|
| `execution` | `llm_task_executions`: `execution_state`, key, `callback_status` |
| `task` | `llm_tasks`: latest execution of a key, public status as active/terminal, `callback_status`, `callback_attempts` |
| `guard` | `callback_delivery_guards`: state, owner, fencing version, whether the deadline has passed |
| `events` | `callback_delivery_attempt_events` |
| `lastSeq` | `MAX(dispatch_sequence)` |
| `sender` | a thread that delivers: the worker of an execution, or a check-task request |
| `candidates` | what the sweep has read and not yet frozen |
| `lastPosted` | history: what the receiver got last of a key |

| Action | Code (`task_service.py` unless named) |
|---|---|
| `SubmitTask`, `SubmitBatch`, `SubmitFreezes` | `create_task_execution_if_allowed`, `create_analysis_batch_if_allowed`, and the freeze they perform when refused |
| `Claim`, `Finish`, `FailPoisoned`, `CheckLatest` | `claim_task_execution`, `finish_task_execution_if_current`, `fail_accepted_analysis_task_execution_if_current`, `is_task_execution_latest` |
| `LoadRecoverable` | `modules/analysis/application/recover_callback.py`, the merge of concurrent requests of one process included |
| `Acquire`, `AcquireFreezes`, `AcquireRefused` | `acquire_callback_delivery_guard` |
| `Validate`, `ValidateFails`, `Post` | `validate_callback_delivery_guard` and `deliver` of the adapters |
| `Complete` | `complete_callback_delivery_guard` |
| `SweepRead`, `SweepWrite` | the two transactions of `freeze_expired_callback_delivery_guards` |
| `Release` | `release_frozen_callback_delivery_guard`, with its precondition that the old worker has stopped |
| `Expire`, `Die` | time; a crash or an unhandled error of a thread |

Abstractions: an execution is its dispatch sequence; a lease token is the lease
version (fresh UUIDs never collide); deadlines are a flag time may raise at any
moment, so that a reader with an older clock is a step before the flag; public
statuses are active or terminal; payloads, progress, texts and the
audit rows of operator releases are left out.

**A wait that is never entered.**  `recover_callback.py` 162-185 waits for the
holder of a busy Guard.  The model first had this wait, and its actions never
fired: a request compares the attempt count it read (`task_service.py`
2959-2966) before the Guard is looked at, and whoever holds the Guard has raised
that count.  So a request is told *stale*, never *busy*.  `NobodyWaits` states
this, and the theorem `RequestsNeverWait` proves it; `AcquireRefused` covers the
refusal.

### Runs

| Run | Instance | What it shows |
|---|---|---|
| `control_report` | one non-file key, 2 executions, 1 request, 2 attempts, three outcomes; 1.06 million states | rows and Guard agree (`RowsAgree`), so does the ledger; no automatic retry; lost leases stay fenced off |
| `control_requests` | one key, one execution, three attempts, two requests in two processes, four outcomes, fair threads; 167 thousand states | racing requests end in one delivery and never wait; only expired leases are frozen; leases and executions end (`NothingHangs`) |
| `control_file` | two file keys that are alike, batches of one and two, and a report key, 3 executions, a definite and an unknown failure, no requests; 5.0 million states | admission never contradicts its conditional write; only settled keys are superseded; without check-task the receiver gets results in order |
| `control_late` | one key, one request; **violated** | with check-task the order breaks (finding below) |

Bounds: two executions of a key are what it takes to supersede; with three the
second is superseded as well.  Three attempts are a delivery and its retry by
either request, or three retries of an execution that failed before it was
claimed.  Batches of two show all-or-none.  Without check-task nothing tells
*success* or *skipped* from *rejected*, all three settled, so `control_file` has
one of them.  `MaxAttempts` and `MaxExecs` bound the guards of actions; no proof
depends on their values.

Fairness (`Fairness`): the dispatcher scans periodically and its worker runs on
(`RunExecution`, and `Deliver` for a thread that has not died), time passes
(`Expire`), and the sweep is a maintenance loop of the dispatcher with a fixed
delay (`SweepRead`, `SweepWrite`).  Clients, operators and failures are not
fair.  A thread may die at any step, so a leased callback may stay unsent; that
every lease ends nevertheless (`LeaseEnds`) is the work of the sweep.  An execution
whose worker dies between claim and finish stays `running`: the code repairs it
nowhere, and `NothingHangs` exempts it.

Deadlock checking is off: with every execution admitted and delivered, nothing
is left to do.

### Finding: the order of results under check-task

`callback_guard.py` 217-220 explains that a worker paused between its check and
its POST is harmless because the release command demands that it has stopped.
The explicit retry of check-task reopens the same Guard without that demand
(`task_service.py` 3013-3020).  `control_late` shows the receiver getting the
older result last; `FencedSenders` (which holds) states precisely what is left:
of two threads in a delivery the older one has lost its lease, and only a
check-task request can have let the newer one in.

### What is proved

The first part of `TaskControlProofs` proves eleven theorems of `Spec`, for any keys, file keys,
requests, processes, bounds and outcomes that satisfy `ControlAssumption`: the
inductive invariant, `TypeOK`, `RowsAgree` and its parts `ProjectionAgrees` and
`GuardAgrees`, `AdmissionNeverRaises`, `NobodyWaits`, `NoAutomaticRetry`, and the action
properties `FreezeOnlyExpired`, `SupersededOnlyWhenSettled` and
`DeliveredIsFinal` (proved only: no run checks it).

The argument.  `ProjectionAgrees` and `GuardAgrees` say what a reader cares
about; they are not inductive.  `IInv` adds `RowShape` (rows beyond `lastSeq`
are blank and no owner lies beyond it, rows up to it are admitted) and
`ThreadShape` (a thread that is not idle delivers an admitted execution, a
worker its own).  `IInv` is preserved action by action, each proof split by the
conjunct an action can disturb.  Three theorems need more on top of it:
`FileFrozen` for admission (a file key whose callback is unknown still has its
Guard frozen, because the release is not offered for files), `RetryInv` for
`NoAutomaticRetry` (what an authorization in the ledger says of the execution it
names), and `Snapshots` for `NobodyWaits` (what a request has read is never
above the count in the row, and while another holds the Guard it is below).

Its second part goes on from there to what the audit records and whom the
fencing version keeps out.  Its proofs first sort the steps by what they do to
the Guards and the audit (`StepKind`: a freeze of expired leases, an acquisition,
a completion, an operator's step, or nothing), state the effect of each kind once,
and then treat an invariant kind by kind.

* `SnapshotsDeliverOnce` (`OneDeliveryPerSnapshot`).  Two authorizations of one
  snapshot are excluded because an acquisition raises the attempts of the row
  above the snapshot it came with (`Spent`).
* `SendersFenced` (`FencedSenders`).  Not inductive by itself: a thread must be
  known not to be ahead of its Guard, and a Guard that is idle again under a
  thread in a delivery must have been reopened by a request (`Fenced`, `Ordered`).
  The induction shows that two deliveries of one key never share a version.
* `LedgerKept` (`LedgerAgrees`).  `LeaseInv` says that versions number the
  authorizations of a key (`Numbered`), that a Guard in sending belongs to one of
  them (`HasLease`) and that each is closed exactly when its lease is no longer in
  use (`Booked`); `CountInv` carries the cardinality along, one element at a time.
* `OnlyRequestsReorder`.  Stated for the specification as it is, with requests: a
  step that posts an older execution after a newer one happens only for a key that
  a check-task request has delivered.  `PostInv` bounds what was posted by the
  owner of the key.  This is the exact extent of the finding above.
* `NewestLastWithoutRequests` (`NewestPostedLast`), its corollary for
  `Recoverers = {}`, which is what `control_file` instantiates.  With requests the
  property is false, and `control_late` is the counterexample.

TLC only: liveness, which the prover cannot reach.

## 4. `Dispatcher`: the kernel and its lock

One instance per process, a set of helpers (maintenance loops and the queue
inspector behave alike: they only wait for the stop event), and one caller
thread per process.  A section under `_state_lock` is one action and so is one
database call; the events `_stop_event` and `_wake_event` and the `*_finished`
events are read and set outside the lock, by actions of their own.

| State | Code |
|---|---|
| `state`, `cooldown` | `execution_state` and `next_dispatch_at` of the rows |
| `lock`, `holds` | the file lock of `process_guard.py`, `_guard_acquired` |
| `life`, `stop`, `wake`, `finished` | `_lifecycle_state`, `_stop_event`, `_wake_event`, the finished events |
| `pc`, `round` | where each thread is; the locals of `_scan_accepted_once` |
| `caller` | a call of `start`, `stop` or `close` in progress |
| `told`, `owed` | history: announced tasks; tasks whose announcement is to come |

`Submit`/`Announce` are the commit and the later wake-up; `Start*` the body of
`start` and its except clause; `Stop*`, `Joined`, `JoinTimesOut`, `CallReturns`
are `stop` and `close`; `MarkStopped` and `ReleaseLock` the two locked sections
of `_complete_stop_if_finished`, run by callers and by ending threads; the rest
is the worker's loop, helpers ending, threads aborting, and a crash of the
process, which frees the lock.

| Run | Instance | What it shows |
|---|---|---|
| `dispatch_processes` | 2 processes, 1 helper, 1 task, 1 fault; 1.9 million states | one executor, stopped is quiet, nothing begins once stopping |
| `dispatch_worker` | 1 process, 3 tasks of which 2 poisoned, pages of 2, 1 fault; 749 thousand states | order, no lost wake-up, no starvation; whoever is told to stop ends and gives the lock back (`StopEnds`), also a dispatcher that stops itself because the limiter refuses its permit, which leaves the lifecycle `running` until the last thread ends |
| `dispatch_restart` | 2 processes, `start` also called while stopping; **violated** | the finding below |

Bounds: two processes compete for a lock; the one fault is any failure at any
point (a gate that raises, a thread that cannot start, an abort, a database call,
a refused permit, a crash), and its consequences follow from it; two faults have
been checked too (4.0 million states) and show nothing else.  Two poisoned
rows fill a page of two, the case in which starvation would happen.  A single
caller per process: the container calls start, stop and close one after another.

Assumptions.  A cooldown ends only while a worker sleeps or runs a task (it
outlasts one burst of scans; a shorter one could starve the queue).  A join
times out only on a thread that is still in its loop, not on the few statements
after it.  The limiter grants its permit eventually.  Fairness: threads and
calls run on, an execution ends, the scan interval passes; nobody has to submit,
announce, start or stop.  Deadlock checking is off, since a closed dispatcher
may rest.

Not modelled: counters, snapshots, queue inspection, the fork check, failure of
the lock's own release (903-918: the handle is given up in any case).

### Finding: starting what is still stopping

`start` refuses a stopping dispatcher by raising inside its `try`
(`local_persistent_dispatcher.py` 369-376).  The except clause (422-431) is
written for a start that failed half-way: it marks every thread that this call
did not start as finished, which here is every thread of the earlier start, alive
as they are.  `_complete_stop_if_finished` then calls the dispatcher stopped and
releases the file lock while its worker still executes, and another process may
start its own.  `dispatch_restart` finds this in nine states.  The rollback of
`container.py` 813-835 followed by another call of `start_background_services`
is the sequence that leads there.  `dispatch_processes` shows that everything
holds when `start` is called on new, stopped and closed dispatchers only.

### What is proved

`DispatcherProofs` is about the lock.  The three properties of `dispatch_processes`, and `LockAgrees` (the flag and the file
lock agree, looping threads keep the lock; no run checks it), are theorems for any number of processes, helpers, tasks, failures and crashes, under the hypothesis `OneCaller`:
one thread of a process calls `start`, `stop` and `close`, and `start` is called on
new, stopped and closed dispatchers only.  Without the second half they are false
(the finding above); the first half is how the container uses a dispatcher.

None of them is inductive.  `IInv` adds, for each process by itself, what the code
relies on between two sections under `_state_lock`:

* a thread is *quiet* if it has set its finished event or does not exist; every
  other one keeps the file lock (`Guarded`), and only quiet ones have their event
  set (`Marked`);
* a dispatcher that is new, over or dead has quiet threads only (`Resting`);
* a start that fails knows every thread it has begun (`Starting`), a stop waits for
  every thread there was and returns "closed" when none is left (`Stopping`);
* who is about to release the lock has seen every event set (`Releasing`);
* the stop event is set before the lifecycle changes (`Signalled`), which is what
  `Begin` relies on when it asks the event and not the lifecycle.

Processes interact through the lock alone, so a step of one leaves the invariant
of another as it is (`Elsewhere`), and all steps of a worker are instances of one
lemma (`Onward`).  `OneExecutor` follows since an executing worker has the lock.

`DispatcherRoundProofs` is about the rows, and proves `TypeOK`, `NoLostWakeup` and
the action property `InOrder` for any processes, callers, helpers, tasks, page
sizes and faults.  It does not need `OneCaller`: a worker's round is right
whatever the calls around it do, and two workers at once would still each be.  The
page of a round is stated by what the query promises (`Pages`: an ascending
sequence of ready rows, of no more than `PageSize`, which leaves a row out only if
the page is full of earlier ones), not by how SQLite finds it; there is always
exactly one.

`RInv` adds, for each process by itself:

* `Loaded`: a worker at a row has one, and sleeps with an empty page; every row of
  a page was committed;
* `Behind`: no fresh task (accepted and never put off) is older than a row still
  to run and unknown to the round - it is in the page or among the failed, since
  rows are committed in ascending order (`Prefix`); `InOrder` is this at the moment
  a row is begun;
* `Rested`: a worker in its loop whose round went well, read all there was, and was
  not woken since, has left no fresh task it was told of.  This is
  `NoLostWakeup` with what it rests on at every earlier place of the round: the
  event is cleared *before* the query, so an announcement after the clearing sets
  it again, and one before it is in the page;
* `Known`: nothing is announced before it is committed.

TLC only: liveness (`NoStarvation`, `StopEnds`).

## 5. `Chat`: one conversation

A run, a title request and a deletion request are threads of the web process; an
abort comes from anywhere.  One action is one `BEGIN IMMEDIATE` transaction, or
one remote call.  A request that is refused rolls back and is no action.

| State | Code (`services/chat`) |
|---|---|
| `session`, `refs` | `chat_sessions`: status, workspace and thread reference |
| `guard` | `chat_admission_guards` |
| `run` | `chat_runs` with its user message, its answer and terminal event |
| `lease` | `chat_resource_leases`: status, and the run that planned it |
| `job` | `chat_cleanup_jobs` of the deletion and of each title |
| `bound` | `chat_document_bindings` |
| `remote` | workspaces, threads, documents AnythingLLM reported, each with its maker |
| `pc`, `fresh`, `todo` | the locals of the request threads |

| Actions | Code |
|---|---|
| `Reserve`, `Refuse`, `Accept`, `CloseEarly`, `Start` | `locking/lock_service.py` and the route `llm_chat` |
| `Enter` ... `UpdateRefs` | `application/run_executor.py`: validate the lease, read the session, plan, open, activate, store references |
| `ReadBindings` ... `ActivateDocument` | `_attach_new_documents` |
| `Emit`, `EndStream`, `Succeed`, `Fail`, `StopRun` | `ChatRunEventRecorder`, `_finish_run_with_user` |
| `RequestAbort`, `AbortExpire`, `Stall`, `GuardLapses` | abort, expiry of stale runs, time |
| `Title*` | `title_service.py`, `cleanup_service.py` |
| `BeginDeletion` ... `MarkError` | `delete_service.py`, `cleanup_service.py`, `begin_chat_deletion` |

Abstractions: a failed remote call leaves nothing it did not report; history,
scope revisions and the choice of documents are any subset of `Docs`; a loop of
one transaction per lease is one action, except in `Blame`, whose list may be out
of date when it is worked off.

| Run | Instance | What it shows |
|---|---|---|
| `chat` | two runs of which one may stall while alive, a title, a thread that deletes as often as it is asked, a document, one crash; 6.2 million states | `OneAtATime`, `VerdictFinal`, `ReferencesHold`, `NothingForgotten`, `Attended` |

Bounds: two runs are what it takes for one to be expired and replaced by the
other, which finds the leases and references the first one left.  A deletion
that failed is repeated.  No liveness is stated; `Attended` is what there is of
it as a safety property: nothing waits for a thread that has gone.

### What is proved

`ChatProofs`, for any runs, titles, deletions, documents and slow runs, with and
without a crash: all five properties of the run (`TypeOK`, `OneAtATime`,
`ReferencesHold`, `NothingForgotten`, `Attended`) and the action property
`VerdictFinal`.  Assumed of the constants is that they name different things
(`ChatAssumption`: a thread, a document and a resource are not each other).

The argument.  Only `OneAtATime` is nearly inductive.  `IInv` says of each thread
what it relies on while others go on:

* `RunPlaced`: a run past its admission is active, or has been expired as stale and
  is the only kind of run that goes on without being active;
* `RunOwns`: whoever has planned the workspace owns the lease until it has opened
  or failed, the session has no references meanwhile, and what it has not opened
  does not exist - which is why there is one workspace at most;
* `RunKnows` (while the chat is live): what a run has opened is still there and its
  leases are active, up to the moment it stores them as references.  A deletion
  does disturb it, and from then on nothing is claimed of what the run knows;
* `TitleInv`: a title's thread is its own, and a lease is closed only when it is gone;
* `DeletionInv`: one deletion at a time, by the status of the session; it works on
  resources it can name only if there were references; when it has cleaned up,
  what is left belongs to expired runs (`OnlyExpired`);
* `LeaseInv`, `RemoteInv`, `LiveInv`: planner, status and existence of a resource
  in relation to each other, whoever wrote them.

A step moves one thread and writes what it owns; a lemma per kind of step says what
the other threads may keep relying on, so each action is checked once for itself and
once as a disturbance.  `Attended` says of the runs what `RunPlaced` says; that a thread which died means a
crash, and that a session is `deleting` only while its deletion goes on or has
failed to mark it, is followed from step to step (`GoesOn`).

### Disagreements with the documentation

The properties are stated so that they hold; these four readings of the code are
what they had to be weakened by.

* A run that fails before it has stored references, or dies there, leaves leases
  that carry its `run_id`.  `_reject_identity_conflict` then refuses every later
  run of the chat, and a deletion that finds open leases and no references fails
  each time.  `docs/接口文档/文件对话.md` 80-81 has the next round
  go on with the last admitted scope when a remote execution fails or is aborted.
* A crash during a deletion leaves the session `deleting`: the start of the
  process takes up no deletion.  A crash during a title leaves a `planned` or
  `active` lease, which blocks deletions (ibid. 387).
* `_mark_session_cleanup_error` lists the leases and then fails them one by one.
  A lease closed in between makes `record_cleanup_failure` raise, and the session
  stays `deleting` (the last case of `Attended`).
* A run expired as stale that comes back can make a workspace for a chat that has
  been deleted meanwhile (the last conjunct of `NothingForgotten`).

## 6. `Reassign`: the saga and its recovery

One action is one unit of work of `sqlite_repository.py`, or one call of the
knowledge port with the probe that ends it.  `Attempt` is the shape of every unit
of work: it commits and is acknowledged, commits and looks failed, or does not
commit.

| State | Code (`modules/reassign`) |
|---|---|
| `op`, `step`, `tried`, `observer` | `reassign_operations`, `reassign_steps`, the latest recovery observation |
| `lease` | owner, the threads whose lease copy is the row's, expired |
| `row` | `documents.architecture_id`: source, target, other |
| `member`, `workspace` | the document in the remote workspaces; the target workspace |
| `at`, `late` | where a thread is with what it has read; threads whose remote budget is spent |
| `scene` | what the operation started from |

The request's actions follow `application/service.py`: reserve, promote, claim,
renew before each step, prepare, detach, attach, commit, reconcile, compensate.
The recoverer's follow the recovery modules: take over, observe, settle forward
steps, reconcile checkpoints, decide, compensate, finalize, verify, isolate.
`out` is a thread that answered that recovery is required, or died; a recoverer
that is out may begin again.  The lease expires at any time and outlasts the
budget of the remote calls, so a thread is `late` from then on: its calls have no
effect any more.  The port mutates before it probes
(`anythingllm_knowledge.py` 516-637), so a mutation takes effect before the port
returns or never.

Abstractions: the claims other operations hold on the target category (busy or
not); the best-effort pin; audit events; workspaces made are never deleted.

| Run | Instance | What it shows |
|---|---|---|
| `saga` | a request, a recoverer that may die and come back, five scenes, an outside writer of the row; 5.2 million states | `VerdictHolds` (verdict true, answer equal to it), `EffectRecorded` (effects known, nothing open once settled), `OneMutator` |

Bounds: one scene per way through the code (no document path, a workspace to be
made, with the document in its source workspace or not, one found, one mapped
and there, one mapped and gone).  One recoverer that returns after each death
takes the lease over from the request and from its former self.

No liveness is claimed, and the code gives none: an unknown undo whose target is
still present, or a document that was not in its mapped source workspace before
a detach, stays for a person.

### Disagreements with the documentation

* `renew_lease` promises that an expired owner does not regain the right to write
  (`sqlite_repository.py` 1839).  In `_compensate_confirmed_forward_effects`
  (`service.py` 1265) a request that was evicted reads the operation again and
  adopts the recoverer's lease; it can move and renew it and so evict the
  recoverer, whose begun `undoSource` ends unknown and stays so.  `OneMutator` and
  `VerdictHolds` show that no wrong verdict comes of it.
* Compensation attaches the document to its source workspace even if it was not
  there before; `VerdictHolds` therefore demands it there.

### What is proved

`ReassignProofs`, for any number of recoverers, any scenes, and with or without
outside writers of the row: all four properties of the run, `TypeOK`,
`VerdictHolds`, `EffectRecorded` and `OneMutator`.  What is assumed of the constants
is what the code establishes before it reserves (`ReassignAssumption`: a source or a
mapping only for a document with a path, a member only where there is a source).

None of them is inductive.  `IInv` consists of

* `LeaseInv`: who is late follows from the lease - nobody before it has expired,
  everybody when it has, all but the owner after a takeover; only the request ever
  joins a lease that is not its own;
* `StepInv`, `MemberInv`, `RowInv`: an undo is begun only after the mutations of the
  way forward are resolved; a document is where the steps say it may be;
* `RequestInv`: where the request is, what it still has to do, and, while the lease
  is its own, that what its steps call done is so.  On its way back it may have
  adopted the lease of a recoverer (the first disagreement above); what saves it
  then is that it must have *renewed* that lease, and so evicted everybody else,
  before it begins a mutation (`RequestHolds`), and that the recoverer it evicts
  finds the steps resolved;
* `RecovererInv`: a recoverer in time relies on what it has *seen* of the document
  (`LookHolds`, `Needed`) and, if it also holds the row's lease, on nobody else having a
  step of the way back open (`Alone`); before it decides anything the steps of the
  way forward are resolved (`Resolved`);
* `SettledInv`: `VerdictHolds` and `SettledMeansResolved`, and what they need of the
  future: nobody in time is at a mutation once the operation has succeeded or
  failed (`Calm`; once compensated, a request may be at the repetition of an undo,
  which changes nothing), and a request that settled the operation itself can only go
  to its answer (`Answering`).

The proof is by rely and guarantee.  `Undisturbed(r)` is what a recoverer needs of a
step of another thread, `Bystander` what the request needs; a step of the document
is one of a few kinds (`Rests`, `Extends`, `Adopts`, `Seizes`, `Writes`, `Settles`,
`Effects`), each of which is shown once to give both and to keep the shared parts.
An action is then a kind of step plus the acting thread's own invariant at the place
it goes to.  The invariant itself was checked by TLC on the run's instance before it
was proved.

No liveness is claimed, so nothing of `Reassign` is left to TLC alone.

## 7. `AnalysisResources`: records of what exists remotely

The worker of an execution opens an AnythingLLM session, uploads a document,
asks the model, offers the document to the knowledge base, and closes the
session; before or after each it writes its record.  A sweep of the same process
settles the records nobody works on any more.

| State | Code |
|---|---|
| `row`, `waiting` | `analysis_resource_records`: state, version, ownership, receipt, close, deadline, tries; `next_recovery_at` |
| `at` | the worker's place and its `_RagWorkflowState` |
| `mine` | the lifecycle's copy of its record |
| `active` | `InMemoryAnalysisResourceActivityAdapter` |
| `sweep` | the sweep's stage with an execution, and the copy it acts on |
| `session`, `document` | the remote side |
| `task` | of the execution: running, superseded, over |
| `expired` | how many of the deadlines it has set have passed |

`Save` is `AnalysisResourceLifecycle._advance`: a compare-and-set by state and
version, which may fail and then has no effect.  Every remote call has each
outcome its adapter can return, among them "unknown", which may have done
either.  `Decide` is what the sweep makes of a copy it has read; it acts on that
copy later, while worker, time and crash go on.

`ResourceDisposal` is what a record promises, in five actions: one verdict;
nothing remote is touched after it; *cleaned* only when the session is closed and
no temporary document is left; a document the knowledge base took over is not
deleted.  Its `verdict` is the settled state of the record, its remote side the
remote side (`ImplementsDisposal`).

| Run | Instance | What it shows |
|---|---|---|
| `records` | one execution, two deferrals, three failing writes, a crash at any step; 30 thousand states | `WorkerUndisturbed`, `ImplementsDisposal`, `Settles` |

Bounds: nothing but the order of the sweep joins one execution to another, and the
theorems below hold for any number.  Three failing writes are one on the way,
one in the convergence and one in the close.

Fairness: worker, sweep, deadlines and retry times go on.  Nothing makes an audit
succeed, so *settled* may mean quarantined.  A record still `tracking` whose
process died keeps that state as long as its execution is `running`: the code
only reports such executions.

Abstractions: the model calls are one; `document.state`, `append.state` and the
close events follow from the fields kept; a close that is known not to have been
applied, payloads that cannot be decoded, older schemas, the limit of a sweep
and local files are left out; the interaction audit and its receipt are one step;
failing local writes are bounded by `MaxFaults`, failing audits of the sweep are
not.  The refusals of `PrepareClose` over ownership or state never happen: they
are defensive.

### What is proved

`AnalysisResourcesProofs`, for any executions, deferrals and failing writes:
`Spec => []TypeOK`, `Spec => []WorkerUndisturbed`, and the refinement,
`Spec => ImplementsDisposal`.

The argument.  `WorkerUndisturbed` is not inductive: the sweep may hold a copy
that it read before the worker began to close.  `Owned` says whose record it is
at every place of worker and sweep - in particular that a sweep which has decided
to write has a worker that is done.  For the refinement, `RemoteAt` says place by
place what a worker knows of session and document (what it has not opened is not
there; whoever may close has no document of the knowledge base in hand without
retaining it), `RecordAt` how far its record is (never settled while it may still
call), and `Truthful` that a record or a kept copy with a confirmed close is
right, since the sweep cleans on the strength of its copy.  Three shapes of a
worker's step (`SaveStep`, `LocalStep`, `CallStep`) and two of the sweep's
(`SweepGoesOn`, `SweepWrites`) reduce each action to what must be true of the
places and records it leads to.

TLC only: `Settles`, which is liveness.

## 8. `ProgressDelivery`: from an execution to the browser

An execution is admitted by the store and becomes the owner of its key.  Its
submitter publishes "accepted" once, its worker everything else; a connection
subscribes, reads what there is, and sends.

| State | Code |
|---|---|
| `execs`, `owner` | the store: executions in the order of admission, the latest of a key |
| `latest`, `lock`, `subscribed` | `LLMProgressHub`: `_latest`, the publication lock of a key, the keys this connection subscribes |
| `pub` | a publishing thread: between guard and commit, about to call the subscriber, and how often it has yet to publish |
| `buf` | `ProgressDeliveryBuffer`: queue, pending, watermarks, the barrier; `dropped` keeps the events the code only counts |
| `conn` | the thread of `llm_progress` with its request, what it has read and has to send, and the registry's tokens; while it releases, the tokens still to be tried in this attempt (`trying`), the attempt, and, of each key, the releases that raised (`refused`) |
| `shown` | what the client was sent last of each key |
| `seen`, `overtaken`, `failed` | history, see below |

| Action | Code |
|---|---|
| `Admit` | `create_task_execution_if_allowed`, as far as ownership goes; a report or weaponry key may be admitted again before the last publication of its worker |
| `Guard` (`Refused`, `Raises`, `Allowed`), `Commit`, `Call` | `LLMProgressHub.publish` with `InMemoryProgressAdapter` and `LatestTaskProgressPublisherAdapter` |
| `Flush`, `Send`, `Poll`, `Ask`, `Disconnect`, `SendFails` | the loop of `blueprints/llm.py` 715-835 |
| `Subscribe`, `Subscribed`, `ReadHub`, `ReadTask`, `SubscribeFails`, `Rollback`, `RolledBack` | `ProgressSubscriptionService.subscribe` and `_rollback_added`; a subscription whose release raises goes into `ProgressSubscriptionRollbackError` and from there to `registry.retain` |
| `Register`, `Complete` | `register_result`, `complete_initial_delivery` |
| `Close`, `Release`, `Retry`, `Leave` | `ProgressConnectionRegistry.close_and_release`: every token is tried, whatever becomes of the others; those whose release raises stay for the next attempt, and after the last one are logged as remaining |

A publication holds its key's lock from the guard to the commit.  The guard asks
the store, which knows nothing of that lock, so the owner may change in between;
the calls of subscribers come after every lock and in any order.

| Run | Instance | What it shows |
|---|---|---|
| `progress` | two executions, of one key or of two, a submitter and a worker of each, two requests of one key or both, capacity one or two, every failure of a read, a send and a release, two attempts at releasing; 8.8 million states | `HubFollowsOwner`, `HubForward`, `SentForward`, `Converges`, `NothingLeft` |
| `progress_files` | one key whose submitter announces nothing; **violated** | the finding below |

Bounds: two executions are what it takes for one to replace the other at every
stage (hub, subscriber call, pending, queue, read).  A submitter and a worker that
publish once each race for one key, and two keys with capacity one overflow the
buffer.  Two attempts at releasing (the code makes three) are one that fails and
one that finds part of the work done; the proofs hold for any number.  A client that asks again for a key reads it again, possibly with another
execution in between.  Deadlock checking is off: a client may go.

Two of the properties leave a case out, and say so.  The buffer compares
numbers within one execution only and leaves the order of executions to the
hub; when an older execution's event is *handed to the connection after* a newer
one's (`overtaken`), it is sent after it.  `finish_initial_batch` promises that
notifications of another TaskId are discarded
(`progress_delivery.py` 135-137); the code discards those queued before the
barrier and keeps those behind it (180-190), rightly, since they may be newer.  An
execution whose guard query raised for its "accepted" (`failed`) stays out of the
hub: every later progress of it is refused, as `HubFollowsOwner` concedes.

Abstractions: one process and one connection, since the hub calls each subscriber
by itself; an event is its key, execution and number, without text; a late
"accepted" of a submitter gets a number after its worker's and is shown with its
own text, which may be progress 0 after the end (stated, not judged).  A release
that raises leaves the subscription where it was; nothing makes a release
succeed, so the connection may go with subscriptions left, and `NothingLeft` says
which: those the registry still holds and `llm_progress` logs, each refused at
every attempt.  The order of the tokens is left open.  Left out: legacy
subscribers, messages that cannot be parsed, and an exception of the release that
is no `ProgressSubscriptionReleaseError`, on which `close_and_release` gives up at once.

### Finding: the progress of a file that is analysed again

Only a publication with state "accepted" may take a key over from another
execution (`in_memory_progress.py` 123).  Reports and weaponry publish one;
the file analysis has no progress publisher at submission.  The hub never forgets
a key, so when a file is submitted again in the same process every progress of its
new execution is refused, and clients go on seeing the last progress of the old
one.  `progress_files` finds this in 38 states.

### What is proved

`ProgressDeliveryProofs`, for any keys, executions, publications, requests and
capacities: `HubForward`; `HubFollowsOwner`, where every submitter announces
(`Announcing = Keys`: without it the finding refutes it); and `NothingLeft`.

`HubInv` ties a publication between guard and commit to the lock of
its key: the hub is where the guard saw it, hence no newer than what is about to
be committed, though the store may have gone on (`Committing`); and the hub is
never ahead of the store (`Behind`).  `HubFollowsOwner` adds `Announced`: once the
submitter of a key's owner is through, the hub shows the owner, and no later commit
of the key can be of another execution, being bounded by the hub below and by the
owner above.  `ConnInv` follows the subscriptions to their release, on every path
and whichever release raises: the hub calls this connection for the keys of
`added` and `tokens` and no others, a rollback that fails moving a key from one to
the other (`Holding`); at attempt *n* of the close a token not yet tried was
refused *n* - 1 times, one already tried *n* times, and no attempt is beyond the
last (`Releasing`); a closed buffer takes nothing in (`Shut`).  `NothingLeft` is
what these say of a connection that is gone.

`ConnectionProofs` proves, under the same assumptions, what the client gets: `TypeOK`,
`SentForward` and `Converges`.  It rests on what the loops of the buffer compute.
`Keep` and `OfferAll`, the loops of `finish_initial_batch` and of the queue, are
recursive functions over the position in the queue; `NatSet`, an induction over a
set of numbers taken from the library's facts about well-founded relations, gives
their values (`KeepLoop`, `OfferLoop`), and from there that filtering keeps the
order and that a property of every offer is one of all of them.

The invariants, each a conjunct of the next argument:

* `ShapeInv` (types).  The numbers of an execution are bounded by the publications
  its two threads still have (`NumberInv`); a connection reads as many keys as it
  has asked for, sends what it read, and has a barrier exactly while it does
  (`ConnShape`); the queues have one entry a key within the capacity (`BufShape`).
* `KnownInv`.  Whatever the connection holds of a key was published (`Published`:
  the hub has not gone behind it) or made from the store, and is of an execution
  no newer than one it was handed (`Had`).  This is what lets the next event of the
  hub be ahead of everything in the connection.
* `OrderInv` (`SentForward`).  There is one foremost event of a key, the last
  reading while it is being sent and the watermark otherwise (`Top`), ahead of
  what is about to be sent, ahead of what has been; readings follow the watermark
  and each other; and a reading of the store, of number 0, comes only where nothing
  published has passed (`Unpublished`).
* `SubscriptionInv`.  The hub calls for the keys of `tokens` and `added`, and no
  others.  A buffer with one entry a key drops one only when these are more than
  fit (`Fits`): the second half of `Converges`.
* `ReachInv` (`Converges`).  The latest event of a followed key is on its way
  (about to be handed over, behind the barrier, or dropped), or is the last
  reading or the watermark; and a watermark is in the queue, or has been sent, or
  was dropped (`Kept`).  When all is quiet only the last two are left.

`ReachInv` was checked on instances with up to three executions before it was
proved, and this corrected the model: `dropped` has to keep the *newest* event
dropped of a key.  Keeping the last one dropped, as it first did, made `Converges`
false when two keys overflow a buffer of one while an older execution still reports.

TLC only: liveness, which the prover cannot reach.

## 9. Not modelled yet, and not to be modelled

Planned: see section 2.  Left out for good: the AnythingLLM client, translation
engines, document converters, presenters and request parsing (I/O and text, with
no protocol of their own), operator scripts, and the superseded services.

Out of the prover's reach: liveness under fairness (`NothingHangs`,
`NoStarvation`, `StopEnds`, `Settles`) and ENABLED.  Every other property of a
passing run is proved for all values of the constants.

## 10. Running it

    tlc -workers 2 -config MCTaskControl_report.cfg MCTaskControl
    tlapm TaskControlProofs.tla
    tlapm DispatcherProofs.tla
    tlapm DispatcherRoundProofs.tla
    tlapm ChatProofs.tla
    tlapm ReassignProofs.tla
    tlapm AnalysisResourcesProofs.tla
    tlapm ProgressDeliveryProofs.tla
    tlapm ConnectionProofs.tla

`PROJECT.json` lists the runs, the lines each definition models, a mutant per
property that the property must catch, the hazards and the theorems.
