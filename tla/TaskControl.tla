----------------------------- MODULE TaskControl -----------------------------
(***************************************************************************)
(* The task control plane of app/services/llm_service/task_service.py:     *)
(* admission of executions, their claim and terminal write, and the        *)
(* Callback Guard that decides who may POST a result to the caller.        *)
(*                                                                         *)
(* Every database method runs in one BEGIN IMMEDIATE transaction, so each  *)
(* is one atomic action.  The threads that call them are not: a worker or  *)
(* a check-task request may pause, or die, between any two of its steps.   *)
(*                                                                         *)
(* Abstractions.  An execution is named by its dispatch_sequence, which    *)
(* the admission transaction makes unique and increasing.  A lease token   *)
(* is a fresh UUID per acquisition, so the lease version identifies it.    *)
(* A deadline is a flag that time may raise (Expire): an observer whose    *)
(* clock reading is older than the deadline is a step taken before the     *)
(* flag.  Public statuses are kept as "active" and "terminal".             *)
(***************************************************************************)
EXTENDS Naturals, FiniteSets

CONSTANTS
    Keys,          \* business keys (business_type, business_key)
    FileKeys,      \* those of business_type 'file'; the rest: report, weaponry
    Recoverers,    \* threads serving check-task requests
    ProcessOf,     \* the process each of those threads runs in
    MaxExecs,      \* bound: executions ever admitted
    MaxAttempts,   \* bound: deliveries authorized for one execution
    MaxBatch,      \* bound: items of one file batch (32 in the code)
    Outcomes       \* what a delivery may come to, of AllOutcomes

\* "stale" is not among them: nobody completes a delivery with it.  It is the answer of
\* the validation before the POST, whose sender then leaves (ValidateFails).
AllOutcomes == {"success", "rejected", "definitely_not_sent", "skipped",
                "delivery_outcome_unknown"}

ASSUME ControlAssumption ==
    /\ Keys # {}
    /\ FileKeys \subseteq Keys
    /\ MaxExecs \in Nat
    /\ MaxAttempts \in Nat \ {0}
    /\ MaxBatch \in Nat
    /\ Recoverers \cap (1 .. MaxExecs) = {}
    /\ Outcomes \subseteq AllOutcomes

Execs   == 1 .. MaxExecs
NoExec  == 0
Senders == Execs \cup Recoverers     \* the worker of an execution, or a request

VARIABLES
    execution,   \* llm_task_executions
    task,        \* llm_tasks: the latest projection of a business key
    guard,       \* callback_delivery_guards
    events,      \* callback_delivery_attempt_events
    lastSeq,     \* MAX(dispatch_sequence)
    sender,      \* the threads that may deliver a callback
    candidates,  \* keys the maintenance sweep read and has yet to freeze
    lastPosted   \* what the receiver saw last of each key (history)

vars == <<execution, task, guard, events, lastSeq, sender, candidates, lastPosted>>

-----------------------------------------------------------------------------
(* The rows.                                                               *)

Unresolved == {"pending", "sending", "outcome_unknown"}
Resolved   == {"success", "failed", "skipped"}
CallbackStatuses == Unresolved \cup Resolved
Finished   == {"succeeded", "failed"}
ExecutionStates == {"none", "accepted", "running", "stale"} \cup Finished

NoRow   == [state |-> "none", key |-> CHOOSE k \in Keys : TRUE, callback |-> "pending"]
NewRow(k) == [state |-> "accepted", key |-> k, callback |-> "pending"]

KeyOf(e)   == execution[e].key
IsLatest(e) == task[KeyOf(e)].owner = e

\* A thread that holds nothing; s is the execution a worker runs (itself).
Idle == [pc |-> "idle", exec |-> NoExec, attempts |-> 0, version |-> 0, reply |-> ""]

\* The thread of s ends its delivery: a worker is done, a request returns.
Leave(s) == sender' = [sender EXCEPT ![s] =
                         IF s \in Recoverers THEN Idle ELSE [@ EXCEPT !.pc = "done"]]

\* _callback_guard_deadline_expired of a guard that is being used.
Expired(k) == guard[k].state = "sending" /\ guard[k].expired

\* The Guard of k once its lease is over: token and deadline are cleared.
GuardNow(k, state) == [state |-> state, owner |-> guard[k].owner,
                       version |-> guard[k].version, expired |-> FALSE]

\* Events of the current lease of k carry what its authorization recorded.
Closing(a, type, outcome) ==
    [key |-> a.key, exec |-> a.exec, version |-> a.version, attempt |-> a.attempt,
     trigger |-> a.trigger, snapshot |-> a.snapshot, type |-> type, outcome |-> outcome]

\* Mutant: closes every lease the key ever had.
FollowUpsOfEveryLease(k, type, outcome) ==
    {Closing(a, type, outcome) : a \in {v \in events : v.type = "authorized" /\ v.key = k}}

FollowUps(k, type, outcome) ==
    {Closing(a, type, outcome) :
        a \in {v \in events : /\ v.type = "authorized"
                              /\ v.key = k
                              /\ v.exec = guard[k].owner
                              /\ v.version = guard[k].version}}

\* The projection of a key is written only while e still owns it.
SetCallback(e, status) ==
    /\ execution' = [execution EXCEPT ![e].callback = status]
    /\ task' = [task EXCEPT ![KeyOf(e)].callback = IF IsLatest(e) THEN status ELSE @]

\* Mutants: the projection is forgotten; an expired lease is opened again.
FreezeAllForgetsTask(ks) ==
    /\ guard' = [k \in Keys |->
                   IF k \in ks THEN GuardNow(k, "outcome_unknown") ELSE guard[k]]
    /\ events' = events \cup UNION {FollowUps(k, "lease_expired_unknown",
                                              "delivery_outcome_unknown") : k \in ks}
    /\ execution' = [e \in Execs |->
                       IF \E k \in ks : guard[k].owner = e
                       THEN [execution[e] EXCEPT !.callback = "outcome_unknown"]
                       ELSE execution[e]]
    /\ UNCHANGED task

FreezeAllReopens(ks) ==
    /\ guard' = [k \in Keys |-> IF k \in ks THEN GuardNow(k, "idle") ELSE guard[k]]
    /\ UNCHANGED <<events, execution, task>>

\* _transition_callback_guard_to_unknown on a set of keys in one transaction.
FreezeAll(ks) ==
    /\ guard' = [k \in Keys |->
                   IF k \in ks THEN GuardNow(k, "outcome_unknown") ELSE guard[k]]
    /\ events' = events \cup UNION {FollowUps(k, "lease_expired_unknown",
                                              "delivery_outcome_unknown") : k \in ks}
    /\ execution' = [e \in Execs |->
                       IF \E k \in ks : guard[k].owner = e
                       THEN [execution[e] EXCEPT !.callback = "outcome_unknown"]
                       ELSE execution[e]]
    /\ task' = [k \in Keys |->
                  IF k \in ks /\ task[k].owner = guard[k].owner
                  THEN [task[k] EXCEPT !.callback = "outcome_unknown"]
                  ELSE task[k]]

-----------------------------------------------------------------------------
(* Admission.                                                              *)

\* Mutant: admission that does not ask whether the last callback is pending.
BlockReasonIgnoresPending(k) ==
    IF guard[k].state = "sending" THEN "callback_sending"
    ELSE IF guard[k].state = "outcome_unknown" THEN "callback_outcome_unknown"
    ELSE IF task[k].status = "active" THEN "active_conflict"
    ELSE "none"

\* Why a new execution of k is refused, in the order the code asks.
\* file_task_admission_block_reason is the last arm, for file keys only.
BlockReason(k) ==
    IF guard[k].state = "sending" THEN "callback_sending"
    ELSE IF guard[k].state = "outcome_unknown" THEN "callback_outcome_unknown"
    ELSE IF task[k].status = "active" THEN "active_conflict"
    ELSE IF k \in FileKeys /\ task[k].callback = "pending" /\ task[k].owner # NoExec
         THEN "callback_pending"
    ELSE "none"

\* The WHERE of the batch upsert: what the row must be for a write to happen.
\* (Its clause on callback_claim_id concerns the legacy claim, never taken here.)
UpsertAllowed(k) ==
    \/ task[k].owner = NoExec
    \/ task[k].status = "terminal" /\ task[k].callback \in Resolved

\* Mutant: only the first item of a batch is looked at.
AdmissibleByFirst(n, ks) == BlockReason(ks[1]) = "none"

Admissible(n, ks) ==
    \A i \in 1 .. n : /\ BlockReason(ks[i]) = "none"
                      /\ ks[i] \in FileKeys => UpsertAllowed(ks[i])

\* Admit the n keys of ks together, with consecutive dispatch sequences.
Admit(n, ks) ==
    LET Used       == {ks[i] : i \in 1 .. n}
        NewOwner(k) == lastSeq + (CHOOSE i \in 1 .. n : ks[i] = k)
    IN  /\ lastSeq + n \in Execs
        /\ Admissible(n, ks)
        /\ lastSeq' = lastSeq + n
        /\ execution' = [e \in Execs |->
                           IF e \in (lastSeq + 1) .. (lastSeq + n)
                           THEN NewRow(ks[e - lastSeq]) ELSE execution[e]]
        /\ task' = [k \in Keys |->
                      IF k \in Used
                      THEN [owner |-> NewOwner(k), status |-> "active",
                            callback |-> "pending", attempts |-> 0]
                      ELSE task[k]]
        /\ UNCHANGED <<guard, events, sender, candidates, lastPosted>>

\* create_task_execution_if_allowed: report and weaponry, one key.
SubmitTask(k) == k \notin FileKeys /\ Admit(1, [i \in 1 .. 1 |-> k])

\* create_analysis_batch_if_allowed: n distinct file keys, all or none.
Batches(n) == {ks \in [1 .. n -> FileKeys] :
                 \A i, j \in 1 .. n : ks[i] = ks[j] => i = j}
SubmitBatch(n, ks) == Admit(n, ks)

\* A refused submission freezes the expired lease it ran into, and commits.
\* In a batch only the first blocked item is looked at.
SubmitFreezes(k) ==
    /\ Expired(k)
    /\ FreezeAll({k})
    /\ UNCHANGED <<lastSeq, sender, candidates, lastPosted>>

-----------------------------------------------------------------------------
(* The execution: claim, terminal write, and the paths that end it early.  *)

\* Mutant: the row is claimed and no thread runs it.
ClaimLosesThread(e) ==
    /\ execution[e].state = "accepted"
    /\ execution' = [execution EXCEPT ![e].state =
                       IF IsLatest(e) THEN "running" ELSE "stale"]
    /\ UNCHANGED <<task, guard, events, lastSeq, sender, candidates, lastPosted>>

\* claim_task_execution: a superseded execution is marked stale instead.
Claim(e) ==
    /\ execution[e].state = "accepted"
    /\ IF IsLatest(e)
       THEN /\ execution' = [execution EXCEPT ![e].state = "running"]
            /\ sender' = [sender EXCEPT ![e].pc = "working", ![e].exec = e]
       ELSE /\ execution' = [execution EXCEPT ![e].state = "stale"]
            /\ UNCHANGED sender
    /\ UNCHANGED <<task, guard, events, lastSeq, candidates, lastPosted>>

\* finish_task_execution_if_current, as success or as failure.  Report and
\* weaponry workers ask is_latest before they deliver, analysis does not.
Finish(e, state) ==
    /\ sender[e].pc = "working"
    /\ execution[e].state = "running"
    /\ IF IsLatest(e)
       THEN /\ execution' = [execution EXCEPT ![e].state = state]
            /\ task' = [task EXCEPT ![KeyOf(e)].status = "terminal"]
            /\ sender' = [sender EXCEPT ![e].pc =
                            IF KeyOf(e) \in FileKeys THEN "ready" ELSE "finished"]
       ELSE /\ execution' = [execution EXCEPT ![e].state = "stale"]
            /\ Leave(e)
            /\ UNCHANGED task
    /\ UNCHANGED <<guard, events, lastSeq, candidates, lastPosted>>

\* is_task_execution_latest, read in a transaction of its own.
CheckLatest(e) ==
    /\ sender[e].pc = "finished"
    /\ IF IsLatest(e) THEN sender' = [sender EXCEPT ![e].pc = "ready"] ELSE Leave(e)
    /\ UNCHANGED <<execution, task, guard, events, lastSeq, candidates, lastPosted>>

\* fail_accepted_analysis_task_execution_if_current: an unreadable snapshot.
\* Its callback is then sent as if check-task had asked for it.
FailPoisoned(e) ==
    /\ execution[e].state = "accepted"
    /\ KeyOf(e) \in FileKeys
    /\ IF IsLatest(e)
       THEN /\ execution' = [execution EXCEPT ![e].state = "failed"]
            /\ task' = [task EXCEPT ![KeyOf(e)].status = "terminal"]
       ELSE /\ execution' = [execution EXCEPT ![e].state = "stale"]
            /\ UNCHANGED task
    /\ UNCHANGED <<guard, events, lastSeq, sender, candidates, lastPosted>>

\* A thread dies: its process crashed, or an error left the row as it was.
\* Nothing repairs a row left running.
Die(s) ==
    /\ sender[s].pc \notin {"idle", "done", "dead"}
    /\ sender' = [sender EXCEPT ![s] =
                    IF s \in Recoverers THEN Idle ELSE [@ EXCEPT !.pc = "dead"]]
    /\ UNCHANGED <<execution, task, guard, events, lastSeq, candidates, lastPosted>>

-----------------------------------------------------------------------------
(* Delivery: acquire, validate, POST, complete.                            *)

Trigger(s)  == IF s \in Recoverers THEN "explicit_check_task_recovery"
                                   ELSE "initial_delivery"
SenderKey(s) == KeyOf(sender[s].exec)

\* A check-task request reads the projection it would resend.  Requests of
\* one process for one key are merged into the first.
LoadRecoverable(r, k) ==
    /\ sender[r].pc = "idle"
    /\ \A q \in Recoverers \ {r} :
          ~(ProcessOf[q] = ProcessOf[r] /\ sender[q].pc # "idle" /\ SenderKey(q) = k)
    /\ task[k].status = "terminal"
    /\ task[k].callback \in {"pending", "failed", "outcome_unknown"}
    /\ task[k].attempts < MaxAttempts
    /\ sender' = [sender EXCEPT ![r] =
                     [pc |-> "ready", exec |-> task[k].owner,
                      attempts |-> task[k].attempts, version |-> 0, reply |-> ""]]
    /\ UNCHANGED <<execution, task, guard, events, lastSeq, candidates, lastPosted>>

\* Mutant: the attempt snapshot of a request is not compared.
CurrentAnyAttempt(s) ==
    /\ IsLatest(sender[s].exec)
    /\ execution[sender[s].exec].state \in Finished

\* The checks of acquire_callback_delivery_guard before it reads the Guard:
\* still the latest owner, the attempt snapshot still current, and finished
\* (it raises otherwise, which the caller takes for a refusal).
Current(s) ==
    /\ IsLatest(sender[s].exec)
    /\ execution[sender[s].exec].state \in Finished
    /\ s \in Recoverers => task[SenderKey(s)].attempts = sender[s].attempts

\* Mutant: a failed callback is open to everybody.
OpenAfterFailure(s) == execution[sender[s].exec].callback \in
                         {"pending", "sending", "failed", "outcome_unknown"}

\* The callback statuses from which the trigger of s may go on at all.
Open(s) == execution[sender[s].exec].callback \in
             {"pending", "sending"} \cup
             (IF s \in Recoverers THEN {"failed", "outcome_unknown"} ELSE {})

\* Only check-task may take a frozen Guard, and only its own.
ExplicitUnknownRetry(s) ==
    LET e == sender[s].exec IN LET k == SenderKey(s) IN
    /\ s \in Recoverers
    /\ execution[e].callback = "outcome_unknown"
    /\ task[k].callback = "outcome_unknown"
    /\ guard[k].state = "outcome_unknown"
    /\ guard[k].owner = e

\* A row says sending and its Guard does not: a state the code freezes.
Inconsistent(s) == /\ execution[sender[s].exec].callback = "sending"
                   /\ guard[SenderKey(s)].state = "idle"

Granted(s) ==
    LET k == SenderKey(s) IN
    /\ Current(s)
    /\ Open(s)
    /\ \/ /\ guard[k].state = "idle"
          /\ execution[sender[s].exec].callback \in {"pending", "failed"}
       \/ ExplicitUnknownRetry(s)

MustFreeze(s) ==
    Current(s) /\ Open(s) /\ (Expired(SenderKey(s)) \/ Inconsistent(s))

Busy(s) ==
    Current(s) /\ Open(s) /\ guard[SenderKey(s)].state = "sending" /\ ~Expired(SenderKey(s))

Acquiring(s) == sender[s].pc = "ready"

Acquire(s) ==
    LET e == sender[s].exec IN LET k == SenderKey(s) IN
    LET v == guard[k].version + 1 IN
    /\ Acquiring(s)
    /\ Granted(s)
    /\ guard' = [guard EXCEPT ![k] = [state |-> "sending", owner |-> e,
                                      version |-> v, expired |-> FALSE]]
    /\ execution' = [execution EXCEPT ![e].callback = "sending"]
    /\ task' = [task EXCEPT ![k].callback = "sending", ![k].attempts = @ + 1]
    /\ events' = events \cup {[key |-> k, exec |-> e, version |-> v,
                               attempt |-> task[k].attempts + 1,
                               trigger |-> Trigger(s), snapshot |-> sender[s].attempts,
                               type |-> "authorized", outcome |-> ""]}
    /\ sender' = [sender EXCEPT ![s].pc = "leased", ![s].version = v]
    /\ UNCHANGED <<lastSeq, candidates, lastPosted>>

AcquireFreezes(s) ==
    LET e == sender[s].exec IN LET k == SenderKey(s) IN
    /\ Acquiring(s)
    /\ MustFreeze(s)
    /\ IF Expired(k)
       THEN FreezeAll({k})
       ELSE /\ guard' = [guard EXCEPT ![k] = [GuardNow(k, "outcome_unknown") EXCEPT !.owner = e]]
            /\ events' = events \cup
                 {[key |-> k, exec |-> e, version |-> guard[k].version,
                   attempt |-> task[k].attempts, trigger |-> Trigger(s),
                   snapshot |-> sender[s].attempts,
                   type |-> "guard_inconsistent_unknown",
                   outcome |-> "guard_state_inconsistent"]}
            /\ SetCallback(e, "outcome_unknown")
    /\ Leave(s)
    /\ UNCHANGED <<lastSeq, candidates, lastPosted>>

\* stale, already_completed, outcome_unknown or busy.  A file request would
\* wait for the holder when it is told busy, and try again; NobodyWaits says
\* that it never is.
AcquireRefused(s) ==
    /\ Acquiring(s)
    /\ ~Granted(s) /\ ~MustFreeze(s)
    /\ Leave(s)
    /\ UNCHANGED <<execution, task, guard, events, lastSeq, candidates, lastPosted>>

\* Mutants: the lease compared by its owner, without the fencing version, and
\* without the state either.
HoldsLeaseOfOwner(s) ==
    /\ guard[SenderKey(s)].state = "sending"
    /\ guard[SenderKey(s)].owner = sender[s].exec

\* The lease of s, as validate and complete compare it.
HoldsLease(s) ==
    LET k == SenderKey(s) IN
    /\ guard[k].state = "sending"
    /\ guard[k].owner = sender[s].exec
    /\ guard[k].version = sender[s].version

\* validate_callback_delivery_guard, in deliver, right before the network.
Valid(s) == /\ IsLatest(sender[s].exec)
            /\ execution[sender[s].exec].state \in Finished
            /\ HoldsLease(s)

Validate(s) ==
    /\ sender[s].pc = "leased"
    /\ Valid(s)
    /\ ~Expired(SenderKey(s))
    /\ sender' = [sender EXCEPT ![s].pc = "cleared"]
    /\ UNCHANGED <<execution, task, guard, events, lastSeq, candidates, lastPosted>>

\* A lease that expired is frozen here; one that was lost is left alone.
ValidateFails(s) ==
    /\ sender[s].pc = "leased"
    /\ ~Valid(s) \/ Expired(SenderKey(s))
    /\ IF Valid(s)
       THEN FreezeAll({SenderKey(s)})
       ELSE UNCHANGED <<guard, events, execution, task>>
    /\ Leave(s)
    /\ UNCHANGED <<lastSeq, candidates, lastPosted>>

\* The transport.  Any time may have passed since the check.  An empty URL
\* is skipped, and a definite connection failure sends nothing.
Post(s, outcome) ==
    /\ sender[s].pc = "cleared"
    /\ sender' = [sender EXCEPT ![s].pc = "replied", ![s].reply = outcome]
    /\ lastPosted' =
         IF outcome \in {"skipped", "definitely_not_sent"} THEN lastPosted
         ELSE [lastPosted EXCEPT ![SenderKey(s)] = sender[s].exec]
    /\ UNCHANGED <<execution, task, guard, events, lastSeq, candidates>>

\* Mutant: the transport's outcome is stored as it is.
StatusOfRaw(outcome) ==
    IF outcome = "delivery_outcome_unknown" THEN "outcome_unknown" ELSE outcome

StatusOf(outcome) ==
    CASE outcome = "success" -> "success"
      [] outcome = "skipped" -> "skipped"
      [] outcome = "delivery_outcome_unknown" -> "outcome_unknown"
      [] OTHER -> "failed"

\* complete_callback_delivery_guard: a compare-and-set on the lease.  It does
\* not look at the deadline.  A miss changes nothing, nor does a projection
\* that moved on, where the method raises and its transaction rolls back.
Complete(s) ==
    LET e == sender[s].exec IN LET k == SenderKey(s) IN
    LET status == StatusOf(sender[s].reply) IN
    /\ sender[s].pc = "replied"
    /\ IF HoldsLease(s) /\ IsLatest(e)
       THEN /\ guard' = [guard EXCEPT ![k] =
                           GuardNow(k, IF status = "outcome_unknown" THEN status ELSE "idle")]
            /\ events' = events \cup FollowUps(k, "completed", sender[s].reply)
            /\ SetCallback(e, status)
       ELSE UNCHANGED <<guard, events, execution, task>>
    /\ Leave(s)
    /\ UNCHANGED <<lastSeq, candidates, lastPosted>>

-----------------------------------------------------------------------------
(* Time, the maintenance sweep, and the operator.                          *)

Expire(k) ==
    /\ guard[k].state = "sending"
    /\ ~guard[k].expired
    /\ guard' = [guard EXCEPT ![k].expired = TRUE]
    /\ UNCHANGED <<execution, task, events, lastSeq, sender, candidates, lastPosted>>

\* freeze_expired_callback_delivery_guards reads first, outside a write
\* transaction, and then looks at each candidate again before it freezes it.
SweepRead ==
    /\ candidates = {}
    /\ \E k \in Keys : Expired(k)
    /\ candidates' = {k \in Keys : Expired(k)}
    /\ UNCHANGED <<execution, task, guard, events, lastSeq, sender, lastPosted>>

\* Mutants: what was read is frozen unseen, or is forgotten.
SweepWriteUnseen ==
    /\ candidates # {}
    /\ FreezeAll(candidates)
    /\ candidates' = {}
    /\ UNCHANGED <<lastSeq, sender, lastPosted>>

SweepWriteForgets ==
    /\ candidates # {}
    /\ candidates' = {}
    /\ UNCHANGED <<execution, task, guard, events, lastSeq, sender, lastPosted>>

SweepWrite ==
    /\ candidates # {}
    /\ FreezeAll({k \in candidates : Expired(k)})
    /\ candidates' = {}
    /\ UNCHANGED <<lastSeq, sender, lastPosted>>

\* release_frozen_callback_delivery_guard: the operator has confirmed that
\* the threads that held the lease have stopped.  Not offered for file keys.
WorkerStopped(k) == \A s \in Senders :
    sender[s].pc \in {"leased", "cleared", "replied"} => SenderKey(s) # k

Release(k) ==
    /\ k \notin FileKeys
    /\ guard[k].state = "outcome_unknown"
    /\ WorkerStopped(k)
    /\ guard' = [guard EXCEPT ![k].state = "idle"]
    /\ UNCHANGED <<execution, task, events, lastSeq, sender, candidates, lastPosted>>

-----------------------------------------------------------------------------
Init ==
    /\ execution = [e \in Execs |-> NoRow]
    /\ task = [k \in Keys |-> [owner |-> NoExec, status |-> "none",
                               callback |-> "pending", attempts |-> 0]]
    /\ guard = [k \in Keys |-> [state |-> "idle", owner |-> NoExec,
                                version |-> 0, expired |-> FALSE]]
    /\ events = {}
    /\ lastSeq = 0
    /\ sender = [s \in Senders |-> Idle]
    /\ candidates = {}
    /\ lastPosted = [k \in Keys |-> NoExec]

Admission == \/ \E k \in Keys : SubmitTask(k) \/ SubmitFreezes(k)
             \/ \E n \in 1 .. MaxBatch : \E ks \in Batches(n) : SubmitBatch(n, ks)

RunExecution(e) == Claim(e) \/ (\E st \in Finished : Finish(e, st)) \/ CheckLatest(e)

Deliver(s) ==
    \/ Acquire(s) \/ AcquireFreezes(s) \/ AcquireRefused(s)
    \/ Validate(s) \/ ValidateFails(s)
    \/ \E outcome \in Outcomes : Post(s, outcome)
    \/ Complete(s)

Next ==
    \/ Admission
    \/ \E e \in Execs : RunExecution(e) \/ FailPoisoned(e)
    \/ \E s \in Senders : Deliver(s) \/ Die(s)
    \/ \E r \in Recoverers : \E k \in Keys : LoadRecoverable(r, k)
    \/ \E k \in Keys : Expire(k) \/ Release(k)
    \/ SweepRead \/ SweepWrite

Spec == Init /\ [][Next]_vars

\* The dispatcher keeps scanning, its worker and a request run on until they
\* die, time passes, and the sweep recurs.  Clients and operators owe nothing.
Fairness ==
    /\ \A e \in Execs : WF_vars(RunExecution(e))
    /\ \A s \in Senders : WF_vars(Deliver(s))
    /\ \A k \in Keys : WF_vars(Expire(k))
    /\ WF_vars(SweepRead) /\ WF_vars(SweepWrite)

FairSpec == Spec /\ Fairness

-----------------------------------------------------------------------------
(* Properties.                                                             *)

\* Every row, thread and event is of its kind.
Ids == {NoExec} \cup Execs
Event == [key : Keys, exec : Execs, version : Nat, attempt : Nat,
          trigger : {"initial_delivery", "explicit_check_task_recovery"},
          snapshot : Nat,
          type : {"authorized", "completed", "lease_expired_unknown",
                  "guard_inconsistent_unknown"},
          outcome : AllOutcomes \cup {"", "guard_state_inconsistent"}]

RowTypes ==
    /\ execution \in [Execs -> [state : ExecutionStates, key : Keys,
                                callback : CallbackStatuses]]
    /\ task \in [Keys -> [owner : Ids, status : {"none", "active", "terminal"},
                          callback : CallbackStatuses, attempts : Nat]]
    /\ guard \in [Keys -> [state : {"idle", "sending", "outcome_unknown"},
                           owner : Ids, version : Nat, expired : BOOLEAN]]
    /\ events \subseteq Event
    /\ lastSeq \in Ids

ThreadTypes ==
    /\ sender \in [Senders -> [pc : {"idle", "working", "finished", "ready", "leased",
                                     "cleared", "replied", "done", "dead"},
                               exec : Ids, attempts : Nat, version : Nat,
                               reply : Outcomes \cup {""}]]
    /\ candidates \subseteq Keys
    /\ lastPosted \in [Keys -> Ids]

TypeOK == RowTypes /\ ThreadTypes

\* A key is held by one execution at a time: whatever is accepted or running
\* is the latest of its key and keeps it closed, and every projection tells
\* the callback and the terminal state of the execution that owns it.
Active(e) == execution[e].state \in {"accepted", "running"}

ProjectionAgrees ==
    /\ \A e \in Execs : Active(e) => IsLatest(e)
    /\ \A k \in Keys : task[k].owner # NoExec =>
         LET e == task[k].owner IN
         /\ KeyOf(e) = k
         /\ task[k].callback = execution[e].callback
         /\ IF task[k].status = "terminal" THEN execution[e].state \in Finished
                                           ELSE Active(e)

\* The three records of a delivery never disagree.  A Guard that is not idle
\* belongs to the finished latest execution and both rows show its state; a
\* row that shows sending has the Guard.  So the branch of acquire that
\* freezes an inconsistent Guard is never taken.
GuardAgrees ==
    /\ \A k \in Keys : guard[k].state # "idle" =>
         LET e == guard[k].owner IN
         /\ e # NoExec /\ task[k].owner = e /\ task[k].status = "terminal"
         /\ task[k].callback = guard[k].state
    /\ \A e \in Execs : execution[e].callback = "sending" =>
         guard[KeyOf(e)].state = "sending" /\ guard[KeyOf(e)].owner = e

\* The rows of a key tell one story: which execution holds it, how far it is and
\* what has become of its callback.  They are written by admission, claim, finish,
\* five paths of the Guard and the sweep, each in a transaction of its own.
RowsAgree == ProjectionAgrees /\ GuardAgrees

\* What admission decides before it writes is what its conditional write
\* accepts: a file key that is not blocked can be taken over.
AdmissionNeverRaises ==
    \A k \in FileKeys : BlockReason(k) = "none" => UpsertAllowed(k)

\* The audit is a ledger.  The lease in use is authorized and open; every
\* other authorized lease was closed exactly once, as completed or as expired.
Authorized == {a \in events : a.type = "authorized"}
Closings(a) == {c \in events : c.type # "authorized" /\ c.key = a.key /\ c.version = a.version}
InUse(a) == /\ guard[a.key].state = "sending"
            /\ guard[a.key].version = a.version
            /\ guard[a.key].owner = a.exec

LedgerAgrees ==
    /\ \A k \in Keys : guard[k].state = "sending" => \E a \in Authorized : a.key = k /\ InUse(a)
    /\ \A a \in Authorized : IF InUse(a) THEN Closings(a) = {}
                                         ELSE Cardinality(Closings(a)) = 1
    /\ \A e \in Execs : IsLatest(e) =>
          task[KeyOf(e)].attempts = Cardinality({a \in Authorized : a.exec = e})

\* Nothing is sent again by itself: of two authorizations of an execution,
\* the later was asked for by check-task.
NoAutomaticRetry ==
    \A a, b \in Authorized : a.exec = b.exec /\ a.version < b.version =>
        b.trigger = "explicit_check_task_recovery"

\* Check-task requests that started from the same attempt end in one delivery.
OneDeliveryPerSnapshot ==
    \A a, b \in Authorized :
        /\ a.exec = b.exec /\ a.snapshot = b.snapshot
        /\ a.trigger = "explicit_check_task_recovery" /\ b.trigger = a.trigger
        => a = b

\* A request that would be told busy is told stale before: whoever took the
\* Guard since it read the projection has raised the attempt it compares.  So
\* no request waits for another, and the wait of RecoverAnalysisCallback is
\* never entered.
NobodyWaits == \A r \in Recoverers : Acquiring(r) => ~Busy(r)

\* Of two threads in a delivery for one key, the older has lost its lease for
\* good, and only a check-task request can have reopened the key behind it:
\* an operator first makes sure that its thread has stopped.
Delivering(s) == sender[s].pc \in {"leased", "cleared", "replied"}

FencedSenders ==
    \A s, t \in Senders :
        (s # t /\ Delivering(s) /\ Delivering(t) /\ SenderKey(s) = SenderKey(t)) =>
            /\ sender[s].version # sender[t].version
            /\ sender[s].version < sender[t].version =>
                 /\ ~HoldsLease(s)
                 /\ \E a \in Authorized :
                      /\ a.key = SenderKey(s)
                      /\ a.version \in (sender[s].version + 1) .. sender[t].version
                      /\ a.trigger = "explicit_check_task_recovery"

\* A live lease is never frozen under its holder, whichever of the paths
\* that freeze looked at it and however old what it had read.
FreezeOnlyExpired ==
    [][\A k \in Keys :
         guard[k].state = "sending" /\ guard'[k].state = "outcome_unknown" =>
           \/ guard[k].expired
           \/ \E s \in Senders : /\ sender[s].pc = "replied" /\ sender'[s].pc # "replied"
                                 /\ SenderKey(s) = k /\ HoldsLease(s)
                                 /\ sender[s].reply = "delivery_outcome_unknown"]_vars

\* A recorded delivery is final: no late answer and no new authorization
\* touches an execution whose callback succeeded or was skipped.
DeliveredIsFinal ==
    [][\A e \in Execs : execution[e].callback \in {"success", "skipped"} =>
          execution'[e].callback = execution[e].callback]_vars

\* A file is resubmitted only when the callback before it is settled; any
\* other key only when nothing is being sent or unknown about it.
SupersededOnlyWhenSettled ==
    [][\A k \in Keys : task'[k].owner # task[k].owner /\ task[k].owner # NoExec =>
          /\ execution[task[k].owner].state \in Finished
          /\ guard[k].state = "idle"
          /\ k \in FileKeys => execution[task[k].owner].callback \in Resolved]_vars

\* The receiver never gets an execution after a newer one of the same key.
NewestPostedLast ==
    [][\A k \in Keys : lastPosted'[k] >= lastPosted[k]]_vars

\* Every lease ends: completed, or frozen once its time is over.
LeaseEnds ==
    \A k \in Keys : \A v \in 1 .. MaxExecs * MaxAttempts :
        (guard[k].state = "sending" /\ guard[k].version = v)
            ~> ~(guard[k].state = "sending" /\ guard[k].version = v)

\* Every accepted execution finishes and leaves its callback decided or
\* frozen, unless its thread died.
ExecutionEnds ==
    \A e \in Execs :
        execution[e].state = "accepted" ~>
            \/ sender[e].pc = "dead"
            \/ execution[e].state \in Finished /\ execution[e].callback # "sending"

\* Nothing hangs: neither a lease nor an execution whose thread lives stays where it
\* is, though threads die with a lease in their hands.
NothingHangs == LeaseEnds /\ ExecutionEnds
=============================================================================
