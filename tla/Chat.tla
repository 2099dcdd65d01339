--------------------------------- MODULE Chat ---------------------------------
(***************************************************************************)
(* One conversation of the file chat: its session row, admission guard,    *)
(* runs, resource leases and cleanup jobs in SQLite, the remote resources  *)
(* they account for, and the request threads that work on them.  A run is  *)
(* the thread of one POST /llm/chat, a title or a deletion is the thread   *)
(* of one such request; abort requests come from anywhere.                 *)
(*                                                                         *)
(* One action is one BEGIN IMMEDIATE transaction, or one remote call.  A   *)
(* request that is refused rolls its transaction back and is no action.    *)
(* Where a thread loops over leases, one transaction each, the loop is one *)
(* action, except in Blame, which works on what it has listed.  A remote   *)
(* call that fails leaves nothing it did not report.                       *)
(***************************************************************************)
EXTENDS Naturals, FiniteSets

CONSTANTS
    Runs,      \* chat requests, each one run
    Titles,    \* title requests, each with a temporary thread of its own
    Deletes,   \* threads of deletion requests, one request after another
    Docs,      \* document versions a run may put in scope
    Slow,      \* runs that may outlive stale_after_seconds between heartbeats
    Crashes,   \* TRUE: the process may crash, once
    None

Threads  == Runs \cup Titles \cup Deletes
Leases   == {"workspace", "thread"} \cup Docs \cup Titles
Jobs     == {"chat"} \cup Titles

VARIABLES
    session,  \* chat_sessions.status, "none" before the row
    refs,     \* the session has its workspace and thread references
    guard,    \* chat_admission_guards: who holds it, and whether it expired
    run,      \* chat_runs with its user message, answer and terminal event
    lease,    \* chat_resource_leases: status, and the run that planned it
    job,      \* chat_cleanup_jobs: of the deletion and of each title
    bound,    \* documents with a row in chat_document_bindings
    remote,   \* reported remote resources, each with the thread that made it
    pc,       \* where each thread is
    fresh,    \* documents the run has yet to attach
    todo,     \* leases the failed deletion listed, as it saw them
    crashed

rows  == <<session, refs, guard, run, lease, job, bound>>
local == <<pc, fresh, todo>>
vars  == <<rows, remote, local, crashed>>

Places ==   \* of a run, of a title, of a deletion, of all
    {"guarded", "accepted", "started", "entered", "workspace", "thread",
     "open", "unopened", "half opened", "opened", "opened workspace", "opened thread",
     "documents", "planning", "attaching", "attached", "streaming",
     "succeeding", "failing", "aborting"}
    \cup {"planned", "temporary", "undone", "replying", "replied", "deleted thread",
          "deferred", "queued", "claimed", "retrying", "retried", "kept"}
    \cup {"deleting", "cleaning", "mark thread", "drop thread", "dropped thread",
          "kept thread", "mark context", "drop context", "dropped context",
          "kept context", "cleaned", "closing", "failed", "blaming", "raised"}
    \cup {"idle", "done", "dead"}

ASSUME ChatAssumption ==
    /\ None \notin Runs \cup Titles
    /\ Runs \cap Titles = {} /\ (Runs \cup Titles) \cap Deletes = {}
    /\ Slow \subseteq Runs
    /\ Crashes \in BOOLEAN
    /\ {"workspace", "thread"} \cap (Docs \cup Titles) = {}
    /\ Docs \cap Titles = {} /\ Docs \cap Places = {} /\ "chat" \notin Titles

LeaseStatus == {"none", "planned", "active", "pending", "failed", "closed"}
Verdicts    == {"succeeded", "failed", "aborted"}

Active(r)   == run[r].status \in {"accepted", "running"}
Idle        == \A r \in Runs : ~Active(r)
Exists(id)  == \E t \in Threads : <<id, t>> \in remote
Open(id)    == lease[id].status \notin {"none", "closed"}
Sending(t)  == lease[t].status \in {"planned", "active", "pending"}

TypeOK ==
    /\ session \in {"none", "active", "deleting", "deleted", "error"}
    /\ refs \in BOOLEAN
    /\ guard \in [holder : Runs \cup {None}, expired : BOOLEAN]
    /\ run \in [Runs -> [status : {"none", "accepted", "running"} \cup Verdicts,
                         abort  : BOOLEAN,
                         stale  : BOOLEAN,
                         user   : {"none", "pending", "committed", "discarded"},
                         answer : BOOLEAN,
                         event  : {"none", "done", "error", "aborted"}]]
    /\ lease \in [Leases -> [status : LeaseStatus, by : Runs \cup {None}]]
    /\ job \in [Jobs -> {"none", "pending", "running", "failed", "succeeded"}]
    /\ bound \subseteq Docs
    /\ remote \subseteq Leases \X Threads
    /\ pc \in [Threads -> Places \cup Docs]
    /\ fresh \in [Runs -> SUBSET Docs]
    /\ todo \subseteq Leases \X LeaseStatus
    /\ crashed \in BOOLEAN

Init ==
    /\ session = "none" /\ refs = FALSE
    /\ guard = [holder |-> None, expired |-> FALSE]
    /\ run = [r \in Runs |-> [status |-> "none", abort |-> FALSE, stale |-> FALSE,
                              user |-> "none", answer |-> FALSE, event |-> "none"]]
    /\ lease = [id \in Leases |-> [status |-> "none", by |-> None]]
    /\ job = [j \in Jobs |-> "none"]
    /\ bound = {} /\ remote = {}
    /\ pc = [t \in Threads |-> "idle"]
    /\ fresh = [r \in Runs |-> {}]
    /\ todo = {} /\ crashed = FALSE

Goto(t, place) == pc' = [pc EXCEPT ![t] = place]
At(t, place)   == pc[t] = place

(***************************************************************************)
(* Rows.                                                                   *)
(***************************************************************************)
Free == [holder |-> None, expired |-> FALSE]

Released(r) == IF guard.holder = r THEN Free ELSE guard

\* _append_internal_failure_event_if_missing
WithErrorEvent(row) == IF row.event = "none" THEN [row EXCEPT !.event = "error"] ELSE row

\* _expire_stale_runs: what a running run said stays, an accepted one is dropped
ExpireStaleRuns ==
    [r \in Runs |->
        IF Active(r) /\ run[r].stale
        THEN WithErrorEvent([run[r] EXCEPT
                 !.status = "failed",
                 !.user   = IF run[r].status = "running" THEN "committed" ELSE "discarded"])
        ELSE run[r]]

NoneActive(runs) == \A r \in Runs : runs[r].status \notin {"accepted", "running"}

SetLease(id, status) == lease' = [lease EXCEPT ![id].status = status]

SetLeases(ids, status) ==
    lease' = [id \in Leases |-> IF id \in ids THEN [lease[id] EXCEPT !.status = status]
                                              ELSE lease[id]]

\* Mutant: a closed lease is nobody's, so another run may begin it.
ConflictIfOpen(id, r) == Open(id) /\ lease[id].by # r

\* begin: the row of another run is an identity conflict
Conflict(id, r) == lease[id].status # "none" /\ lease[id].by # r

Plan(id, r) == lease' = [lease EXCEPT ![id] =
                   IF @.status = "none" THEN [status |-> "planned", by |-> r] ELSE @]

CanActivate(id) == lease[id].status \in {"planned", "active"}
OpenLeases      == {id \in Leases : Open(id)}

(***************************************************************************)
(* Admission: reserve a guard, accept unless no stream slot is free, start. *)
(***************************************************************************)
Reserve(r) ==
    /\ At(r, "idle")
    /\ session \in {"none", "active"}
    /\ guard.holder = None \/ guard.expired
    /\ LET runs == ExpireStaleRuns IN NoneActive(runs) /\ run' = runs
    /\ guard' = [holder |-> r, expired |-> FALSE]
    /\ Goto(r, "guarded")
    /\ UNCHANGED <<session, refs, lease, job, bound, remote, fresh, todo, crashed>>

\* no slot is free, or prepare_chat_run raised: the guard goes by its token
Refuse(r) ==
    /\ At(r, "guarded")
    /\ guard' = Released(r)
    /\ Goto(r, "done")
    /\ UNCHANGED <<session, refs, run, lease, job, bound, remote, fresh, todo, crashed>>

HoldsGuard(r) == guard.holder = r /\ ~guard.expired

\* start_chat_run: the session, the run and its user message, and the guard
Accept(r) ==
    /\ At(r, "guarded")
    /\ HoldsGuard(r)
    /\ session \in {"none", "active"}
    /\ LET runs == ExpireStaleRuns
       IN /\ NoneActive(runs)
          /\ run' = [runs EXCEPT ![r].status = "accepted", ![r].user = "pending"]
    /\ session' = "active"
    /\ guard' = Free
    /\ \E docs \in SUBSET Docs : fresh' = [fresh EXCEPT ![r] = docs]
    /\ Goto(r, "accepted")
    /\ UNCHANGED <<refs, lease, job, bound, remote, todo, crashed>>

\* Mutant: the response is closed and nobody settles the run.
CloseEarlyQuietly(r) ==
    /\ At(r, "accepted")
    /\ Goto(r, "done")
    /\ UNCHANGED <<rows, remote, fresh, todo, crashed>>

\* the response is closed before its stream is consumed: discard_unstarted_run
CloseEarly(r) ==
    /\ At(r, "accepted")
    /\ run' = [run EXCEPT ![r] =
          IF @.status = "accepted"
          THEN WithErrorEvent([@ EXCEPT !.status = "failed", !.user = "discarded"])
          ELSE @]
    /\ Goto(r, "done")
    /\ UNCHANGED <<session, refs, guard, lease, job, bound, remote, fresh, todo, crashed>>

\* issue_execution_lease
Start(r) ==
    /\ At(r, "accepted")
    /\ IF run[r].status = "accepted"
       THEN /\ run' = [run EXCEPT ![r].status = "running", ![r].stale = FALSE]
            /\ Goto(r, "started")
       ELSE Goto(r, "done") /\ UNCHANGED run
    /\ UNCHANGED <<session, refs, guard, lease, job, bound, remote, fresh, todo, crashed>>

(***************************************************************************)
(* Execution of a run.  The recorder polls the abort flag before it takes  *)
(* the first event and after each; an exception of the stream arrives as   *)
(* its last event, an exception of the recorder polls the flag as well.    *)
(***************************************************************************)
Break(r) == Goto(r, IF run[r].abort THEN "aborting" ELSE "failing")

\* validate_execution_lease, the pending user message, the first poll
Enter(r) ==
    /\ At(r, "started")
    /\ Goto(r, IF ~Active(r) THEN "done" ELSE IF run[r].abort THEN "aborting" ELSE "entered")
    /\ UNCHANGED <<rows, remote, fresh, todo, crashed>>

\* the session row as it is now decides; it is not read again
ReadSession(r) ==
    /\ At(r, "entered")
    /\ IF session # "active" THEN Break(r)
       ELSE Goto(r, IF refs THEN "documents" ELSE "workspace")
    /\ UNCHANGED <<rows, remote, fresh, todo, crashed>>

PlanResource(r, id, next) ==
    /\ At(r, id)
    /\ IF Conflict(id, r) THEN Break(r) /\ UNCHANGED lease
                          ELSE Plan(id, r) /\ Goto(r, next)
    /\ UNCHANGED <<session, refs, guard, run, job, bound, remote, fresh, todo, crashed>>

PlanWorkspace(r) == PlanResource(r, "workspace", "thread")
PlanThread(r)    == PlanResource(r, "thread", "open")

\* open_conversation makes the workspace and then its thread
OpenConversation(r) ==
    /\ At(r, "open")
    /\ \/ /\ remote' = remote \cup {<<"workspace", r>>, <<"thread", r>>}
          /\ Goto(r, "opened")
       \/ Goto(r, "unopened") /\ UNCHANGED remote
       \/ /\ remote' = remote \cup {<<"workspace", r>>}
          /\ Goto(r, "half opened")
    /\ UNCHANGED <<rows, fresh, todo, crashed>>

IfPlanned(ids, status) == SetLeases({id \in ids : lease[id].status = "planned"}, status)

\* the failure reported a workspace: record it, and close what is only planned
GiveUpOpening(r) ==
    /\ \/ At(r, "unopened") /\ IfPlanned({"workspace", "thread"}, "closed")
       \/ /\ At(r, "half opened")
          /\ lease' = [lease EXCEPT
                 !["workspace"].status = IF @ = "planned" THEN "active" ELSE @,
                 !["thread"].status    = IF @ = "planned" THEN "closed" ELSE @]
    /\ Break(r)
    /\ UNCHANGED <<session, refs, guard, run, job, bound, remote, fresh, todo, crashed>>

Activate(r, at, id, next) ==
    /\ At(r, at)
    /\ IF CanActivate(id) THEN SetLease(id, "active") /\ Goto(r, next)
                          ELSE Break(r) /\ UNCHANGED lease
    /\ UNCHANGED <<session, refs, guard, run, job, bound, remote, fresh, todo, crashed>>

ActivateWorkspace(r) == Activate(r, "opened", "workspace", "opened workspace")
ActivateThread(r)    == Activate(r, "opened workspace", "thread", "opened thread")

UpdateRefs(r) ==
    /\ At(r, "opened thread")
    /\ IF session = "active" THEN refs' = TRUE /\ Goto(r, "documents")
                             ELSE Break(r) /\ UNCHANGED refs
    /\ UNCHANGED <<session, guard, run, lease, job, bound, remote, fresh, todo, crashed>>

\* list_current_by_chat: only what is not bound yet is attached
ReadBindings(r) ==
    /\ At(r, "documents")
    /\ fresh' = [fresh EXCEPT ![r] = @ \ bound]
    /\ Goto(r, IF fresh[r] \subseteq bound THEN "streaming" ELSE "planning")
    /\ UNCHANGED <<rows, remote, todo, crashed>>

PlanDocument(r) ==
    /\ At(r, "planning")
    /\ \E d \in fresh[r] :
          IF Conflict(d, r) THEN Break(r) /\ UNCHANGED lease
          ELSE /\ Plan(d, r)
               /\ lease[d].status = "none"
               /\ Goto(r, IF \A e \in fresh[r] \ {d} : lease[e].by = r
                          THEN "attaching" ELSE "planning")
    /\ UNCHANGED <<session, refs, guard, run, job, bound, remote, fresh, todo, crashed>>

\* Mutant: the receipts are not compared with what was asked for.
AttachUnconfirmed(r) ==
    /\ At(r, "attaching")
    /\ \E part \in SUBSET fresh[r] :
          /\ part # {} => Exists("workspace")
          /\ remote' = remote \cup (part \X {r})
    /\ Goto(r, "attached")
    /\ UNCHANGED <<rows, fresh, todo, crashed>>

\* attach_documents needs the workspace; it may fail with a part attached
Attach(r) ==
    /\ At(r, "attaching")
    /\ \/ /\ Exists("workspace")
          /\ remote' = remote \cup (fresh[r] \X {r})
          /\ Goto(r, "attached")
       \/ /\ \E part \in SUBSET fresh[r] :
                /\ part # {} => Exists("workspace")
                /\ remote' = remote \cup (part \X {r})
          /\ Break(r)
    /\ UNCHANGED <<rows, fresh, todo, crashed>>

\* the binding row, then its lease, document after document
BindDocument(r) ==
    /\ At(r, "attached")
    /\ \E d \in fresh[r] : bound' = bound \cup {d} /\ Goto(r, d)
    /\ UNCHANGED <<session, refs, guard, run, lease, job, remote, fresh, todo, crashed>>

ActivateDocument(r) ==
    \E d \in fresh[r] :
        /\ At(r, d)
        /\ IF CanActivate(d)
           THEN /\ SetLease(d, "active")
                /\ fresh' = [fresh EXCEPT ![r] = @ \ {d}]
                /\ Goto(r, IF fresh[r] = {d} THEN "streaming" ELSE "attached")
           ELSE Break(r) /\ UNCHANGED <<lease, fresh>>
        /\ UNCHANGED <<session, refs, guard, run, job, bound, remote, todo, crashed>>

\* chatInfo and the chunks: append an event, then the heartbeat
Emit(r) ==
    /\ At(r, "streaming")
    /\ IF run[r].abort \/ ~Active(r)
       THEN Goto(r, IF run[r].abort THEN "aborting" ELSE "failing") /\ UNCHANGED run
       ELSE run' = [run EXCEPT ![r].stale = FALSE] /\ UNCHANGED pc
    /\ UNCHANGED <<session, refs, guard, lease, job, bound, remote, fresh, todo, crashed>>

\* the model is done, fails, exceeds the output limit, or the client has gone
EndStream(r) ==
    /\ At(r, "streaming")
    /\ \/ Goto(r, IF run[r].abort THEN "aborting" ELSE "succeeding")
       \/ Break(r)
    /\ UNCHANGED <<rows, remote, fresh, todo, crashed>>

\* Mutant: the verdict is written whatever the run's status is by now.
SettleAnyway(r, verdict, event) ==
    /\ run' = [run EXCEPT ![r].status = verdict, ![r].user = "committed",
                          ![r].answer = (verdict = "succeeded"), ![r].event = event]
    /\ fresh' = [fresh EXCEPT ![r] = {}]
    /\ Goto(r, "done")
    /\ UNCHANGED <<session, refs, guard, lease, job, bound, remote, todo, crashed>>

\* _finish_run_with_user: of a run that is not active any more it changes nothing
Settle(r, verdict, event) ==
    /\ run' = [run EXCEPT ![r] =
          IF Active(r)
          THEN [@ EXCEPT !.status = verdict, !.user = "committed",
                         !.answer = (verdict = "succeeded"), !.event = event]
          ELSE @]
    /\ fresh' = [fresh EXCEPT ![r] = {}]
    /\ Goto(r, "done")
    /\ UNCHANGED <<session, refs, guard, lease, job, bound, remote, todo, crashed>>

Succeed(r)  == At(r, "succeeding") /\ Settle(r, "succeeded", "done")
Fail(r)     == At(r, "failing") /\ Settle(r, "failed", "error")
StopRun(r)  == At(r, "aborting") /\ Settle(r, "aborted", "aborted")

(***************************************************************************)
(* Abort: expire what is stale, pick an active run, and set the flag if it *)
(* is active still.  On an accepted run the flag counts as a sign of life  *)
(* (updated_at).                                                           *)
(***************************************************************************)
AbortExpire ==
    /\ run' = ExpireStaleRuns
    /\ UNCHANGED <<session, refs, guard, lease, job, bound, remote, local, crashed>>

RequestAbort(r) ==
    /\ Active(r)
    /\ run' = [run EXCEPT ![r].abort = TRUE, ![r].stale = @ /\ run[r].status = "running"]
    /\ UNCHANGED <<session, refs, guard, lease, job, bound, remote, local, crashed>>

(***************************************************************************)
(* Titles: a temporary thread in the workspace of the conversation.        *)
(***************************************************************************)
TitleRead(t) ==
    /\ At(t, "idle")
    /\ session = "active" /\ refs
    /\ \E r \in Runs : run[r].user = "committed"
    /\ Goto(t, "planned")
    /\ UNCHANGED <<rows, remote, fresh, todo, crashed>>

\* Mutant: the lease is planned in the name of the title request.
TitlePlanAsRun(t) ==
    /\ At(t, "planned")
    /\ lease' = [lease EXCEPT ![t] = [status |-> "planned", by |-> t]]
    /\ Goto(t, "temporary")
    /\ UNCHANGED <<session, refs, guard, run, job, bound, remote, fresh, todo, crashed>>

\* begin(require_active_session): the gate against a deletion
TitlePlan(t) ==
    /\ At(t, "planned")
    /\ IF session = "active"
       THEN lease' = [lease EXCEPT ![t] = [status |-> "planned", by |-> None]]
            /\ Goto(t, "temporary")
       ELSE Goto(t, "done") /\ UNCHANGED lease
    /\ UNCHANGED <<session, refs, guard, run, job, bound, remote, fresh, todo, crashed>>

\* a thread that was not opened leaves its lease to be closed
TitleOpen(t) ==
    /\ At(t, "temporary")
    /\ \/ /\ Exists("workspace")
          /\ remote' = remote \cup {<<t, t>>}
          /\ Goto(t, "replying")
       \/ Goto(t, "undone") /\ UNCHANGED remote
    /\ UNCHANGED <<rows, fresh, todo, crashed>>

TitleUndo(t) ==
    /\ At(t, "undone")
    /\ IfPlanned({t}, "closed")
    /\ Goto(t, "done")
    /\ UNCHANGED <<session, refs, guard, run, job, bound, remote, fresh, todo, crashed>>

TitleActivate(t) ==
    /\ At(t, "replying")
    /\ SetLease(t, IF CanActivate(t) THEN "active" ELSE lease[t].status)
    /\ Goto(t, "replied")
    /\ UNCHANGED <<session, refs, guard, run, job, bound, remote, fresh, todo, crashed>>

\* whatever the reply was, the thread is deleted; what is gone counts as deleted
TitleDelete(t) ==
    /\ At(t, "replied")
    /\ \/ remote' = remote \ {<<t, t>>} /\ Goto(t, "deleted thread")
       \/ Exists(t) /\ Goto(t, "deferred") /\ UNCHANGED remote
    /\ UNCHANGED <<rows, fresh, todo, crashed>>

TitleClose(t) ==
    /\ At(t, "deleted thread")
    /\ SetLease(t, "closed")
    /\ Goto(t, "done")
    /\ UNCHANGED <<session, refs, guard, run, job, bound, remote, fresh, todo, crashed>>

\* _record_temporary_cleanup_failure; the retry job follows at once, inline
TitleDefer(t) ==
    /\ At(t, "deferred")
    /\ SetLeases({t} \cap OpenLeases, "failed")
    /\ Goto(t, "queued")
    /\ UNCHANGED <<session, refs, guard, run, job, bound, remote, fresh, todo, crashed>>

TitleClaim(t) ==
    /\ At(t, "queued")
    /\ job' = [job EXCEPT ![t] = "running"]
    /\ Goto(t, "claimed")
    /\ UNCHANGED <<session, refs, guard, run, lease, bound, remote, fresh, todo, crashed>>

\* a closed lease has nothing left to clean
TitleRetry(t) ==
    /\ At(t, "claimed")
    /\ SetLeases({t} \cap OpenLeases, "pending")
    /\ IF Open(t) THEN Goto(t, "retrying") /\ UNCHANGED job
                  ELSE Goto(t, "done") /\ job' = [job EXCEPT ![t] = "succeeded"]
    /\ UNCHANGED <<session, refs, guard, run, bound, remote, fresh, todo, crashed>>

TitleRedelete(t) ==
    /\ At(t, "retrying")
    /\ \/ remote' = remote \ {<<t, t>>} /\ Goto(t, "retried")
       \/ Exists(t) /\ Goto(t, "kept") /\ UNCHANGED remote
    /\ UNCHANGED <<rows, fresh, todo, crashed>>

TitleRecord(t) ==
    /\ \/ /\ At(t, "retried")
          /\ SetLease(t, "closed")
          /\ job' = [job EXCEPT ![t] = "succeeded"]
       \/ /\ At(t, "kept")
          /\ SetLeases({t} \cap OpenLeases, "failed")
          /\ job' = [job EXCEPT ![t] = "failed"]
    /\ Goto(t, "done")
    /\ UNCHANGED <<session, refs, guard, run, bound, remote, fresh, todo, crashed>>

(***************************************************************************)
(* Deletion: close the session to others, then run the cleanup job inline. *)
(***************************************************************************)
\* Mutant: titles in flight are not looked for.
BeginDeletionUnderTitles(d) ==
    /\ At(d, "idle")
    /\ session \in {"active", "error"}
    /\ LET runs == ExpireStaleRuns IN NoneActive(runs) /\ run' = runs
    /\ session' = "deleting"
    /\ Goto(d, "deleting")
    /\ UNCHANGED <<refs, guard, lease, job, bound, remote, fresh, todo, crashed>>

BeginDeletion(d) ==
    /\ At(d, "idle")
    /\ session \in {"active", "error"}
    /\ LET runs == ExpireStaleRuns IN NoneActive(runs) /\ run' = runs
    /\ ~\E t \in Titles : Sending(t)
    /\ session' = "deleting"
    /\ Goto(d, "deleting")
    /\ UNCHANGED <<refs, guard, lease, job, bound, remote, fresh, todo, crashed>>

\* enqueue makes the job or takes the failed one up again, claim starts it
ClaimJob(d) ==
    /\ At(d, "deleting")
    /\ job' = [job EXCEPT !["chat"] = "running"]
    /\ Goto(d, "cleaning")
    /\ UNCHANGED <<session, refs, guard, run, lease, bound, remote, fresh, todo, crashed>>

\* without references nothing remote can be named
CheckReferences(d) ==
    /\ At(d, "cleaning")
    /\ IF refs THEN /\ IfPlanned({"workspace", "thread"}, "active")
                    /\ Goto(d, "mark thread")
               ELSE /\ Goto(d, IF OpenLeases = {} THEN "cleaned" ELSE "failed")
                    /\ UNCHANGED lease
    /\ UNCHANGED <<session, refs, guard, run, job, bound, remote, fresh, todo, crashed>>

MarkThread(d) ==
    /\ At(d, "mark thread")
    /\ SetLeases({"thread"} \cap OpenLeases, "pending")
    /\ Goto(d, "drop thread")
    /\ UNCHANGED <<session, refs, guard, run, job, bound, remote, fresh, todo, crashed>>

Without(ids) == {m \in remote : m[1] \notin ids}

DropThread(d) ==
    /\ At(d, "drop thread")
    /\ \/ remote' = Without({"thread"}) /\ Goto(d, "dropped thread")
       \/ Exists("thread") /\ Goto(d, "kept thread") /\ UNCHANGED remote
    /\ UNCHANGED <<rows, fresh, todo, crashed>>

\* close or blame the thread's lease
RecordThread(d) ==
    /\ \/ At(d, "dropped thread") /\ SetLease("thread", "closed")
       \/ At(d, "kept thread") /\ SetLeases({"thread"} \cap OpenLeases, "failed")
    /\ Goto(d, "mark context")
    /\ UNCHANGED <<session, refs, guard, run, job, bound, remote, fresh, todo, crashed>>

MarkContext(d) ==
    /\ At(d, "mark context")
    /\ SetLeases(({"workspace"} \cup Docs) \cap OpenLeases, "pending")
    /\ Goto(d, "drop context")
    /\ UNCHANGED <<session, refs, guard, run, job, bound, remote, fresh, todo, crashed>>

\* the workspace takes all it holds with it
DropContext(d) ==
    /\ At(d, "drop context")
    /\ \/ remote' = {} /\ Goto(d, "dropped context")
       \/ Exists("workspace") /\ Goto(d, "kept context") /\ UNCHANGED remote
    /\ UNCHANGED <<rows, fresh, todo, crashed>>

\* the context's answer holds for every open lease
RecordContext(d) ==
    /\ \/ /\ At(d, "dropped context")
          /\ SetLeases(OpenLeases, "closed")
          /\ Goto(d, "cleaned")
       \/ /\ At(d, "kept context")
          /\ SetLeases(OpenLeases, "failed")
          /\ Goto(d, "failed")
    /\ UNCHANGED <<session, refs, guard, run, job, bound, remote, fresh, todo, crashed>>

\* a lease that carries an error fails the job after all
JobSucceed(d) ==
    /\ At(d, "cleaned")
    /\ IF \E id \in Leases : lease[id].status = "failed"
       THEN Goto(d, "failed") /\ UNCHANGED job
       ELSE Goto(d, "closing") /\ job' = [job EXCEPT !["chat"] = "succeeded"]
    /\ UNCHANGED <<session, refs, guard, run, lease, bound, remote, fresh, todo, crashed>>

EndDeletion(d) ==
    /\ At(d, "closing")
    /\ session' = IF \E id \in Leases : lease[id].status = "failed" THEN "error" ELSE "deleted"
    /\ Goto(d, "idle")
    /\ UNCHANGED <<refs, guard, run, lease, job, bound, remote, fresh, todo, crashed>>

\* _mark_session_cleanup_error lists the open leases and goes by that list
JobFail(d) ==
    /\ At(d, "failed")
    /\ job' = [job EXCEPT !["chat"] = "failed"]
    /\ todo' = {<<id, lease[id].status>> : id \in OpenLeases}
    /\ Goto(d, "blaming")
    /\ UNCHANGED <<session, refs, guard, run, lease, bound, remote, fresh, crashed>>

Blame(d) ==
    /\ At(d, "blaming")
    /\ \E entry \in todo :
          LET id == entry[1] IN
          /\ todo' = todo \ {entry}
          /\ CASE entry[2] = "failed" -> UNCHANGED <<lease, pc>>
               [] entry[2] # "failed" /\ ~Open(id) -> Goto(d, "raised") /\ UNCHANGED lease
               [] OTHER -> SetLease(id, "failed") /\ UNCHANGED pc
    /\ UNCHANGED <<session, refs, guard, run, job, bound, remote, fresh, crashed>>

MarkError(d) ==
    /\ At(d, "blaming") /\ todo = {}
    /\ session' = "error"
    /\ Goto(d, "idle")
    /\ UNCHANGED <<refs, guard, run, lease, job, bound, remote, fresh, todo, crashed>>

(***************************************************************************)
(* Time and crashes.                                                       *)
(***************************************************************************)
GuardLapses ==
    /\ guard.holder # None /\ ~guard.expired
    /\ guard' = [guard EXCEPT !.expired = TRUE]
    /\ UNCHANGED <<session, refs, run, lease, job, bound, remote, local, crashed>>

\* no heartbeat for stale_after_seconds: its thread has died, or is slow
Stall(r) ==
    /\ Active(r) /\ (r \in Slow \/ At(r, "dead"))
    /\ run' = [run EXCEPT ![r].stale = TRUE]
    /\ UNCHANGED <<session, refs, guard, lease, job, bound, remote, local, crashed>>

\* nothing of a chat is taken up again at the next start
Crash ==
    /\ Crashes /\ ~crashed
    /\ crashed' = TRUE
    /\ pc' = [t \in Threads |-> IF pc[t] \in {"idle", "done", "raised"} THEN pc[t] ELSE "dead"]
    /\ fresh' = [r \in Runs |-> {}] /\ todo' = {}
    /\ UNCHANGED <<rows, remote>>

RunStep(r) ==
    \/ Refuse(r) \/ Accept(r) \/ CloseEarly(r) \/ Start(r)
    \/ Enter(r) \/ ReadSession(r) \/ PlanWorkspace(r) \/ PlanThread(r)
    \/ OpenConversation(r) \/ GiveUpOpening(r)
    \/ ActivateWorkspace(r) \/ ActivateThread(r) \/ UpdateRefs(r)
    \/ ReadBindings(r) \/ PlanDocument(r) \/ Attach(r)
    \/ BindDocument(r) \/ ActivateDocument(r)
    \/ EndStream(r) \/ Succeed(r) \/ Fail(r) \/ StopRun(r)

TitleStep(t) ==
    \/ TitlePlan(t) \/ TitleOpen(t) \/ TitleUndo(t) \/ TitleActivate(t)
    \/ TitleDelete(t) \/ TitleClose(t) \/ TitleDefer(t) \/ TitleClaim(t)
    \/ TitleRetry(t) \/ TitleRedelete(t) \/ TitleRecord(t)

DeletionStep(d) ==
    \/ ClaimJob(d) \/ CheckReferences(d) \/ MarkThread(d) \/ DropThread(d)
    \/ RecordThread(d) \/ MarkContext(d) \/ DropContext(d) \/ RecordContext(d)
    \/ JobSucceed(d) \/ EndDeletion(d) \/ JobFail(d) \/ Blame(d) \/ MarkError(d)

Next ==
    \/ \E r \in Runs : Reserve(r) \/ RunStep(r) \/ Emit(r) \/ RequestAbort(r) \/ Stall(r)
    \/ \E t \in Titles : TitleRead(t) \/ TitleStep(t)
    \/ \E d \in Deletes : BeginDeletion(d) \/ DeletionStep(d)
    \/ AbortExpire \/ GuardLapses \/ Crash

Spec == Init /\ [][Next]_vars

-----------------------------------------------------------------------------
(***************************************************************************)
(* Properties.                                                             *)
(***************************************************************************)

\* A conversation has one run at a time, and none beside a guard that still
\* holds; once a deletion has closed the session there is neither a run nor a
\* title about to use its workspace (reserve_chat_admission,
\* try_acquire_chat_run, begin_chat_deletion).
OneAtATime ==
    /\ \A r, s \in Runs : Active(r) /\ Active(s) => r = s
    /\ guard.holder # None /\ ~guard.expired => Idle
    /\ session \in {"deleting", "deleted", "error"} =>
           Idle /\ \A t \in Titles : lease[t].status \notin {"planned", "active"}

\* The verdict on a run is passed once: a run expired as stale that comes back
\* changes neither it, nor the messages, nor the terminal event
\* (_finish_run_with_user, _expire_stale_runs, discard_unstarted_run).
VerdictFinal ==
    [][\A r \in Runs : run[r].status \in Verdicts =>
           [run'[r] EXCEPT !.stale = FALSE] = [run[r] EXCEPT !.stale = FALSE]]_vars

\* While the chat can be used, references in its session lead to a workspace
\* and a thread that exist and are leased, and a bound document is attached:
\* the next run goes on from them unasked (_open_or_reuse_conversation,
\* _attach_new_documents).
ReferencesHold ==
    session = "active" =>
        /\ refs => \A id \in {"workspace", "thread"} :
                       Exists(id) /\ lease[id].status = "active"
        /\ \A d \in bound : Exists(d) /\ Open(d)

\* No remote resource is lost sight of: there is one workspace at most, what
\* exists has an open lease, and of a deleted chat only a run that expired and
\* came back can have made it.
NothingForgotten ==
    /\ Cardinality({t \in Threads : <<"workspace", t>> \in remote}) <= 1
    /\ \A m \in remote : Open(m[1])
    /\ session = "deleted" =>
           \A m \in remote : m[2] \in Runs /\ run[m[2]].status = "failed" /\ run[m[2]].stale

\* Nothing waits for a thread that has gone: unless the process crashed, an
\* accepted run has its thread until the verdict, and a session is deleting only
\* while a deletion works on it, or after one was stopped by a lease that was
\* closed between its listing and its blame (close_response,
\* ChatRunEventRecorder.record, _mark_session_cleanup_error).
Attended ==
    /\ \A r \in Runs : Active(r) => pc[r] \notin {"idle", "guarded", "done"}
    /\ session = "deleting" => \E d \in Deletes : pc[d] # "idle"
    /\ ~crashed => \A t \in Threads : pc[t] # "dead"
=============================================================================
