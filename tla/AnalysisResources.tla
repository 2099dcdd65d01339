--------------------------- MODULE AnalysisResources ---------------------------
(***************************************************************************)
(* The remote resources of file analyses and the records of them: the      *)
(* worker of each execution, which opens a remote session, uploads a       *)
(* document, offers it to the knowledge base and closes the session, and   *)
(* writes each of these down before or after it does it; the sweep of the  *)
(* same process, which settles the records nobody works on any more; and   *)
(* the crash of that process.                                              *)
(*                                                                         *)
(* One action is one compare-and-set of a record, one remote call or one   *)
(* decision between them.  A write of a record fails without effect, at    *)
(* most MaxFaults times; a remote call has any of the outcomes its adapter *)
(* can return.  The model calls of an execution are one call.              *)
(***************************************************************************)
EXTENDS Naturals

CONSTANTS
    Executions,
    MaxDeferrals, \* deferrals of a record before it is quarantined
    MaxFaults,    \* bound: failures of local writes
    Crashes       \* TRUE: the process may die, once

ASSUME AnalysisResourcesAssumption ==
    /\ MaxDeferrals \in Nat \ {0} /\ MaxFaults \in Nat /\ Crashes \in BOOLEAN

VARIABLES
    task,     \* llm_task_executions: running, superseded (no longer its file's latest), over
    row,      \* analysis_resource_records
    waiting,  \* records whose next_recovery_at lies ahead
    expired,  \* how many of the deadlines an execution has set have expired
    session, document,  \* the remote side
    at, mine, \* where a worker is with what it remembers, and its copy of its record
    active,   \* InMemoryAnalysisResourceActivityAdapter
    sweep,    \* how far the sweep is with an execution, and its copy of the record
    faults, crashed

record == <<row, waiting>>
remote == <<session, document>>
worker == <<at, mine, active>>
vars   == <<task, record, expired, remote, worker, sweep, faults, crashed>>

Unsettled == {"tracking", "cleanup_pending", "audit_pending"}
Settled   == {"cleaned", "quarantined"}

\* own: ownership.document; receipt: the interaction audit is recorded; close: session_close;
\* deadline: which recovery_not_before the record carries, none is 0
Rows == [state : {"none"} \cup Unsettled \cup Settled, version : Nat,
         own : {"temporary", "permanent", "unknown", "released"}, receipt : BOOLEAN,
         close : {"not_planned", "planned", "running", "confirmed", "outcome_unknown"},
         deadline : Nat, tries : Nat]

NoRow == [state |-> "none", version |-> 0, own |-> "temporary", receipt |-> FALSE,
          close |-> "not_planned", deadline |-> 0, tries |-> 0]

Places == {"idle", "register", "recall", "open", "opened", "upload", "execute", "executed",
           "recalled", "interact", "latest", "knowledge", "stored", "finish",
           "fail recall", "fail audit", "audit pending", "isolate", "conclude",
           "prepare", "mark", "close", "closed", "append", "appended", "close failed",
           "leave", "done"}

\* what a worker remembers, _RagWorkflowState: an exception is on its way, the session is
\* open, the interaction audit was attempted or its receipt is held, preserve_scene,
\* retain_document, and what the knowledge base or the close answered
Spots == [pc : Places, failed : BOOLEAN, opened : BOOLEAN,
          receipt : {"none", "attempted", "held"}, preserve : BOOLEAN, retain : BOOLEAN,
          reply : {"none", "committed", "not_applied", "confirmed", "unknown"}]

Blank == [pc |-> "idle", failed |-> FALSE, opened |-> FALSE, receipt |-> "none",
          preserve |-> FALSE, retain |-> FALSE, reply |-> "none"]

\* what the sweep does next with an execution; none: it is not, or no longer, concerned
Stages   == {"none", "listed", "read", "append", "quarantine", "unknown", "clean", "defer"}
Sweeping == [stage : Stages, copy : Rows]
Passed == [stage |-> "none", copy |-> NoRow]

TypeOK ==
    /\ task \in [Executions -> {"running", "superseded", "over"}]
    /\ row \in [Executions -> Rows] /\ mine \in [Executions -> Rows]
    /\ waiting \subseteq Executions /\ active \subseteq Executions
    /\ expired \in [Executions -> Nat]
    /\ session \in [Executions -> {"none", "open", "closed"}]
    /\ document \in [Executions -> {"none", "temporary", "permanent", "deleted"}]
    /\ at \in [Executions -> Spots] /\ sweep \in [Executions -> Sweeping]
    /\ faults \in Nat /\ crashed \in BOOLEAN

Init ==
    /\ task = [e \in Executions |-> "running"]
    /\ row = [e \in Executions |-> NoRow] /\ mine = [e \in Executions |-> NoRow]
    /\ waiting = {} /\ active = {}
    /\ expired = [e \in Executions |-> 0]
    /\ session = [e \in Executions |-> "none"]
    /\ document = [e \in Executions |-> "none"]
    /\ at = [e \in Executions |-> Blank]
    /\ sweep = [e \in Executions |-> Passed]
    /\ faults = 0 /\ crashed = FALSE

(***************************************************************************)
(* The store, and the shapes of a worker's steps.                          *)
(***************************************************************************)

Store(e, rec) == row' = [row EXCEPT ![e] = rec]

\* advance_analysis_resource_record, whose caller read rec and writes new
Advance(e, rec, new) ==
    /\ row[e].state = rec.state /\ row[e].version = rec.version
    /\ Store(e, [new EXCEPT !.version = rec.version + 1, !.tries = 0])
    /\ waiting' = waiting \ {e}

Fails == faults < MaxFaults /\ faults' = faults + 1

At(e, place) == at[e].pc = place
Go(e, place) == [at[e] EXCEPT !.pc = place]
Put(e, to)   == at' = [at EXCEPT ![e] = to]
Kept(place)  == [place EXCEPT !.preserve = TRUE]

\* the worker goes on without a write or a remote call
Local(e, to) ==
    Put(e, to) /\ UNCHANGED <<task, record, expired, remote, mine, active, sweep, crashed>>

\* AnalysisResourceLifecycle._advance: to ok once new is stored, to ko when it is not
Save(e, new, ok, ko) ==
    /\ \/ /\ Advance(e, mine[e], new)
          /\ mine' = [mine EXCEPT ![e] = row'[e]]
          /\ Put(e, ok) /\ UNCHANGED faults
       \/ /\ row[e] = mine[e] => faults < MaxFaults
          /\ faults' = IF row[e] = mine[e] THEN faults + 1 ELSE faults
          /\ Put(e, ko) /\ UNCHANGED <<record, mine>>
    /\ UNCHANGED <<task, expired, remote, active, sweep, crashed>>

\* a call to the remote side
Call(e, to) == Put(e, to) /\ UNCHANGED <<task, record, expired, mine, active, sweep, faults, crashed>>

\* mutant: the ownership takes the word of the close
UnknownOwner(rec) == [rec EXCEPT !.state = "quarantined", !.own = "outcome_unknown",
                                 !.close = "outcome_unknown"]

Quarantined(rec) == [rec EXCEPT !.state = "quarantined"]
Unknown(rec)     == [Quarantined(rec) EXCEPT !.own = "unknown", !.close = "outcome_unknown"]
(***************************************************************************)
(* The worker: up to the remote session.                                   *)
(***************************************************************************)

\* begin_worker: the right to the record is taken before there is a record
Acquire(e) ==
    /\ At(e, "idle") /\ task[e] = "running"
    /\ active' = active \cup {e} /\ Put(e, Go(e, "register"))
    /\ UNCHANGED <<task, record, expired, remote, mine, sweep, faults, crashed>>

Register(e) ==
    /\ At(e, "register")
    /\ \/ /\ Store(e, [NoRow EXCEPT !.state = "tracking"])
          /\ mine' = [mine EXCEPT ![e] = row'[e]]
          /\ Put(e, Go(e, "recall")) /\ UNCHANGED <<waiting, active, faults>>
       \/ /\ Fails
          /\ active' = active \ {e} /\ Put(e, Go(e, "conclude"))
          /\ UNCHANGED <<record, mine>>
    /\ UNCHANGED <<task, expired, remote, sweep, crashed>>

RecordRecall(e) ==
    At(e, "recall") /\ Save(e, mine[e], Go(e, "open"), Go(e, "isolate"))

\* nothing remote exists: the factory has failed, or the record could not be kept
Isolate(e) ==
    /\ At(e, "isolate")
    /\ Save(e, Quarantined(mine[e]), Go(e, "conclude"), Go(e, "conclude"))

OpenSession(e) ==
    /\ At(e, "open")
    /\ \/ session' = [session EXCEPT ![e] = "open"]
          /\ Call(e, [Go(e, "opened") EXCEPT !.opened = TRUE])
       \/ session' \in {session, [session EXCEPT ![e] = "open"]}
          /\ \E unknown \in BOOLEAN :
                Call(e, [Go(e, "opened") EXCEPT !.failed = TRUE, !.preserve = unknown])
       \/ session' = session /\ Call(e, Go(e, "isolate"))
    /\ UNCHANGED document

\* checkpoint_rag_state: a lifecycle event of unknown outcome isolates the record
Checkpoint(e) ==
    /\ at[e].pc \in {"opened", "executed"}
    /\ LET next == IF at[e].failed THEN "fail recall"
                   ELSE IF At(e, "opened") THEN "upload" ELSE "recalled"
           fail == Kept(Go(e, "fail recall"))
       IN  IF at[e].preserve
           THEN Save(e, Quarantined(mine[e]), fail, fail)
           ELSE Save(e, mine[e], Go(e, next), fail)

(***************************************************************************)
(* The worker: the model, the audits, the knowledge base.                  *)
(***************************************************************************)

PrepareUpload(e) ==
    At(e, "upload") /\ Save(e, mine[e], Go(e, "execute"), Kept(Go(e, "fail recall")))

Execute(e) ==
    /\ At(e, "execute")
    /\ \/ document' = [document EXCEPT ![e] = "temporary"] /\ Call(e, Go(e, "executed"))
       \/ document' \in {document, [document EXCEPT ![e] = "temporary"]}
          /\ \E unknown \in BOOLEAN :
                Call(e, [Go(e, "executed") EXCEPT !.failed = TRUE, !.preserve = unknown])
    /\ UNCHANGED session

FinalizeRecall(e) ==
    At(e, "recalled") /\ Save(e, mine[e], Go(e, "interact"), Kept(Go(e, "fail recall")))

\* persist_interaction and record_interaction_receipt; the audit may fail on its own
PersistInteraction(e) ==
    /\ At(e, "interact")
    /\ LET held == [Go(e, "latest") EXCEPT !.receipt = "held"]
       IN  \/ Save(e, [mine[e] EXCEPT !.receipt = TRUE], held,
                   Kept([held EXCEPT !.pc = "fail recall"]))
           \/ Fails /\ Local(e, [Go(e, "fail recall") EXCEPT !.receipt = "attempted"])

\* the last look at the task before the knowledge base, or a look that fails; a task that
\* is found superseded is left as it is
Latest(e) ==
    /\ At(e, "latest")
    /\ \/ Local(e, Go(e, IF task[e] = "superseded" THEN "prepare" ELSE "knowledge"))
          /\ UNCHANGED faults
       \/ Fails /\ Local(e, Go(e, "leave"))

\* KnowledgeIndexConflictError is the one failure that is raised and not returned
StoreDocument(e) ==
    /\ At(e, "knowledge")
    /\ \/ document' = [document EXCEPT ![e] = "permanent"]
          /\ Call(e, [Go(e, "stored") EXCEPT !.reply = "committed"])
       \/ document' = document /\ Call(e, [Go(e, "stored") EXCEPT !.reply = "not_applied"])
       \/ document' \in {document, [document EXCEPT ![e] = "permanent"]}
          /\ Call(e, [Go(e, "stored") EXCEPT !.reply = "unknown"])
       \/ document' = document /\ Call(e, Go(e, "fail recall"))
    /\ UNCHANGED session

RecordKnowledge(e) ==
    /\ At(e, "stored")
    /\ LET asked == [at[e] EXCEPT !.reply = "none"]
           fail  == [asked EXCEPT !.pc = "fail recall"]
           kept  == Kept([fail EXCEPT !.retain = TRUE])
       IN  CASE at[e].reply = "committed" ->
                  Save(e, [mine[e] EXCEPT !.own = "permanent"],
                       [asked EXCEPT !.pc = "finish", !.retain = TRUE], Kept(fail))
             [] at[e].reply = "not_applied" ->
                  Save(e, [mine[e] EXCEPT !.own = "temporary"], fail, Kept(fail))
             [] OTHER ->
                  Save(e, [Quarantined(mine[e]) EXCEPT !.own = "unknown"], kept, Kept(fail))

\* the progress and terminal writes of a success are conditional on the task still being
\* the worker's own; what lies between them may fail; a write of unknown outcome ends it
Finish(e) ==
    /\ At(e, "finish")
    /\ \/ /\ task' = [task EXCEPT ![e] = "over"]
          /\ Put(e, Go(e, "prepare")) /\ UNCHANGED faults
       \/ Put(e, Go(e, "fail recall")) /\ UNCHANGED <<task, faults>>
       \/ Fails /\ Put(e, Go(e, "leave")) /\ task' \in {task, [task EXCEPT ![e] = "over"]}
    /\ UNCHANGED <<record, expired, remote, mine, active, sweep, crashed>>

(***************************************************************************)
(* The worker: convergence of a failure, finish_rag_failure.               *)
(***************************************************************************)
FailRecall(e) ==
    /\ At(e, "fail recall")
    /\ LET next == Go(e, "fail audit")
       IN  IF mine[e].state = "tracking"
           THEN Save(e, mine[e], next, Kept(next))
           ELSE Local(e, Kept(next)) /\ UNCHANGED faults

\* an audit that was attempted is not repeated; an open without events has nothing to audit
FailAudit(e) ==
    /\ At(e, "fail audit")
    /\ LET held == [Go(e, "conclude") EXCEPT !.receipt = "held"]
           lost == Kept(Go(e, "audit pending"))
           both == Kept([held EXCEPT !.pc = "audit pending"])
       IN  CASE at[e].receipt = "held"      -> Local(e, held) /\ UNCHANGED faults
             [] at[e].receipt = "attempted" -> Local(e, lost) /\ UNCHANGED faults
             [] OTHER ->
                  \/ IF mine[e].state = "tracking"
                     THEN Save(e, [mine[e] EXCEPT !.receipt = TRUE], held, both)
                     ELSE Local(e, both) /\ UNCHANGED faults
                  \/ Fails /\ Local(e, lost)
                  \/ ~at[e].opened /\ Local(e, Go(e, "audit pending")) /\ UNCHANGED faults

MarkAuditPending(e) ==
    /\ At(e, "audit pending")
    /\ LET next == Go(e, "conclude")
       IN  IF mine[e].state = "quarantined"
           THEN Local(e, next) /\ UNCHANGED faults
           ELSE Save(e, [mine[e] EXCEPT !.state = "audit_pending"], next, Kept(next))

\* finish_failure, and whether the session may be closed
Conclude(e) ==
    /\ At(e, "conclude")
    /\ \/ /\ task' = [task EXCEPT ![e] = "over"] /\ UNCHANGED faults
          /\ Put(e, Go(e, IF at[e].receipt = "held" /\ at[e].opened /\ ~at[e].preserve
                          THEN "prepare" ELSE "leave"))
       \/ Fails /\ Put(e, Go(e, "leave")) /\ task' \in {task, [task EXCEPT ![e] = "over"]}
    /\ UNCHANGED <<record, expired, remote, mine, active, sweep, crashed>>

(***************************************************************************)
(* The worker: intent, running, remote close, audit, cleaned.              *)
(***************************************************************************)

\* who may delete the document: nobody whose record says the knowledge base has it
PrepareClose(e) ==
    /\ At(e, "prepare")
    /\ LET leave == Go(e, "leave")
       IN  IF mine[e].state # "tracking"
           THEN Local(e, leave) /\ UNCHANGED faults
           ELSE IF mine[e].own = (IF at[e].retain THEN "permanent" ELSE "temporary")
           THEN Save(e, [mine[e] EXCEPT !.state = "cleanup_pending", !.close = "planned",
                                        !.deadline = @ + 1],
                     Go(e, "mark"), leave)
           ELSE Save(e, [Quarantined(mine[e]) EXCEPT !.own = "unknown"], leave, leave)

MarkRunning(e) ==
    /\ At(e, "mark")
    /\ Save(e, [mine[e] EXCEPT !.close = "running", !.deadline = @ + 1],
            Go(e, "close"), Go(e, "leave"))

\* the session and, unless it is retained, the document: both go and the adapter knows, or
\* it does not know which went; or its answer is not of this session
CloseSession(e) ==
    /\ At(e, "close")
    /\ LET gone == IF at[e].retain \/ document[e] = "none" THEN document
                   ELSE [document EXCEPT ![e] = "deleted"]
           closed == [session EXCEPT ![e] = "closed"]
       IN  \/ /\ session' = closed /\ document' = gone
              /\ Call(e, [Go(e, "closed") EXCEPT !.reply = "confirmed"])
           \/ /\ session' \in {session, closed} /\ document' \in {document, gone}
              /\ \/ Call(e, [Go(e, "closed") EXCEPT !.reply = "unknown"])
                 \/ Call(e, Go(e, "close failed"))

Confirmed(e) ==
    [mine[e] EXCEPT !.close = "confirmed", !.own = IF at[e].retain THEN @ ELSE "released"]

RecordClose(e) ==
    /\ At(e, "closed")
    /\ Save(e, IF at[e].reply = "confirmed" THEN Confirmed(e) ELSE Unknown(mine[e]),
            Go(e, "append"), Go(e, "close failed"))

AppendEvents(e) ==
    /\ At(e, "append")
    /\ \/ Local(e, Go(e, "appended")) /\ UNCHANGED faults
       \/ Fails /\ Local(e, Go(e, "close failed"))

MarkAudited(e) ==
    /\ At(e, "appended")
    /\ IF mine[e].state = "quarantined"
       THEN Local(e, Go(e, "leave")) /\ UNCHANGED faults
       ELSE Save(e, [mine[e] EXCEPT !.state = "cleaned"], Go(e, "leave"), Go(e, "close failed"))

\* record_close_failure: what the close has answered is kept, and the sweep may go on
RecordCloseFailure(e) ==
    /\ At(e, "close failed")
    /\ LET leave == Go(e, "leave")
       IN  IF mine[e].state = "quarantined"
           THEN Local(e, leave) /\ UNCHANGED faults
           ELSE Save(e, IF at[e].reply = "confirmed"
                        THEN [Confirmed(e) EXCEPT !.state = "audit_pending", !.deadline = 0]
                        ELSE Unknown(mine[e]),
                     leave, leave)

\* finish_worker
Leave(e) ==
    /\ At(e, "leave")
    /\ active' = active \ {e}
    /\ Put(e, [Blank EXCEPT !.pc = "done"]) /\ mine' = [mine EXCEPT ![e] = NoRow]
    /\ UNCHANGED <<task, record, expired, remote, sweep, faults, crashed>>

Worker(e) ==
    \/ Acquire(e) \/ Register(e) \/ RecordRecall(e) \/ Isolate(e) \/ OpenSession(e)
    \/ Checkpoint(e) \/ PrepareUpload(e) \/ Execute(e) \/ FinalizeRecall(e)
    \/ PersistInteraction(e) \/ Latest(e) \/ StoreDocument(e) \/ RecordKnowledge(e)
    \/ Finish(e) \/ FailRecall(e) \/ FailAudit(e) \/ MarkAuditPending(e) \/ Conclude(e)
    \/ PrepareClose(e) \/ MarkRunning(e) \/ CloseSession(e) \/ RecordClose(e)
    \/ AppendEvents(e) \/ MarkAudited(e) \/ RecordCloseFailure(e) \/ Leave(e)
(***************************************************************************)
(* The sweep, RecoverAnalysisResources.run_once.                           *)
(***************************************************************************)
\* mutant: an execution that ended before it planned a close is not looked for
RecoverablePlanned ==
    {e \in Executions : row[e].state \in {"cleanup_pending", "audit_pending"} /\ e \notin waiting}

Recoverable ==
    {e \in Executions :
        /\ \/ row[e].state \in {"cleanup_pending", "audit_pending"}
           \/ row[e].state = "tracking" /\ task[e] = "over"
        /\ e \notin waiting}

Sweeps(e, stage, copy) ==
    /\ sweep' = [sweep EXCEPT ![e] = [stage |-> stage, copy |-> copy]]
    /\ UNCHANGED <<task, expired, remote, worker, crashed>>

Next1(e, stage) == Sweeps(e, stage, sweep[e].copy) /\ UNCHANGED <<record, faults>>
Done(e)         == Sweeps(e, "none", NoRow)

List ==
    /\ \A e \in Executions : sweep[e].stage = "none"
    /\ Recoverable # {}
    /\ sweep' = [e \in Executions |->
                   IF e \in Recoverable THEN [Passed EXCEPT !.stage = "listed"] ELSE Passed]
    /\ UNCHANGED <<task, record, expired, remote, worker, faults, crashed>>

ReadRow(e) ==
    /\ sweep[e].stage = "listed"
    /\ Sweeps(e, "read", row[e]) /\ UNCHANGED <<record, faults>>

\* mutant: the sweep trusts the deadline alone
DecideByDeadline(e, rec) ==
    IF rec.state \in Settled THEN "none"
    ELSE IF rec.state = "tracking" THEN "quarantine"
    ELSE IF rec.deadline > expired[e] THEN "none"
    ELSE IF rec.close = "confirmed" THEN "append"
    ELSE IF rec.state = "cleanup_pending" /\ rec.close = "running" THEN "unknown"
    ELSE "quarantine"

\* mutant: a close that was begun counts as done
DecideBegunIsDone(e, rec) ==
    IF rec.state \in Settled \/ e \in active THEN "none"
    ELSE IF rec.state = "tracking" THEN "quarantine"
    ELSE IF rec.deadline > expired[e] THEN "none"
    ELSE IF rec.close \in {"confirmed", "running"} THEN "append"
    ELSE "quarantine"

\* recover: a settled record, one whose worker is alive in this process and one whose
\* deadline lies ahead are left alone; a close that has no answer is never repeated
Decide(e, rec) ==
    IF rec.state \in Settled \/ e \in active THEN "none"
    ELSE IF rec.state = "tracking" THEN "quarantine"
    ELSE IF rec.deadline > expired[e] THEN "none"
    ELSE IF rec.close = "confirmed" THEN "append"
    ELSE IF rec.state = "cleanup_pending" /\ rec.close = "running" THEN "unknown"
    ELSE "quarantine"

\* the look for an interaction receipt of a record that waits for its audit may fail
Check(e) ==
    /\ sweep[e].stage = "read"
    /\ \A d \in Executions : sweep[d].stage \in {"none", "read"}
    /\ LET rec  == sweep[e].copy
           plan == Decide(e, rec)
       IN  \/ IF plan = "none" THEN Done(e) /\ UNCHANGED <<record, faults>> ELSE Next1(e, plan)
           \/ /\ plan = "quarantine" /\ rec.state = "audit_pending"
              /\ Next1(e, "defer")

\* _append_close_events, idempotent; without a receipt there is nothing to append to
AppendAgain(e) ==
    /\ sweep[e].stage = "append"
    /\ \/ sweep[e].copy.receipt /\ Next1(e, "clean")
       \/ Next1(e, "defer")

Settle(e) ==
    /\ sweep[e].stage \in {"quarantine", "unknown", "clean"}
    /\ LET rec  == sweep[e].copy
           next == CASE sweep[e].stage = "clean"      -> [rec EXCEPT !.state = "cleaned"]
                     [] sweep[e].stage = "quarantine" -> Quarantined(rec)
                     [] OTHER                         -> Unknown(rec)
       IN  \/ Advance(e, rec, next) /\ Done(e) /\ UNCHANGED faults
           \/ /\ row[e] = rec => Fails
              /\ row[e] # rec => UNCHANGED faults
              /\ IF sweep[e].stage = "clean" THEN Sweeps(e, "defer", rec) ELSE Done(e)
              /\ UNCHANGED record

\* _defer_or_quarantine: the retry is put off, in the end the record is quarantined as it is
Defer(e) ==
    /\ sweep[e].stage = "defer"
    /\ LET rec == sweep[e].copy
           at_hand == row[e].version = rec.version /\ row[e].state = rec.state
       IN  \/ /\ at_hand
              /\ IF rec.tries >= MaxDeferrals
                 THEN /\ Store(e, [Quarantined(rec) EXCEPT !.version = @ + 1])
                      /\ UNCHANGED waiting
                 ELSE /\ Store(e, [rec EXCEPT !.version = @ + 1, !.tries = @ + 1])
                      /\ waiting' = waiting \cup {e}
              /\ UNCHANGED faults
           \/ /\ at_hand => Fails
              /\ ~at_hand => UNCHANGED faults
              /\ UNCHANGED record
    /\ Done(e)

Sweep == List \/ \E e \in Executions :
            ReadRow(e) \/ Check(e) \/ AppendAgain(e) \/ Settle(e) \/ Defer(e)

(***************************************************************************)
(* The rest of the program, time, and the process.                         *)
(***************************************************************************)

\* a writer of the file's task other than its execution
Supersede(e) ==
    /\ task[e] = "running" /\ task' = [task EXCEPT ![e] = "superseded"]
    /\ UNCHANGED <<record, expired, remote, worker, sweep, faults, crashed>>

DeadlinePasses(e) ==
    /\ expired[e] < row[e].deadline /\ expired' = [expired EXCEPT ![e] = @ + 1]
    /\ UNCHANGED <<task, record, remote, worker, sweep, faults, crashed>>

RetryDue(e) ==
    /\ e \in waiting /\ waiting' = waiting \ {e}
    /\ UNCHANGED <<task, row, expired, remote, worker, sweep, faults, crashed>>

\* what a process remembers goes with it; what has not begun is begun by the next one
Crash ==
    /\ Crashes /\ ~crashed /\ crashed' = TRUE
    /\ at' = [e \in Executions |-> IF At(e, "idle") THEN at[e]
                                   ELSE [Blank EXCEPT !.pc = "done"]]
    /\ mine' = [e \in Executions |-> NoRow]
    /\ active' = {} /\ sweep' = [e \in Executions |-> Passed]
    /\ UNCHANGED <<task, record, expired, remote, faults>>

Next ==
    \/ \E e \in Executions : Worker(e) \/ Supersede(e) \/ DeadlinePasses(e) \/ RetryDue(e)
    \/ Sweep \/ Crash

\* threads run and calls return, time passes, the sweep comes round; nothing makes an
\* audit succeed, and nothing ends an execution whose process has died
Fairness ==
    /\ WF_vars(Sweep)
    /\ \A e \in Executions :
          WF_vars(Worker(e)) /\ WF_vars(DeadlinePasses(e)) /\ WF_vars(RetryDue(e))

Spec == Init /\ [][Next]_vars /\ Fairness

(***************************************************************************)
(* Properties.                                                             *)
(***************************************************************************)

\* While a worker is between taking and giving up the right to its record, its copy is the
\* record: no sweep, whatever it has read and however long ago, writes the record under it
\* and turns a close that went well into one that failed (_protect_active_resource_worker).
WorkerUndisturbed == \A e \in active : ~At(e, "register") => row[e] = mine[e]

Disposal == INSTANCE ResourceDisposal WITH
                verdict <- [e \in Executions |->
                              IF row[e].state \in Settled THEN row[e].state ELSE "open"]

\* Records and remote side do what ResourceDisposal promises: one verdict, nothing remote
\* after it, cleaned only once the session is gone and no temporary document is left, and
\* no close of a document the knowledge base has taken over.
ImplementsDisposal == Disposal!Spec

\* A record that says a close was planned or an audit is due, and one whose execution has
\* ended, is settled in the end, cleaned or quarantined, whatever step its process died at
\* and however often its audit fails.  (The record of an execution that died running is
\* kept: the code only reports such executions.)
Settles ==
    \A e \in Executions :
        (\/ row[e].state \in {"cleanup_pending", "audit_pending"}
         \/ row[e].state = "tracking" /\ task[e] = "over")
            ~> row[e].state \in Settled
================================================================================
