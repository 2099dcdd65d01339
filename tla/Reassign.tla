------------------------------- MODULE Reassign -------------------------------
(***************************************************************************)
(* One reassignment of a document to another category: the saga row, its   *)
(* lease and steps in SQLite, the memberships of the document in the       *)
(* remote workspaces of the old and the new category, the local row that   *)
(* names the category, the synchronous request that runs the saga and the  *)
(* recoverers that take it over once its lease has expired.                *)
(*                                                                         *)
(* One action is one unit of work, or one call of the knowledge port with  *)
(* the probe that ends it.  A unit of work is refused, fails, or commits;  *)
(* what has committed may look failed to its caller (Attempt).  A mutation *)
(* takes effect before the port returns or never.  The preparation claim   *)
(* of the target category changes hands with the lease and is not stored.  *)
(***************************************************************************)
CONSTANTS
    Request,      \* the thread of the synchronous request
    Recoverers,   \* threads that recover expired operations, one after another
    Scenes,       \* what an operation may start from: the document has a doc_path, its
                  \*   source and target category a workspace mapping, the document is in
                  \*   the source workspace, a workspace of the target exists
    Reclassifies, \* TRUE: the document row may be changed by other programs
    None

ASSUME ReassignAssumption ==
    /\ Request \notin Recoverers /\ None \notin Recoverers \cup {Request}
    /\ Scenes \subseteq [remote : BOOLEAN, source : BOOLEAN, mapping : BOOLEAN,
                          member : BOOLEAN, exists : BOOLEAN]
    /\ \A s \in Scenes : (s.source \/ s.mapping => s.remote) /\ (s.member => s.source)
    /\ Reclassifies \in BOOLEAN

Threads == {Request} \cup Recoverers

VARIABLES
    scene,     \* the one of Scenes the operation started from
    op,        \* reassign_operations: status, target workspace and its ownership,
               \*   newer: fencing_token > recovery_required_fencing_token
    lease,     \* owner, the threads whose copy is the row's, whether it expired
    step,      \* reassign_steps
    tried,     \* steps attempted under the current fencing token
    observer,  \* who wrote the latest observation of the current fencing token
    row,       \* documents.architecture_id: source, target, other
    member,    \* the document is in the remote workspace of its source, target
    workspace, \* the remote workspace of the target category exists
    at,        \* where each thread is, and what it remembers; "out" is a thread that has
               \*   answered that recovery is required, or has died
    late       \* threads whose remote budget is spent

rows   == <<op, lease, step, tried, observer, row>>
remote == <<member, workspace>>
vars   == <<scene, rows, remote, at, late>>

Mutations == {"detach", "attach", "undoTarget", "undoSource"}
Steps     == Mutations \cup {"prepare", "commit"}
Good      == {"done", "already"}        \* succeeded, with effect or without
Open      == {"started", "unknown"}
Settled   == {"succeeded", "failed", "compensated"}
Protecting == {"reserved", "running", "compensating", "recovery"}

Places ==
    {"idle", "reserved", "claiming", "renewing", "begin", "begun", "call", "complete",
     "create", "mapping", "fact", "unprepared", "commit", "reconcile", "give up",
     "compensate", "entering", "reread", "recheck", "note", "finalize", "isolate",
     "taken", "look", "look again", "prepared?", "target undone?", "source undone?",
     "facts", "decide", "enter", "verify", "out"} \cup Settled

TypeOK ==
    /\ scene \in Scenes
    /\ op \in [status : {"none"} \cup Protecting \cup Settled,
               target : {"none", "created", "preexisting", "unowned"},
               newer  : BOOLEAN]
    /\ lease \in [owner : Threads \cup {None}, holders : SUBSET Threads, expired : BOOLEAN]
    /\ step \in [Steps -> {"pending", "failed"} \cup Good \cup Open]
    /\ tried \subseteq Steps
    /\ observer \in Threads \cup {None}
    /\ row \in {"source", "target", "other"}
    /\ member \in [source : BOOLEAN, target : BOOLEAN]
    /\ workspace \in BOOLEAN
    /\ at \in [Threads ->
                 [pc   : Places,
                  todo : SUBSET Steps,
                  got  : {"none", "failed", "conflict", "created", "preexisting", "unowned"}
                         \cup Good \cup Open,
                  goal : {"none"} \cup Settled,
                  seen : [status : {"none"} \cup Protecting \cup Settled,
                          target : {"none", "created", "preexisting", "unowned"},
                          row    : {"source", "target", "other"}],
                  look : [{"workspace", "source", "target"} ->
                            {"present", "absent", "unknown", "none"}]]]
    /\ late \subseteq Threads

Blank == [pc |-> "idle", todo |-> {}, got |-> "none", goal |-> "none",
          seen |-> [status |-> "none", target |-> "none", row |-> "source"],
          look |-> [x \in {"workspace", "source", "target"} |-> "none"]]

Init ==
    /\ scene \in Scenes
    /\ member = [source |-> scene.member, target |-> FALSE]
    /\ workspace = scene.exists
    /\ op = [status |-> "none", target |-> "none", newer |-> FALSE]
    /\ lease = [owner |-> None, holders |-> {}, expired |-> FALSE]
    /\ step = [s \in Steps |-> "pending"]
    /\ tried = {} /\ observer = None /\ row = "source"
    /\ at = [t \in Threads |-> [Blank EXCEPT !.pc = IF t = Request THEN "idle" ELSE "out"]]
    /\ late = {}

(***************************************************************************)
(* A thread's place, and the shape of every unit of work.                  *)
(***************************************************************************)
At(t, place) == at[t].pc = place
Go(t, place) == [at[t] EXCEPT !.pc = place]
End(place)   == [Blank EXCEPT !.pc = place]
Put(t, to)   == at' = [at EXCEPT ![t] = to]
Isolating    == End("isolate")

\* effect commits and is acknowledged or not; or it is refused, or fails
Attempt(t, effect, ok, ko) ==
    /\ \/ effect /\ (Put(t, ok) \/ Put(t, ko))
       \/ UNCHANGED rows /\ Put(t, ko)
    /\ UNCHANGED <<scene, remote, late>>

\* a thread moves on what it has read
Local(t, to) == Put(t, to) /\ UNCHANGED <<scene, rows, remote, late>>

\* the first step of a fixed order that a thread still has to do
Current(t) ==
    LET first(s, others) == s \in at[t].todo /\ at[t].todo \cap others = {}
    IN  CHOOSE s \in at[t].todo :
          \/ s \in {"detach", "undoTarget", "prepare"}
          \/ s = "attach"     /\ first(s, {"detach"})
          \/ s = "commit"     /\ first(s, {"detach", "attach"})
          \/ s = "undoSource" /\ first(s, {"undoTarget"})

(***************************************************************************)
(* Units of work of the repository.                                        *)
(***************************************************************************)

\* _owned_operation
Owns(t) == t \in lease.holders /\ ~lease.expired /\ op.status \in Protecting

\* _recovery_fencing_is_authorized, for writes that say recovery_authorized
Authorized(t, asked) == op.status = "recovery" => asked /\ op.newer

Recovering(t) == t \in Recoverers

Reserve(t) ==
    /\ op.status = "none"
    /\ op' = [op EXCEPT !.status = "reserved"]
    /\ lease' = [owner |-> t, holders |-> {t}, expired |-> FALSE]
    /\ UNCHANGED <<step, tried, observer, row>>

\* renew_lease
Extend(t) ==
    /\ Owns(t)
    /\ lease' = [lease EXCEPT !.holders = {t}]
    /\ UNCHANGED <<op, step, tried, observer, row>>

\* allowed_operation_transitions
CanBecome(status, recovering) ==
    CASE status = "reserved"     -> {"running", "failed", "recovery"}
      [] status = "running"      -> {"succeeded", "failed", "compensating", "recovery"}
      [] status = "compensating" -> {"compensated", "recovery"}
      [] status = "recovery" /\ recovering -> {"running", "compensating"} \cup Settled
      [] OTHER -> {}

\* transition_operation
Transition(t, status) ==
    /\ Owns(t) /\ Authorized(t, Recovering(t))
    /\ status \in CanBecome(op.status, Recovering(t))
    /\ op' = [op EXCEPT !.status = status,
                        !.newer = IF status = "recovery" THEN FALSE ELSE @]
    /\ UNCHANGED <<lease, step, tried, observer, row>>

\* begin_step_mutation
StartStep(t, s) ==
    /\ Owns(t) /\ Authorized(t, Recovering(t))
    /\ \/ step[s] = "pending"
       \/ step[s] = "failed" /\ Recovering(t) /\ s \notin tried
    /\ step' = [step EXCEPT ![s] = "started"]
    /\ tried' = tried \cup {s}
    /\ UNCHANGED <<op, lease, observer, row>>

\* complete_step
SetStep(t, s, result) ==
    /\ Owns(t) /\ Authorized(t, Recovering(t))
    /\ \/ step[s] = "started"
       \/ step[s] = "unknown" /\ Recovering(t) /\ result # "unknown"
    /\ step' = [step EXCEPT ![s] = result]
    /\ UNCHANGED <<op, lease, tried, observer, row>>

\* mutant: the ownership of the workspace lands in the state of the step
RecordMappingInStep(t, ownership) ==
    /\ Owns(t)
    /\ step["prepare"] = "started"
    /\ step' = [step EXCEPT !["prepare"] = ownership]
    /\ op' = [op EXCEPT !.target = ownership]
    /\ UNCHANGED <<lease, tried, observer, row>>

\* record_workspace_mapping
RecordMapping(t, ownership) ==
    /\ Owns(t)
    /\ step["prepare"] = "started"
    /\ step' = [step EXCEPT !["prepare"] = IF ownership = "created" THEN "done" ELSE "already"]
    /\ op' = [op EXCEPT !.target = ownership]
    /\ UNCHANGED <<lease, tried, observer, row>>

\* record_workspace_preparation_fact
RecordFact(t, ownership) ==
    /\ Owns(t) /\ Authorized(t, Recovering(t))
    /\ op.target \in {"none", ownership}
    /\ step["prepare"] \in {"started"} \cup (IF Recovering(t) THEN {"unknown"} ELSE {})
    /\ op' = [op EXCEPT !.target = ownership]
    /\ UNCHANGED <<lease, step, tried, observer, row>>

\* _validate_forward_success_prerequisites
ForwardDone ==
    IF scene.remote
    THEN /\ op.target # "none"
         /\ step["prepare"] \in Good /\ step["attach"] \in Good
         /\ scene.source => step["detach"] \in Good
    ELSE \A s \in {"detach", "prepare", "attach"} : step[s] = "pending"

\* _validate_no_side_effect_failure_prerequisites
NoSideEffect ==
    /\ op.target \notin {"created", "unowned"}
    /\ \A s \in Steps : step[s] \notin Open /\ (step[s] = "done" => s = "commit")

\* finalize_no_side_effect_failure
FailCleanly(t) ==
    /\ Owns(t) /\ NoSideEffect
    /\ "failed" \in CanBecome(op.status, FALSE)
    /\ op' = [op EXCEPT !.status = "failed"]
    /\ UNCHANGED <<lease, step, tried, observer, row>>

\* commit_local_architecture, its conditional update hits the row
CommitRow(t) ==
    /\ Owns(t) /\ ForwardDone /\ step["commit"] = "started"
    /\ row = "source" /\ "succeeded" \in CanBecome(op.status, FALSE)
    /\ row' = "target"
    /\ step' = [step EXCEPT !["commit"] = "done"]
    /\ op' = [op EXCEPT !.status = "succeeded"]
    /\ UNCHANGED <<lease, tried, observer>>

\* commit_local_architecture, its update hits no row or a unique constraint
CommitConflict(t) ==
    /\ Owns(t) /\ ForwardDone /\ step["commit"] = "started"
    /\ step' = [step EXCEPT !["commit"] = "failed"]
    /\ UNCHANGED <<op, lease, tried, observer, row>>

\* record_recovery_observation
Observe(t) ==
    /\ Owns(t) /\ Authorized(t, TRUE)
    /\ observer' = t
    /\ UNCHANGED <<op, lease, step, tried, row>>

\* _validate_recovery_terminal_invariant: what the observation must say
Agrees(goal, seen, look) ==
    CASE goal = "succeeded" ->
           /\ seen.row = "target"
           /\ scene.remote => look["target"] = "present" /\ look["source"] \in {"absent", "none"}
      [] goal = "compensated" ->
           /\ scene.remote /\ seen.row = "source"
           /\ look["target"] = "absent" /\ look["source"] \in {"present", "none"}
      [] goal = "failed" ->
           /\ seen.row = "source"
           /\ scene.remote => look["target"] = "absent" /\ look["source"] \in {"present", "none"}
      [] OTHER -> FALSE

\* mutant: the local row is not read again when the operation is settled
FreshObserver(t) == observer = t

\* _validate_recovery_terminal_observation
Fresh(t) == observer = t /\ row = at[t].seen.row

\* finalize_recovery_operation
Finish(t, goal) ==
    /\ Owns(t) /\ Authorized(t, TRUE)
    /\ Fresh(t)
    /\ Agrees(goal, at[t].seen, at[t].look)
    /\ goal = "succeeded" => ForwardDone
    /\ goal = "failed" => NoSideEffect
    /\ goal \in CanBecome(op.status, TRUE)
    /\ op' = [op EXCEPT !.status = goal]
    /\ UNCHANGED <<lease, step, tried, observer, row>>

\* mutant: a lease is taken over while it runs
SeizeRunning(t) ==
    /\ op.status \in Protecting
    /\ lease' = [owner |-> t, holders |-> {t}, expired |-> FALSE]
    /\ op' = [op EXCEPT !.newer = TRUE]
    /\ tried' = {} /\ observer' = None
    /\ UNCHANGED <<step, row>>

\* take_over_expired_lease
Seize(t) ==
    /\ lease.expired /\ op.status \in Protecting
    /\ lease' = [owner |-> t, holders |-> {t}, expired |-> FALSE]
    /\ op' = [op EXCEPT !.newer = TRUE]
    /\ tried' = {} /\ observer' = None
    /\ UNCHANGED <<step, row>>

(***************************************************************************)
(* Writes of every thread.                                                 *)
(***************************************************************************)

\* a recoverer that has changed the memberships isolates with a lease it has renewed
\* since, and is refused
Abandon(t) == IF t # Request /\ at[t].got # "none" THEN End("out") ELSE Isolating

\* _renew_execution_lease, renew_before_remote: a request that still counts on a
\* preparation claim finds it gone with the lease; a renewal that was not acknowledged
\* leaves its thread without the lease
Renew(t) ==
    LET claimLost == t = Request /\ step["prepare"] = "failed" /\ lease.owner # t
    IN  /\ at[t].pc \in {"renewing", "begun"}
        /\ \/ Attempt(t, Extend(t),
                      IF claimLost THEN Isolating
                      ELSE Go(t, IF At(t, "begun") THEN "call" ELSE "begin"),
                      End("out"))
           \/ Local(t, Abandon(t))

\* mutant: a mutation goes ahead although its intent could not be written
BeginAnyway(t) ==
    LET s  == Current(t)
        go == Go(t, CASE s = "prepare" -> "create"
                      [] s = "commit"  -> "commit"
                      [] OTHER         -> IF t = Request THEN "call" ELSE "begun")
    IN  At(t, "begin") /\ Attempt(t, StartStep(t, s), go, go)

\* _begin_step_mutation
Begin(t) ==
    LET s == Current(t)
    IN  /\ At(t, "begin")
        /\ Attempt(t, StartStep(t, s),
              Go(t, CASE s = "prepare" -> "create"
                      [] s = "commit"  -> "commit"
                      [] OTHER         -> IF t = Request THEN "call" ELSE "begun"),
              CASE s = "detach" \/ (s = "commit" /\ ~scene.remote) -> End("give up")
                [] s = "commit" /\ scene.remote -> End("compensate")
                [] OTHER -> Abandon(t))

\* the membership a mutation is about, and whether the document is to be there
Side(s)    == IF s \in {"detach", "undoSource"} THEN "source" ELSE "target"
Desired(s) == s \in {"attach", "undoSource"}

\* _mutate_document_membership: update_embeddings and the probe behind it
Call(t) ==
    LET s == Current(t)
    IN  /\ At(t, "call")
        /\ \/ /\ t \notin late
              /\ member' = [member EXCEPT ![Side(s)] = Desired(s)]
              /\ \E got \in Good \cup {"unknown"} :
                    /\ Put(t, [Go(t, "complete") EXCEPT !.got = got])
           \/ /\ t \notin late /\ member[Side(s)] # Desired(s)
              /\ Put(t, [Go(t, "complete") EXCEPT !.got = "failed"])
              /\ UNCHANGED member
           \/ /\ Put(t, [Go(t, "complete") EXCEPT !.got = "unknown"])
              /\ UNCHANGED member
        /\ UNCHANGED <<scene, rows, workspace, late>>

\* _complete_step; the synchronous compensation re-reads the operation after it
Complete(t) ==
    LET s    == Current(t)
        got  == at[t].got
        then(place, todo) == [Go(t, place) EXCEPT !.got = "none", !.todo = todo]
        next == CASE got \in Good /\ s = "detach" -> then("renewing", {"prepare"})
                  [] got \in Good /\ s = "attach" -> then("renewing", {"commit"})
                  [] got \in Good /\ s \in {"undoTarget", "undoSource"} ->
                       IF t = Request THEN then("reread", at[t].todo \ {s})
                                      ELSE [Go(t, "look again") EXCEPT !.got = "done"]
                  [] got = "failed" /\ s = "detach" -> End("give up")
                  [] got = "failed" /\ s = "attach" -> End("compensate")
                  [] OTHER -> Abandon(t)
    IN  /\ At(t, "complete")
        /\ Attempt(t, SetStep(t, s, got), next, Abandon(t))

\* record_observation
Note(t) ==
    /\ At(t, "note")
    /\ Attempt(t, Observe(t),
          CASE at[t].seen.row = "other" -> Isolating
            [] at[t].seen.row # "other" /\ at[t].goal # "none" -> Go(t, "finalize")
            [] at[t].seen.row = "target" /\ at[t].goal = "none" ->
                 [Go(t, "facts") EXCEPT !.todo = {"commit"}]
            [] OTHER -> Go(t, "prepared?"),
          Isolating)

\* finalize, and the last unit of work of the synchronous compensation
Finalize(t) ==
    /\ At(t, "finalize")
    /\ Attempt(t, Finish(t, at[t].goal), End(at[t].goal),
               IF t = Request THEN Isolating ELSE [End("verify") EXCEPT !.goal = at[t].goal])

\* _mark_recovery_required, isolate
Isolate(t) ==
    /\ At(t, "isolate")
    /\ Attempt(t, Transition(t, "recovery"), End("out"), End("out"))


(***************************************************************************)
(* The synchronous request.                                                *)
(***************************************************************************)

\* _reserve
ReserveOp ==
    /\ At(Request, "idle")
    /\ Attempt(Request, Reserve(Request), End("reserved"), End("out"))

\* _promote_to_running
Promote ==
    /\ At(Request, "reserved")
    /\ Attempt(Request, Transition(Request, "running"),
               IF scene.remote THEN End("claiming") ELSE [End("begin") EXCEPT !.todo = {"commit"}],
               End("give up"))

\* the knowledge port and the preparation claim, which another operation may hold
Claim ==
    /\ At(Request, "claiming")
    /\ \/ Owns(Request) /\ Local(Request, [End("renewing") EXCEPT
             !.todo = IF scene.source THEN {"detach"} ELSE {"prepare"}])
       \/ Local(Request, End("give up"))

\* _finalize_no_side_effect_failure
GiveUp ==
    /\ At(Request, "give up")
    /\ Attempt(Request, FailCleanly(Request), End("failed"), Isolating)

\* prepare_target_workspace, or the probe of a mapped one: the workspace found, the
\* workspace made, or nothing that can be relied on
Create ==
    LET then(exists, got) ==
          /\ workspace' = exists
          /\ Put(Request, [Go(Request, IF got \in {"failed", "unknown"} THEN "unprepared"
                                                                         ELSE "mapping")
                             EXCEPT !.got = got])
    IN  /\ At(Request, "create")
        /\ \/ workspace /\ Request \notin late /\ then(TRUE, "preexisting")
           \/ scene.mapping /\ then(workspace, "failed")
           \/ ~scene.mapping /\ then(workspace, "unknown")
           \/ /\ ~scene.mapping /\ ~workspace /\ Request \notin late
              /\ \/ \E got \in {"created", "unowned", "unknown"} : then(TRUE, got)
                 \/ then(FALSE, "failed")
        /\ UNCHANGED <<scene, rows, member, late>>

\* _record_workspace_mapping
Mapping ==
    /\ At(Request, "mapping")
    /\ Attempt(Request, RecordMapping(Request, at[Request].got),
               [End("renewing") EXCEPT !.todo = {"attach"}],
               IF scene.mapping THEN Isolating ELSE Go(Request, "fact"))

\* _record_workspace_preparation_fact
Fact ==
    /\ At(Request, "fact")
    /\ Attempt(Request, RecordFact(Request, at[Request].got), Isolating, Isolating)

\* _prepare_new_workspace_mapping, _reuse_existing_workspace_mapping: no workspace
Unprepared ==
    LET got == at[Request].got
    IN  /\ At(Request, "unprepared")
        /\ Attempt(Request, SetStep(Request, "prepare", got),
                   IF got = "failed" /\ ~scene.mapping THEN End("compensate") ELSE Isolating,
                   Isolating)

\* _commit_local_architecture
Commit ==
    /\ At(Request, "commit")
    /\ \/ Attempt(Request, CommitRow(Request), End("succeeded"), End("reconcile"))
       \/ Attempt(Request, CommitConflict(Request),
                  [End("reconcile") EXCEPT !.got = "conflict"], End("reconcile"))

\* _reconcile_committed_success, and what follows if it reads anything else
Reconcile ==
    /\ At(Request, "reconcile")
    /\ \/ op.status = "succeeded" /\ Local(Request, End("succeeded"))
       \/ Local(Request, IF scene.remote THEN End("compensate")
                         ELSE IF at[Request].got = "conflict" THEN End("give up")
                         ELSE Isolating)

\* the request goes on with whatever lease it reads
Adopt(to) ==
    /\ lease' = [lease EXCEPT !.holders = @ \cup {Request}]
    /\ Put(Request, to)
    /\ UNCHANGED <<scene, op, step, tried, observer, row, remote, late>>

\* _compensate_confirmed_forward_effects, as far as its first write
Compensate ==
    LET todo == {s \in {"undoTarget", "undoSource"} :
                   IF s = "undoTarget" THEN step["attach"] \in Good ELSE scene.source}
    IN  /\ At(Request, "compensate")
        /\ \/ Adopt(IF row = "source"
                    THEN [End("entering") EXCEPT !.todo = todo, !.goal = "compensated"]
                    ELSE Isolating)
           \/ Local(Request, End("out"))

\* its transition to compensating
Entering ==
    LET next == IF at[Request].todo = {} THEN "recheck" ELSE "renewing"
    IN  /\ At(Request, "entering")
        /\ Attempt(Request, Transition(Request, "compensating"), Go(Request, next), Isolating)

\* its re-reading of the operation after each step
Reread ==
    LET next == IF at[Request].todo = {} THEN "recheck" ELSE "renewing"
    IN  /\ At(Request, "reread")
        /\ \/ Adopt(Go(Request, next))
           \/ Local(Request, End("out"))

\* its second look at the document row, and the observation it asserts
Recheck ==
    /\ At(Request, "recheck")
    /\ Local(Request,
         IF row = "source"
         THEN [Go(Request, "note") EXCEPT
                 !.look = [workspace |-> "none", target |-> "absent",
                           source |-> IF scene.source THEN "present" ELSE "none"]]
         ELSE Isolating)

(***************************************************************************)
(* A recoverer.                                                            *)
(***************************************************************************)

\* _take_over
TakeOver(r) ==
    /\ at[r].pc \in {"out"} \cup Settled
    /\ Seize(r) /\ late' = late \ {r}
    /\ Put(r, End("taken")) \/ Put(r, End("out"))
    /\ UNCHANGED <<scene, remote>>

\* recover: the operation again, then the document row
Read(r) ==
    LET seen == [status |-> op.status, target |-> op.target, row |-> row]
        next == IF row = "other" THEN [End("note") EXCEPT !.seen = seen]
                ELSE IF scene.remote THEN [End("look") EXCEPT !.seen = seen]
                ELSE [End("facts") EXCEPT !.seen = seen, !.todo = {"commit"}]
    IN  /\ At(r, "taken")
        /\ \/ r \in lease.holders /\ (Local(r, next) \/ Local(r, Isolating))
           \/ Local(r, End("out"))

\* observe_remote: each probe answers, or does not know
Seen(r, look) ==
    /\ look["workspace"] \in {"unknown"} \cup
         (IF r \in late THEN {} ELSE {IF workspace THEN "present" ELSE "absent"})
    /\ look["target"] \in
         CASE look["workspace"] = "absent"  -> {"absent"}
           [] look["workspace"] = "unknown" -> {"unknown"}
           [] OTHER -> {"unknown", IF member.target THEN "present" ELSE "absent"}
    /\ look["source"] \in
         IF ~scene.source THEN {"none"}
         ELSE {"unknown"} \cup
                (IF r \in late THEN {} ELSE {IF member.source THEN "present" ELSE "absent"})

Answers == [{"workspace", "source", "target"} -> {"present", "absent", "unknown", "none"}]

Look(r) ==
    \E look \in Answers :
       LET s       == Current(r)
           left    == at[r].todo \ {s}
           showsIt == IF s = "undoTarget" THEN look["target"] = "absent"
                                          ELSE look["source"] = "present"
           next    == IF At(r, "look") THEN [Go(r, "note") EXCEPT !.look = look]
                      ELSE IF ~showsIt THEN End("out")
                      ELSE [Go(r, IF left = {} THEN "note" ELSE "begin") EXCEPT
                              !.look = look, !.todo = left]
       IN  /\ at[r].pc \in {"look", "look again"}
           /\ Seen(r, look)
           /\ \/ Attempt(r, Extend(r), next, End("out"))
              \/ Local(r, Abandon(r))

\* _forward_outcome_from_binding, _forward_outcome_from_local_state
Happened(r, s) ==
    CASE s = "detach" -> at[r].look["source"] = "absent"
      [] s = "attach" -> at[r].look["target"] = "present"
      [] s = "commit" -> at[r].seen.row = "target"

Unclear(r, s) ==
    \/ s # "commit" /\ at[r].look[Side(s)] = "unknown"
    \/ Happened(r, s) /\ step[s] \in {"pending", "failed"}

\* resolve_local_commit_step, resolve_forward_steps
Settle(r) ==
    LET s    == Current(r)
        left == at[r].todo \ {s}
        committed == at[r].seen.row = "target"
        next ==
          CASE left # {} -> [Go(r, "facts") EXCEPT !.todo = left]
            [] left = {} /\ ~scene.remote ->
                 [Go(r, "note") EXCEPT !.todo = left,
                    !.goal = IF committed THEN "succeeded" ELSE "failed"]
            [] left = {} /\ scene.remote /\ committed ->
                 [Go(r, "finalize") EXCEPT !.todo = left, !.goal = "succeeded"]
            [] OTHER -> [Go(r, "decide") EXCEPT !.todo = left]
    IN  /\ At(r, "facts")
        /\ \/ Unclear(r, s) /\ Local(r, Isolating)
           \/ /\ ~Unclear(r, s) /\ step[s] \in Open
              /\ Attempt(r, SetStep(r, s, IF Happened(r, s) THEN "done" ELSE "failed"),
                         next, Isolating)
           \/ ~Unclear(r, s) /\ step[s] \notin Open /\ Local(r, next)

\* reconcile_workspace_preparation_checkpoint
Prepared(r) ==
    LET there == at[r].look["workspace"]
        open  == step["prepare"] \in Open /\ at[r].seen.target = "none"
        next  == [Go(r, "target undone?") EXCEPT !.look["workspace"] = "none"]
    IN  /\ At(r, "prepared?")
        /\ \/ ~open /\ Local(r, next)
           \/ open /\ there = "absent"
              /\ Attempt(r, SetStep(r, "prepare", "failed"), next, Isolating)
           \/ open /\ there = "present"
              /\ Attempt(r, RecordFact(r, "unowned"), next, Isolating)
           \/ open /\ there = "unknown" /\ Local(r, Isolating)
           \/ Local(r, Isolating)      \* the steps cannot be read

\* remote_state_is_compensated
Restored(look) == look["target"] = "absent" /\ look["source"] \in {"present", "none"}

\* reconcile_compensation_checkpoints, one step of it
Undone(r, s, place, showsIt, next) ==
    /\ At(r, place)
    /\ \/ step[s] \notin Open /\ Local(r, next)
       \/ step[s] \in Open /\ showsIt /\ Attempt(r, SetStep(r, s, "done"), next, Isolating)
       \/ step[s] = "started" /\ ~showsIt
          /\ Attempt(r, SetStep(r, s, "unknown"), Isolating, Isolating)
       \/ step[s] = "unknown" /\ ~showsIt /\ Local(r, Isolating)

TargetUndone(r) ==
    Undone(r, "undoTarget", "target undone?", at[r].look["target"] = "absent",
           Go(r, "source undone?"))

SourceUndone(r) ==
    LET look == at[r].look
    IN  Undone(r, "undoSource", "source undone?",
               look["target"] = "absent" /\ look["source"] = "present",
               IF Restored(look) /\ \E s \in {"undoTarget", "undoSource"} : step[s] # "pending"
               THEN [Go(r, "enter") EXCEPT !.goal = "compensated"]
               ELSE [Go(r, "facts") EXCEPT !.todo = {"detach", "attach", "commit"}])

\* has_recovery_side_effect_history
History(r) ==
    \/ at[r].seen.target \in {"created", "unowned"}
    \/ \E s \in Mutations \cup {"prepare"} : step[s] \in Open \cup {"done"}

\* compensation_decision
Decide(r) ==
    LET acts == {s \in {"undoTarget", "undoSource"} :
                   Happened(r, IF s = "undoTarget" THEN "attach" ELSE "detach")}
    IN  /\ At(r, "decide")
        /\ \/ Local(r, IF acts # {} \/ History(r)
                       THEN [Go(r, "enter") EXCEPT !.goal = "compensated", !.todo = acts]
                       ELSE [Go(r, "finalize") EXCEPT !.goal = "failed"])
           \/ Local(r, Isolating)      \* the steps cannot be read

\* enter
Enter(r) ==
    LET status == at[r].seen.status
        next   == Go(r, IF at[r].todo = {} THEN "finalize" ELSE "begin")
    IN  /\ At(r, "enter")
        /\ \/ status = "compensating" /\ Local(r, next)
           \/ status \in {"running", "recovery"}
              /\ Attempt(r, Transition(r, "compensating"), next, Isolating)
           \/ status \notin {"compensating", "running", "recovery"} /\ Local(r, Isolating)

\* _reconcile_expected_terminal
Verify(r) ==
    /\ At(r, "verify")
    /\ \/ op.status = at[r].goal /\ Local(r, End(at[r].goal))
       \/ Local(r, Isolating)

(***************************************************************************)
(* Time, death, and other programs.                                        *)
(***************************************************************************)

\* the lease outlives every remote call begun under it
Expire ==
    /\ op.status \in Protecting /\ ~lease.expired
    /\ lease' = [lease EXCEPT !.expired = TRUE]
    /\ late' = Threads
    /\ UNCHANGED <<scene, op, step, tried, observer, row, remote, at>>

Die(t) ==
    /\ at[t].pc \notin {"idle", "out"} \cup Settled
    /\ Local(t, End("out"))

\* another program gives the document a category
Reclassify ==
    /\ Reclassifies /\ op.status \in Protecting /\ row = "source"
    /\ row' = "other"
    /\ UNCHANGED <<scene, op, lease, step, tried, observer, remote, at, late>>

RequestStep ==
    \/ ReserveOp \/ Promote \/ Claim \/ GiveUp
    \/ Create \/ Mapping \/ Fact \/ Unprepared \/ Commit \/ Reconcile
    \/ Compensate \/ Entering \/ Reread \/ Recheck

RecovererStep(r) ==
    \/ TakeOver(r) \/ Read(r) \/ Look(r) \/ Settle(r) \/ Prepared(r)
    \/ TargetUndone(r) \/ SourceUndone(r) \/ Decide(r) \/ Enter(r) \/ Verify(r)

ThreadStep(t) ==
    \/ Renew(t) \/ Begin(t) \/ Call(t) \/ Complete(t)
    \/ Note(t) \/ Finalize(t) \/ Isolate(t)

Next ==
    \/ RequestStep
    \/ \E r \in Recoverers : RecovererStep(r)
    \/ \E t \in Threads : ThreadStep(t) \/ Die(t)
    \/ Expire
    \/ Reclassify

Spec == Init /\ [][Next]_vars

(***************************************************************************)
(* Properties.                                                             *)
(***************************************************************************)

\* What a settled operation says of the document, in the local row and both workspaces.
VerdictTrue ==
    /\ op.status = "succeeded" =>
         /\ row = "target"
         /\ scene.remote => member.target /\ (scene.source => ~member.source)
    /\ op.status = "compensated" =>
         row = "source" /\ ~member.target /\ (scene.source => member.source)
    /\ op.status = "failed" =>
         member = [source |-> scene.member, target |-> FALSE]

\* The answer a thread gives is the verdict of the operation, whatever was not
\* acknowledged to it on the way.
AnswerIsVerdict ==
    \A t \in Threads : at[t].pc \in Settled => op.status = at[t].pc

\* A verdict is so and stays so: no late mutation of an evicted thread undoes it, and
\* nobody is told another.
VerdictHolds == VerdictTrue /\ AnswerIsVerdict

\* An effect is never forgotten: recovery finds in the steps whatever it has to undo.
EffectKnown ==
    /\ member.target => step["attach"] \in Open \cup Good
    /\ scene.member /\ ~member.source => step["detach"] \in Open \cup Good

\* An operation is not settled while a mutation may still have an effect nobody knows.
SettledMeansResolved ==
    op.status \in Settled => \A s \in Mutations : step[s] \notin Open

\* A document is moved in the remote workspaces only under a recorded intent, and the
\* intent stays open until it is known what became of it.
EffectRecorded == EffectKnown /\ SettledMeansResolved

\* Two threads never mutate the memberships at once: whoever is taken over is either
\* not calling, or too late for its call to have an effect.
OneMutator ==
    \A t, u \in Threads \ late : At(t, "call") /\ At(u, "call") => t = u

===============================================================================
