------------------------------ MODULE ChatProofs ------------------------------
(***************************************************************************)
(* What holds of a conversation for any number of runs, titles, deletion   *)
(* requests and documents, with or without a crash.                        *)
(***************************************************************************)
EXTENDS Chat, FiniteSetTheorems, TLAPS

Live    == session \in {"none", "active"}
Made(id, t) == <<id, t>> \in remote

RunPlaces ==
    {"idle", "guarded", "accepted", "started", "entered", "workspace", "thread",
     "open", "unopened", "half opened", "opened", "opened workspace", "opened thread",
     "documents", "planning", "attaching", "attached", "streaming",
     "succeeding", "failing", "aborting", "done", "dead"} \cup Docs

TitlePlaces ==
    {"idle", "planned", "temporary", "undone", "replying", "replied", "deleted thread",
     "deferred", "queued", "claimed", "retrying", "retried", "kept", "done", "dead"}

\* A deletion has begun and has not ended.
Deleting ==
    {"deleting", "cleaning", "mark thread", "drop thread", "dropped thread",
     "kept thread", "mark context", "drop context", "dropped context",
     "kept context", "cleaned", "closing", "failed", "blaming"}

\* It works on resources it can name.
Naming ==
    {"mark thread", "drop thread", "dropped thread", "kept thread", "mark context",
     "drop context", "dropped context", "kept context"}

(***************************************************************************)
(* The inductive invariant, by what it is about.                           *)
(***************************************************************************)

\* A run that was expired as stale is the only one to go on without being active.
Expired(r) == run[r].status = "failed" /\ run[r].stale

RunPlaced(r) ==
    /\ pc[r] \in RunPlaces
    /\ pc[r] \in {"idle", "guarded"} => run[r].status = "none"
    /\ pc[r] = "accepted" => run[r].status # "running"
    /\ Active(r) => pc[r] \notin {"idle", "guarded", "done"}
    /\ pc[r] \notin {"idle", "guarded", "accepted", "done", "dead"} => Active(r) \/ Expired(r)

\* Whoever has planned the workspace is the only one to open it, and as long as it has
\* not, the session has no references and a deletion can close nothing.
Planned == {"thread", "open", "unopened", "half opened", "opened", "opened workspace",
            "opened thread"}

RunOwns(r) ==
    /\ pc[r] \in {"idle", "guarded", "accepted", "started", "entered", "workspace"} =>
           lease["workspace"].by # r /\ lease["thread"].by # r
    /\ pc[r] = "thread" => lease["thread"].by # r
    /\ pc[r] \in Planned => ~refs /\ lease["workspace"].by = r /\ Open("workspace")
    /\ pc[r] \in Planned \ {"thread"} => lease["thread"].by = r /\ Open("thread")
    /\ pc[r] \in {"thread", "open", "unopened"} => ~Made("workspace", r)
    /\ pc[r] \in {"open", "unopened", "half opened"} => ~Made("thread", r)

\* What a run has found out about its conversation stays so while the chat is live.
RunKnows(r) ==
    /\ pc[r] \in {"opened", "opened workspace", "opened thread"} =>
           Made("workspace", r) /\ Made("thread", r)
    /\ pc[r] \in {"opened workspace", "opened thread"} => lease["workspace"].status = "active"
    /\ pc[r] = "opened thread" => lease["thread"].status = "active"
    /\ pc[r] \in {"attached"} \cup Docs => \A d \in fresh[r] : Made(d, r) /\ Open(d)

RunPlans(r) == pc[r] = "attaching" => \A d \in fresh[r] : lease[d].status # "none"

\* A title's lease is its own until it has failed to delete its thread.
TitleInv(t) ==
    /\ pc[t] \in TitlePlaces
    /\ pc[t] \in {"idle", "planned"} => lease[t].status = "none"
    /\ pc[t] \in {"temporary", "undone"} => lease[t].status = "planned"
    /\ pc[t] \in {"idle", "planned", "temporary", "undone", "deleted thread", "retried"} =>
           ~Made(t, t)

\* What is left of a chat once its resources were deleted is of runs that have expired.
OnlyExpired == \A m \in remote : m[2] \in Runs /\ Expired(m[2])

DeletionInv(d) ==
    /\ pc[d] \in Deleting \cup {"idle", "raised", "dead"}
    /\ pc[d] \in Deleting => session = "deleting"
    /\ \A e \in Deletes : pc[d] \in Deleting /\ pc[e] \in Deleting => d = e
    /\ pc[d] \in Naming => refs
    /\ pc[d] = "dropped thread" => \A m \in remote : m[1] # "thread"
    /\ pc[d] = "dropped context" => remote = {}
    /\ pc[d] \in {"cleaned", "closing"} => OnlyExpired

\* A lease, once planned, keeps its planner; it is closed for good reasons only.
LeaseInv ==
    /\ \A id \in Leases : lease[id].status = "none" => lease[id].by = None
    /\ refs => lease["workspace"].status # "none"
    /\ \A d \in Docs : lease[d].status = "closed" => refs /\ ~Exists("workspace")
    /\ Live => \A d \in Docs : lease[d].status \in {"none", "planned", "active"}

RemoteInv ==
    /\ \A m \in remote : Open(m[1])
    /\ \A m \in remote : m[1] \in {"workspace", "thread"} => lease[m[1]].by = m[2]
    /\ \A m \in remote : m[1] \in Titles => m[2] = m[1]
    /\ session = "deleted" => OnlyExpired

\* What the next run relies on.
LiveInv ==
    /\ refs => \A id \in {"workspace", "thread"} : Exists(id) /\ lease[id].status = "active"
    /\ \A d \in bound : Exists(d) /\ Open(d)

IInv ==
    /\ TypeOK
    /\ OneAtATime
    /\ \A r \in Runs : RunPlaced(r) /\ RunOwns(r) /\ RunPlans(r)
    /\ \A t \in Titles : TitleInv(t)
    /\ \A d \in Deletes : DeletionInv(d)
    /\ LeaseInv /\ RemoteInv
    /\ Live => LiveInv /\ \A r \in Runs : RunKnows(r)

-------------------------------------------------------------------------------
(***************************************************************************)
(* What the helpers of the model do, field by field.                       *)
(***************************************************************************)
RunRow   == [status : {"none", "accepted", "running"} \cup Verdicts,
             abort  : BOOLEAN,
             stale  : BOOLEAN,
             user   : {"none", "pending", "committed", "discarded"},
             answer : BOOLEAN,
             event  : {"none", "done", "error", "aborted"}]
LeaseRow == [status : LeaseStatus, by : Runs \cup {None}]

\* Thread t is somewhere else; the others are where they were.
Moves(t, place) ==
    /\ pc' \in [Threads -> Places \cup Docs]
    /\ pc'[t] = place
    /\ \A q \in Threads : q # t => pc'[q] = pc[q]

LEMMA Goes ==
    ASSUME TypeOK, NEW t \in Threads, NEW place \in Places \cup Docs, Goto(t, place)
    PROVE  Moves(t, place)
BY DEF TypeOK, Goto, Moves

LEMMA Breaks ==
    ASSUME TypeOK, NEW r \in Runs, Break(r)
    PROVE  Moves(r, IF run[r].abort THEN "aborting" ELSE "failing")
<1>1. (IF run[r].abort THEN "aborting" ELSE "failing") \in Places
  BY DEF Places
<1> QED
  BY <1>1, Goes DEF Break, Threads

\* The leases of ids get a status; no lease changes its planner.
Become(ids, status) ==
    /\ lease' \in [Leases -> LeaseRow]
    /\ \A id \in Leases :
          /\ lease'[id].by = lease[id].by
          /\ id \in ids => lease'[id].status = status
          /\ id \notin ids => lease'[id] = lease[id]

LEMMA SetLeasesEffect ==
    ASSUME TypeOK, NEW ids, NEW status \in LeaseStatus, SetLeases(ids, status)
    PROVE  Become(ids, status)
BY DEF TypeOK, SetLeases, Become, LeaseRow

LEMMA SetLeaseEffect ==
    ASSUME TypeOK, NEW id \in Leases, NEW status \in LeaseStatus, SetLease(id, status)
    PROVE  Become({id}, status)
BY DEF TypeOK, SetLease, Become, LeaseRow

LEMMA PlanEffect ==
    ASSUME TypeOK, NEW id \in Leases, NEW r \in Runs, Plan(id, r)
    PROVE  /\ lease' \in [Leases -> LeaseRow]
           /\ \A x \in Leases : x # id => lease'[x] = lease[x]
           /\ lease[id].status = "none" =>
                  lease'[id].status = "planned" /\ lease'[id].by = r
           /\ lease[id].status # "none" => lease'[id] = lease[id]
BY DEF TypeOK, Plan, LeaseRow, LeaseStatus

\* A run whose row a step of another touches is the same, or has been expired.
Keeps(r) ==
    \/ run'[r].status = run[r].status /\ (run'[r].stale = run[r].stale \/ Active(r))
    \/ Active(r) /\ run[r].stale /\ run'[r].status = "failed" /\ run'[r].stale

LEMMA ExpireType ==
    ASSUME TypeOK
    PROVE  ExpireStaleRuns \in [Runs -> RunRow]
<1> DEFINE row(q) ==
        IF Active(q) /\ run[q].stale
        THEN WithErrorEvent([run[q] EXCEPT
                 !.status = "failed",
                 !.user   = IF run[q].status = "running" THEN "committed" ELSE "discarded"])
        ELSE run[q]
<1>1. ASSUME NEW q \in Runs
      PROVE  row(q) \in RunRow
  <2> DEFINE user == IF run[q].status = "running" THEN "committed" ELSE "discarded"
             left == [run[q] EXCEPT !.status = "failed", !.user = user]
  <2>1. run[q] \in RunRow
    BY DEF TypeOK, RunRow
  <2>2. ASSUME NEW x \in {"committed", "discarded"}
        PROVE  [run[q] EXCEPT !.status = "failed", !.user = x] \in RunRow
    BY <2>1 DEF RunRow, Verdicts
  <2>3. left \in RunRow
    BY <2>2
  <2>4. ASSUME NEW x \in RunRow
        PROVE  WithErrorEvent(x) \in RunRow
    BY DEF WithErrorEvent, RunRow
  <2> QED
    BY <2>1, <2>3, <2>4
<1>2. ExpireStaleRuns = [q \in Runs |-> row(q)]
  BY DEF ExpireStaleRuns
<1> HIDE DEF row
<1> QED
  BY <1>1, <1>2

LEMMA ExpireEffect ==
    ASSUME TypeOK, NEW r \in Runs
    PROVE  /\ ExpireStaleRuns \in [Runs -> RunRow]
           /\ ~(Active(r) /\ run[r].stale) => ExpireStaleRuns[r] = run[r]
           /\ Active(r) /\ run[r].stale =>
                 ExpireStaleRuns[r].status = "failed" /\ ExpireStaleRuns[r].stale
<1>1. /\ ~(Active(r) /\ run[r].stale) => ExpireStaleRuns[r] = run[r]
      /\ Active(r) /\ run[r].stale =>
            ExpireStaleRuns[r].status = "failed" /\ ExpireStaleRuns[r].stale
  BY DEF TypeOK, ExpireStaleRuns, WithErrorEvent
<1> QED
  BY <1>1, ExpireType

-------------------------------------------------------------------------------
(***************************************************************************)
(* What a step of thread t leaves to the others, and what they make of it. *)
(***************************************************************************)
RunSide == {"workspace", "thread"}

\* A chat never becomes live again, and references stay.
RelySession(t) ==
    /\ Live' => Live
    /\ session = "deleting" => session' = "deleting" \/ t \in Deletes
    /\ refs => refs'
    /\ refs' # refs => lease["workspace"].by = t
    /\ \A r \in Runs : Expired(r) => Expired(r)'

\* A lease has its planner for good; of a run that opens the conversation nobody
\* closes a lease, and while the chat is live nobody takes an active one away.
RelyLeases(t) ==
    /\ \A id \in Leases : lease[id].status # "none" => lease'[id].status # "none"
    /\ \A id \in Leases : lease'[id].by # lease[id].by =>
                              lease[id].by = None /\ lease'[id].by = t
    /\ \A id \in RunSide : ~refs /\ Open(id) /\ lease[id].by # t => Open(id)'
    /\ Live => \A id \in RunSide : lease[id].status = "active" => lease'[id].status = "active"
    /\ Live => \A d \in Docs : Open(d) => Open(d)'

RelyTitles(t) ==
    \A u \in Titles : u # t => \/ lease'[u] = lease[u]
                               \/ lease[u].status \notin {"none", "planned"}

\* What is made is t's; what was deleted with the workspace stays deleted.
RelyRemote(t) ==
    /\ \A m \in remote' : m \in remote \/ m[2] = t
    /\ Live => \A m \in remote : m[1] \notin Titles => m \in remote'
    /\ refs /\ (\A m \in remote : m[1] # "thread") => \A m \in remote' : m[1] # "thread"
    /\ refs /\ remote = {} => remote' = {}
    /\ session \in {"deleting", "deleted"} =>
           \A m \in remote' : m \in remote \/ (m[2] \in Runs /\ Expired(m[2])')

Rely(t) == RelySession(t) /\ RelyLeases(t) /\ RelyTitles(t) /\ RelyRemote(t)

LEMMA RunsKeep ==
    ASSUME ChatAssumption, IInv, NEW t, Rely(t), NEW q \in Runs, q # t,
           pc'[q] = pc[q], fresh'[q] = fresh[q], Keeps(q)
    PROVE  RunPlaced(q)' /\ RunOwns(q)' /\ RunPlans(q)' /\ (Live' => RunKnows(q)')
<1>0. q \in Threads /\ RunSide \subseteq Leases /\ Docs \subseteq Leases /\ q # None
  BY DEF Threads, Leases, RunSide, ChatAssumption
<1>1. RunPlaced(q)'
  BY DEF IInv, RunPlaced, Keeps, Active, Expired
<1>2. RunOwns(q)'
  <2>0. RunOwns(q)
    BY DEF IInv
  <2>1. lease["workspace"].by = q => refs' = refs
    BY DEF Rely, RelySession
  <2>2. ASSUME NEW id \in RunSide
        PROVE  lease'[id].by = q <=> lease[id].by = q
    <3>1. lease'[id].by # lease[id].by => lease[id].by = None /\ lease'[id].by = t
      BY <1>0 DEF Rely, RelyLeases
    <3> QED
      BY <1>0, <3>1
  <2>3. \A id \in RunSide : ~refs /\ lease[id].by = q /\ Open(id) => Open(id)'
    BY DEF Rely, RelyLeases
  <2>4. \A id \in RunSide : ~Made(id, q) => ~Made(id, q)'
    BY DEF Rely, RelyRemote, Made
  <2>5. "workspace" \in RunSide /\ "thread" \in RunSide
    BY DEF RunSide
  <2>6. /\ lease'["workspace"].by = q <=> lease["workspace"].by = q
        /\ lease'["thread"].by = q <=> lease["thread"].by = q
    BY <2>2, <2>5
  <2>7. pc[q] \in Planned =>
           /\ ~refs' /\ Open("workspace")'
           /\ pc[q] # "thread" => Open("thread")'
    BY <2>0, <2>1, <2>3, <2>5 DEF RunOwns, Planned
  <2> QED
    BY <2>0, <2>4, <2>5, <2>6, <2>7 DEF RunOwns, Planned
<1>3. RunPlans(q)'
  <2>1. \A d \in Docs : lease[d].status # "none" => lease'[d].status # "none"
    BY <1>0 DEF Rely, RelyLeases
  <2>2. RunPlans(q) /\ fresh[q] \subseteq Docs
    BY DEF IInv, TypeOK
  <2> QED
    BY <2>1, <2>2 DEF RunPlans
<1>4. ASSUME Live' PROVE RunKnows(q)'
  <2>1. Live /\ RunKnows(q)
    BY <1>4 DEF IInv, Rely, RelySession
  <2>2. \A id \in RunSide \cup Docs : Made(id, q) => Made(id, q)'
    BY <2>1 DEF Rely, RelyRemote, Made, RunSide, ChatAssumption
  <2>3. \A d \in Docs : Open(d) => Open(d)'
    BY <2>1 DEF Rely, RelyLeases
  <2>4. \A id \in RunSide : lease[id].status = "active" => lease'[id].status = "active"
    BY <2>1 DEF Rely, RelyLeases
  <2>5. fresh[q] \subseteq Docs
    BY DEF IInv, TypeOK
  <2> QED
    BY <2>1, <2>2, <2>3, <2>4, <2>5 DEF RunKnows, RunSide
<1> QED
  BY <1>1, <1>2, <1>3, <1>4

LEMMA TitlesKeep ==
    ASSUME ChatAssumption, IInv, NEW t, Rely(t), NEW u \in Titles, u # t, pc'[u] = pc[u]
    PROVE  TitleInv(u)'
<1>1. ~Made(u, u) => ~Made(u, u)'
  BY DEF Rely, RelyRemote, Made
<1>2. lease[u].status \in {"none", "planned"} => lease'[u].status = lease[u].status
  BY DEF Rely, RelyTitles
<1> QED
  BY <1>1, <1>2 DEF IInv, TitleInv

LEMMA DeletionsKeep ==
    ASSUME ChatAssumption, IInv, NEW t, Rely(t), NEW d \in Deletes, d # t, pc'[d] = pc[d],
           t \notin Deletes,
           \A e \in Deletes : pc'[e] = pc[e]
    PROVE  DeletionInv(d)'
<1>1. DeletionInv(d)
  BY DEF IInv
<1>2. pc[d] \in {"cleaned", "closing"} => OnlyExpired'
  <2> SUFFICES ASSUME OnlyExpired, session = "deleting"
               PROVE  OnlyExpired'
    BY <1>1 DEF DeletionInv, Deleting
  <2> QED
    BY DEF OnlyExpired, Rely, RelyRemote, RelySession
<1>3. pc[d] \in Naming => refs /\ refs'
  BY <1>1 DEF DeletionInv, Rely, RelySession
<1>4. pc[d] = "dropped thread" => \A m \in remote' : m[1] # "thread"
  BY <1>1, <1>3 DEF DeletionInv, Rely, RelyRemote, Naming
<1>5. pc[d] = "dropped context" => remote' = {}
  BY <1>1, <1>3 DEF DeletionInv, Rely, RelyRemote, Naming
<1>6. pc[d] \in Deleting => session' = "deleting"
  BY <1>1 DEF DeletionInv, Rely, RelySession
<1> QED
  BY <1>1, <1>2, <1>3, <1>4, <1>5, <1>6 DEF DeletionInv

\* The invariant after a step of t, from what t owes to itself and to all.
RunInv(r)  == RunPlaced(r) /\ RunOwns(r) /\ RunPlans(r) /\ (Live => RunKnows(r))
GlobalInv  == TypeOK /\ OneAtATime /\ LeaseInv /\ RemoteInv /\ (Live => LiveInv)

LEMMA Combine ==
    ASSUME ChatAssumption, IInv, NEW t \in Runs \cup Titles, NEW place, Moves(t, place),
           Rely(t), GlobalInv',
           \A q \in Runs : q # t => Keeps(q) /\ fresh'[q] = fresh[q],
           t \in Runs => RunInv(t)',
           t \in Titles => TitleInv(t)'
    PROVE  IInv'
<1>1. \A q \in Runs : q # t => RunInv(q)'
  BY RunsKeep DEF Moves, Threads, RunInv
<1>2. \A u \in Titles : u # t => TitleInv(u)'
  BY TitlesKeep DEF Moves, Threads
<1>3. \A d \in Deletes : d # t /\ pc'[d] = pc[d] /\ t \notin Deletes
  BY DEF ChatAssumption, Moves, Threads
<1>4. \A d \in Deletes : DeletionInv(d)'
  BY <1>3, DeletionsKeep
<1> QED
  BY <1>1, <1>2, <1>4 DEF IInv, GlobalInv, RunInv

-------------------------------------------------------------------------------
(***************************************************************************)
(* Steps of a run that change neither a lease nor a remote resource.       *)
(***************************************************************************)
LEMMA QuietRely ==
    ASSUME ChatAssumption, IInv, NEW t, t \notin Deletes,
           UNCHANGED <<refs, lease, bound, remote>>,
           session' = session \/ (Live /\ session' = "active"),
           \A q \in Runs : Expired(q) => Expired(q)'
    PROVE  Rely(t) /\ LeaseInv' /\ RemoteInv' /\ (Live' => LiveInv')
<1>1. RelySession(t)
  BY DEF RelySession, Live
<1>2. RelyLeases(t) /\ RelyTitles(t)
  BY DEF RelyLeases, RelyTitles, Open
<1>3. RelyRemote(t)
  BY DEF RelyRemote
<1>4. LeaseInv'
  BY DEF IInv, LeaseInv, Live, Exists
<1>5. RemoteInv'
  BY DEF IInv, RemoteInv, Open, OnlyExpired, Live
<1>6. Live' => LiveInv'
  BY DEF IInv, LiveInv, Live, Open, Exists
<1> QED
  BY <1>1, <1>2, <1>3, <1>4, <1>5, <1>6 DEF Rely

\* The rows of all runs after a transaction that has expired what is stale.
LEMMA ExpireKeeps ==
    ASSUME TypeOK, NEW q \in Runs
    PROVE  run'[q] = ExpireStaleRuns[q] => Keeps(q)
BY ExpireEffect DEF Keeps

LEMMA KeepsExpired ==
    ASSUME NEW q \in Runs, Keeps(q), Expired(q)
    PROVE  Expired(q)'
BY DEF Keeps, Expired, Active

LEMMA ReservePreserves ==
    ASSUME ChatAssumption, IInv, NEW r \in Runs, Reserve(r)
    PROVE  IInv'
<1>0. TypeOK /\ r \in Threads /\ run' = ExpireStaleRuns
  BY DEF IInv, Threads, Reserve
<1>1. Moves(r, "guarded")
  BY <1>0, Goes DEF Reserve, Places
<1>2. \A q \in Runs : Keeps(q)
  BY <1>0, ExpireKeeps
<1>3. Rely(r) /\ LeaseInv' /\ RemoteInv' /\ (Live' => LiveInv')
  BY <1>2, KeepsExpired, QuietRely DEF Reserve, ChatAssumption
<1>4. TypeOK'
  BY <1>0, <1>1, ExpireEffect DEF TypeOK, Reserve, Moves, RunRow
<1>5. OneAtATime'
  BY DEF IInv, OneAtATime, Reserve, Idle, Active, NoneActive
<1>6. RunInv(r)'
  <2>1. pc[r] = "idle" /\ pc'[r] = "guarded"
    BY <1>1 DEF Reserve, At, Moves
  <2>2. run'[r].status = "none"
    BY <2>1, <1>0, ExpireEffect DEF IInv, RunPlaced, Active
  <2>3. RunPlaced(r)'
    BY <2>1, <2>2 DEF RunPlaced, RunPlaces, Active
  <2>4. RunOwns(r)' /\ RunPlans(r)' /\ RunKnows(r)'
    BY <2>1 DEF IInv, RunOwns, RunPlans, RunKnows, Reserve, Planned, ChatAssumption, Places
  <2> QED
    BY <2>3, <2>4 DEF RunInv
<1> QED
  BY <1>1, <1>2, <1>3, <1>4, <1>5, <1>6, Combine DEF GlobalInv, Reserve

LEMMA QuietRun ==
    ASSUME ChatAssumption, IInv, NEW r \in Runs, NEW place, Moves(r, place),
           UNCHANGED <<refs, lease, bound, remote>>,
           session' = session \/ (Live /\ session' = "active"),
           \A q \in Runs : q # r => Keeps(q) /\ fresh'[q] = fresh[q],
           Expired(r) => Expired(r)',
           TypeOK', OneAtATime', RunInv(r)'
    PROVE  IInv'
<1>1. r \notin Deletes /\ r \notin Titles
  BY DEF ChatAssumption
<1>2. Rely(r) /\ LeaseInv' /\ RemoteInv' /\ (Live' => LiveInv')
  BY <1>1, KeepsExpired, QuietRely
<1> QED
  BY <1>1, <1>2, Combine DEF GlobalInv

LEMMA SameRunKeeps == ASSUME NEW q \in Runs, run'[q] = run[q] PROVE Keeps(q) /\ (Expired(q) => Expired(q)')
BY DEF Keeps, Expired

\* What a run owns and knows moves with it, between places that ask for the same.
Plain == {"idle", "guarded", "accepted", "started", "entered", "workspace"}
Later == {"documents", "planning", "streaming", "succeeding", "failing", "aborting",
          "done", "dead"}

LEMMA PlainRun ==
    ASSUME ChatAssumption, IInv, NEW r \in Runs, UNCHANGED <<refs, lease, remote>>,
           \/ pc'[r] \in Later
           \/ pc[r] \in Plain /\ pc'[r] \in Plain
    PROVE  RunOwns(r)' /\ RunPlans(r)' /\ RunKnows(r)'
<1>1. (Plain \cup Later) \cap Docs = {}
  BY DEF Plain, Later, Places, ChatAssumption
<1>2. RunOwns(r)'
  BY DEF IInv, RunOwns, Planned, Plain, Later, Made, Open
<1>3. RunPlans(r)'
  BY DEF RunPlans, Plain, Later
<1>4. RunKnows(r)'
  BY <1>1 DEF RunKnows, Plain, Later
<1> QED
  BY <1>2, <1>3, <1>4

LEMMA RefusePreserves ==
    ASSUME ChatAssumption, IInv, NEW r \in Runs, Refuse(r)
    PROVE  IInv'
<1>0. TypeOK /\ r \in Threads
  BY DEF IInv, Threads
<1>1. Moves(r, "done")
  BY <1>0, Goes DEF Refuse, Places
<1>2. TypeOK'
  BY <1>0, <1>1 DEF TypeOK, Refuse, Moves, Released, Free
<1>3. OneAtATime'
  BY DEF IInv, OneAtATime, Refuse, Released, Free, Idle, Active
<1>4. RunPlaced(r)'
  BY <1>1 DEF IInv, RunPlaced, RunPlaces, Refuse, At, Moves, Active
<1>5. RunInv(r)'
  BY <1>1, <1>4, PlainRun DEF RunInv, Refuse, Later, Moves
<1> QED
  BY <1>1, <1>2, <1>3, <1>5, QuietRun, SameRunKeeps DEF Refuse

LEMMA AcceptPreserves ==
    ASSUME ChatAssumption, IInv, NEW r \in Runs, Accept(r)
    PROVE  IInv'
<1>0. TypeOK /\ r \in Threads
  BY DEF IInv, Threads
<1>1. Moves(r, "accepted")
  BY <1>0, Goes DEF Accept, Places
<1>2. run' \in [Runs -> RunRow] /\ run'[r].status = "accepted"
      /\ \A q \in Runs : q # r => run'[q] = ExpireStaleRuns[q]
  <2> DEFINE runs == ExpireStaleRuns
  <2>1. runs \in [Runs -> RunRow]
    BY <1>0, ExpireEffect
  <2>2. run' = [runs EXCEPT ![r].status = "accepted", ![r].user = "pending"]
    BY DEF Accept
  <2> HIDE DEF runs
  <2>3. [runs[r] EXCEPT !.status = "accepted", !.user = "pending"] \in RunRow
        /\ [runs[r] EXCEPT !.status = "accepted", !.user = "pending"].status = "accepted"
    BY <2>1 DEF RunRow
  <2>4. run' = [runs EXCEPT ![r] = [runs[r] EXCEPT !.status = "accepted", !.user = "pending"]]
    BY <2>1, <2>2
  <2>5. run' \in [Runs -> RunRow] /\ run'[r].status = "accepted"
        /\ \A q \in Runs : q # r => run'[q] = runs[q]
    BY <2>1, <2>3, <2>4
  <2> QED
    BY <2>5 DEF runs
<1>3. fresh' \in [Runs -> SUBSET Docs] /\ \A q \in Runs : q # r => fresh'[q] = fresh[q]
  BY <1>0 DEF TypeOK, Accept
<1>4. TypeOK'
  BY <1>0, <1>1, <1>2, <1>3 DEF TypeOK, Accept, Moves, RunRow, Free
<1>5. \A q \in Runs : q # r => ~Active(q)'
  BY <1>2 DEF Accept, NoneActive, Active
<1>6. OneAtATime'
  BY <1>5 DEF OneAtATime, Accept, Free
<1>7. pc[r] = "guarded" /\ run[r].status = "none"
  BY DEF IInv, RunPlaced, Accept, At
<1>8. RunPlaced(r)'
  BY <1>1, <1>2 DEF RunPlaced, RunPlaces, Moves
<1>9. RunInv(r)'
  BY <1>1, <1>7, <1>8, PlainRun DEF RunInv, Accept, Plain, Moves
<1>10. \A q \in Runs : q # r => Keeps(q)
  BY <1>0, <1>2, ExpireKeeps
<1> QED
  BY <1>1, <1>3, <1>4, <1>6, <1>7, <1>9, <1>10, QuietRun DEF Accept, Expired, Live

\* One row changes.
LEMMA OneRow ==
    ASSUME TypeOK, NEW r \in Runs, NEW row \in RunRow, run' = [run EXCEPT ![r] = row]
    PROVE  /\ run' \in [Runs -> RunRow] /\ run'[r] = row
           /\ \A q \in Runs : q # r => run'[q] = run[q] /\ Keeps(q)
BY DEF TypeOK, RunRow, Keeps

\* The end of a run that never started, and the start of one.
LEMMA RowTypes ==
    ASSUME TypeOK, NEW r \in Runs
    PROVE  /\ run[r] \in RunRow
           /\ LET row == WithErrorEvent([run[r] EXCEPT !.status = "failed", !.user = "discarded"])
              IN  row \in RunRow /\ row.status = "failed"
           /\ LET row == [run[r] EXCEPT !.status = "running", !.stale = FALSE]
              IN  row \in RunRow /\ row.status = "running"
<1>1. run[r] \in RunRow
  BY DEF TypeOK, RunRow
<1>2. LET row == WithErrorEvent([run[r] EXCEPT !.status = "failed", !.user = "discarded"])
      IN  row \in RunRow /\ row.status = "failed"
  <2>1. [run[r] EXCEPT !.status = "failed", !.user = "discarded"] \in RunRow
        /\ [run[r] EXCEPT !.status = "failed", !.user = "discarded"].status = "failed"
    BY <1>1 DEF RunRow, Verdicts
  <2>2. \A row \in RunRow : WithErrorEvent(row) \in RunRow
                            /\ WithErrorEvent(row).status = row.status
    BY DEF WithErrorEvent, RunRow
  <2> QED
    BY <2>1, <2>2
<1>3. LET row == [run[r] EXCEPT !.status = "running", !.stale = FALSE]
      IN  row \in RunRow /\ row.status = "running"
  BY <1>1 DEF RunRow
<1> QED
  BY <1>1, <1>2, <1>3

LEMMA CloseEarlyPreserves ==
    ASSUME ChatAssumption, IInv, NEW r \in Runs, CloseEarly(r)
    PROVE  IInv'
<1> DEFINE row == IF run[r].status = "accepted"
                  THEN WithErrorEvent([run[r] EXCEPT !.status = "failed", !.user = "discarded"])
                  ELSE run[r]
<1>0. TypeOK /\ r \in Threads
  BY DEF IInv, Threads
<1>1. Moves(r, "done")
  BY <1>0, Goes DEF CloseEarly, Places
<1>2. row \in RunRow /\ row.status \notin {"accepted", "running"}
  <2>1. run[r].status # "running"
    BY DEF IInv, RunPlaced, CloseEarly, At
  <2>2. CASE run[r].status = "accepted"
    BY <1>0, <2>2, RowTypes
  <2>3. CASE run[r].status # "accepted"
    BY <1>0, <2>1, <2>3, RowTypes
  <2> QED
    BY <2>2, <2>3
<1>3. run' = [run EXCEPT ![r] = row]
  BY DEF CloseEarly
<1> HIDE DEF row
<1>4. /\ run' \in [Runs -> RunRow] /\ run'[r] = row
      /\ \A q \in Runs : q # r => run'[q] = run[q] /\ Keeps(q)
  BY <1>0, <1>2, <1>3, OneRow
<1>5. TypeOK'
  BY <1>0, <1>1, <1>4 DEF TypeOK, CloseEarly, Moves, RunRow
<1>6. \A q \in Runs : Active(q)' => Active(q)
  BY <1>2, <1>4 DEF Active
<1>7. OneAtATime'
  BY <1>6 DEF IInv, OneAtATime, CloseEarly, Idle
<1>8. RunPlaced(r)'
  BY <1>1, <1>2, <1>4 DEF RunPlaced, RunPlaces, Moves, Active
<1>9. RunInv(r)'
  BY <1>1, <1>8, PlainRun DEF RunInv, CloseEarly, Later, Moves
<1>10. Expired(r) => Expired(r)'
  BY <1>4 DEF Expired, row
<1> QED
  BY <1>1, <1>4, <1>5, <1>7, <1>9, <1>10, QuietRun DEF CloseEarly

LEMMA StartPreserves ==
    ASSUME ChatAssumption, IInv, NEW r \in Runs, Start(r)
    PROVE  IInv'
<1> DEFINE row == IF run[r].status = "accepted"
                  THEN [run[r] EXCEPT !.status = "running", !.stale = FALSE]
                  ELSE run[r]
           place == IF run[r].status = "accepted" THEN "started" ELSE "done"
<1>0. TypeOK /\ r \in Threads /\ pc[r] = "accepted"
  BY DEF IInv, Threads, Start, At
<1>1. Moves(r, place)
  BY <1>0, Goes DEF Start, Places
<1>2. /\ row \in RunRow
      /\ run[r].status = "accepted" => row.status = "running"
      /\ run[r].status # "accepted" => row.status \notin {"accepted", "running"}
  BY <1>0, RowTypes DEF IInv, RunPlaced
<1>3. run' = [run EXCEPT ![r] = row]
  <2>1. CASE run[r].status = "accepted"
    BY <1>0, <2>1 DEF Start, TypeOK
  <2>2. CASE run[r].status # "accepted"
    <3>1. row = run[r] /\ run' = run
      BY <2>2 DEF Start
    <3> HIDE DEF row
    <3> QED
      BY <1>0, <3>1 DEF TypeOK
  <2> QED
    BY <2>1, <2>2
<1> HIDE DEF row
<1>4. /\ run' \in [Runs -> RunRow] /\ run'[r] = row
      /\ \A q \in Runs : q # r => run'[q] = run[q] /\ Keeps(q)
  BY <1>0, <1>2, <1>3, OneRow
<1>5. TypeOK'
  BY <1>0, <1>1, <1>4 DEF TypeOK, Start, Moves, RunRow
<1>6. \A q \in Runs : Active(q)' => Active(q)
  BY <1>2, <1>4 DEF Active
<1>7. OneAtATime'
  BY <1>6 DEF IInv, OneAtATime, Start, Idle
<1>8. RunPlaced(r)'
  BY <1>1, <1>2, <1>4 DEF RunPlaced, RunPlaces, Moves, Active
<1>9. RunInv(r)'
  BY <1>0, <1>1, <1>8, PlainRun DEF RunInv, Start, Plain, Later, Moves
<1>10. Expired(r) => Expired(r)'
  BY <1>4 DEF Expired, row
<1> QED
  BY <1>1, <1>4, <1>5, <1>7, <1>9, <1>10, QuietRun DEF Start

\* A run that works goes from one place of work to the next.
Work == RunPlaces \ {"idle", "guarded", "accepted", "done", "dead"}

LEMMA Working ==
    ASSUME IInv, NEW r \in Runs, pc[r] \in Work, run'[r] = run[r]
    PROVE  /\ Active(r) \/ Expired(r)
           /\ pc'[r] \in Work => RunPlaced(r)'
<1>1. Active(r) \/ Expired(r)
  BY DEF IInv, RunPlaced, Work
<1>2. pc'[r] \in Work => RunPlaced(r)'
  BY <1>1 DEF RunPlaced, Work, Active, Expired
<1> QED
  BY <1>1, <1>2

LEMMA OneAtATimeKeeps ==
    ASSUME IInv, UNCHANGED <<session, guard, run>>,
           \A t \in Titles : lease'[t].status \in {"planned", "active"} =>
                                 lease[t].status \in {"planned", "active"}
    PROVE  OneAtATime'
BY DEF IInv, OneAtATime, Idle, Active

LEMMA QuietMove ==
    ASSUME ChatAssumption, IInv, NEW r \in Runs, NEW place, Moves(r, place),
           UNCHANGED <<rows, remote, todo, crashed>>,
           fresh' \in [Runs -> SUBSET Docs], \A q \in Runs : q # r => fresh'[q] = fresh[q],
           RunInv(r)'
    PROVE  IInv'
<1>1. TypeOK'
  BY DEF IInv, TypeOK, Moves, rows
<1>2. OneAtATime'
  BY OneAtATimeKeeps DEF rows
<1> QED
  BY <1>1, <1>2, QuietRun, SameRunKeeps DEF rows

LEMMA EnterPreserves ==
    ASSUME ChatAssumption, IInv, NEW r \in Runs, Enter(r)
    PROVE  IInv'
<1> DEFINE place == IF ~Active(r) THEN "done"
                    ELSE IF run[r].abort THEN "aborting" ELSE "entered"
<1>0. TypeOK /\ r \in Threads /\ pc[r] = "started" /\ run' = run /\ fresh' = fresh
  BY DEF IInv, Threads, Enter, At, rows
<1>1. Moves(r, place)
  BY <1>0, Goes DEF Enter, Places
<1>2. CASE place = "done"
  <2>1. RunPlaced(r)'
    BY <1>0, <1>1, <1>2 DEF RunPlaced, RunPlaces, Moves, Active
  <2> QED
    BY <1>0, <1>1, <1>2, <2>1, PlainRun, QuietMove DEF RunInv, Enter, rows, Later, Moves, TypeOK
<1>3. CASE place # "done"
  <2>1. RunPlaced(r)'
    BY <1>0, <1>1, <1>3, Working DEF Work, RunPlaces, Moves
  <2>2. pc[r] \in Plain /\ (pc'[r] \in Plain \/ pc'[r] \in Later)
    BY <1>0, <1>1, <1>3 DEF Plain, Later, Moves
  <2> QED
    BY <1>0, <1>1, <2>1, <2>2, PlainRun, QuietMove DEF RunInv, Enter, rows, TypeOK
<1> QED
  BY <1>2, <1>3

LEMMA ReadSessionPreserves ==
    ASSUME ChatAssumption, IInv, NEW r \in Runs, ReadSession(r)
    PROVE  IInv'
<1>0. TypeOK /\ r \in Threads /\ pc[r] = "entered" /\ run' = run /\ fresh' = fresh
  BY DEF IInv, Threads, ReadSession, At, rows
<1>1. PICK place \in {"failing", "aborting", "documents", "workspace"} : Moves(r, place)
  <2>1. CASE session # "active"
    BY <1>0, <2>1, Breaks DEF ReadSession
  <2>2. CASE session = "active"
    BY <1>0, <2>2, Goes DEF ReadSession, Places
  <2> QED
    BY <2>1, <2>2
<1>2. RunPlaced(r)'
  BY <1>0, <1>1, Working DEF Work, RunPlaces, Moves
<1>3. pc[r] \in Plain /\ (pc'[r] \in Plain \/ pc'[r] \in Later)
  BY <1>0, <1>1 DEF Plain, Later, Moves
<1> QED
  BY <1>0, <1>1, <1>2, <1>3, PlainRun, QuietMove DEF RunInv, ReadSession, rows, TypeOK

LEMMA EndStreamPreserves ==
    ASSUME ChatAssumption, IInv, NEW r \in Runs, EndStream(r)
    PROVE  IInv'
<1>0. TypeOK /\ r \in Threads /\ pc[r] = "streaming" /\ run' = run /\ fresh' = fresh
  BY DEF IInv, Threads, EndStream, At, rows
<1>1. PICK place \in {"failing", "aborting", "succeeding"} : Moves(r, place)
  <2>1. CASE Break(r)
    BY <1>0, <2>1, Breaks
  <2>2. CASE ~Break(r)
    BY <1>0, <2>2, Goes DEF EndStream, Places
  <2> QED
    BY <2>1, <2>2
<1>2. RunPlaced(r)'
  BY <1>0, <1>1, Working DEF Work, RunPlaces, Moves
<1>3. pc'[r] \in Later
  BY <1>1 DEF Later, Moves
<1> QED
  BY <1>0, <1>1, <1>2, <1>3, PlainRun, QuietMove DEF RunInv, EndStream, rows, TypeOK

LEMMA ReadBindingsPreserves ==
    ASSUME ChatAssumption, IInv, NEW r \in Runs, ReadBindings(r)
    PROVE  IInv'
<1>0. TypeOK /\ r \in Threads /\ pc[r] = "documents" /\ run' = run
  BY DEF IInv, Threads, ReadBindings, At, rows
<1>1. PICK place \in {"streaming", "planning"} : Moves(r, place)
  BY <1>0, Goes DEF ReadBindings, Places
<1>2. fresh' \in [Runs -> SUBSET Docs] /\ \A q \in Runs : q # r => fresh'[q] = fresh[q]
  BY <1>0 DEF TypeOK, ReadBindings
<1>3. RunPlaced(r)'
  BY <1>0, <1>1, Working DEF Work, RunPlaces, Moves
<1>4. pc'[r] \in Later
  BY <1>1 DEF Later, Moves
<1> QED
  BY <1>0, <1>1, <1>2, <1>3, <1>4, PlainRun, QuietMove DEF RunInv, ReadBindings, rows

LEMMA EmitPreserves ==
    ASSUME ChatAssumption, IInv, NEW r \in Runs, Emit(r)
    PROVE  IInv'
<1>0. TypeOK /\ r \in Threads /\ pc[r] = "streaming" /\ fresh' = fresh
  BY DEF IInv, Threads, Emit, At
<1>1. CASE run[r].abort \/ ~Active(r)
  <2>1. PICK place \in {"failing", "aborting"} : Moves(r, place)
    BY <1>0, <1>1, Goes DEF Emit, Places
  <2>2. RunPlaced(r)'
    BY <1>0, <1>1, <2>1, Working DEF Emit, Work, RunPlaces, Moves
  <2>3. pc'[r] \in Later
    BY <2>1 DEF Later, Moves
  <2> QED
    BY <1>0, <1>1, <2>1, <2>2, <2>3, PlainRun, QuietMove DEF RunInv, Emit, rows, TypeOK
<1>2. CASE ~(run[r].abort \/ ~Active(r))
  <2> DEFINE row == [run[r] EXCEPT !.stale = FALSE]
  <2>1. Moves(r, "streaming")
    BY <1>0, <1>2 DEF Emit, Moves, TypeOK
  <2>2. row \in RunRow /\ row.status = run[r].status
    <3>1. run[r] \in RunRow
      BY <1>0 DEF TypeOK, RunRow
    <3> QED
      BY <3>1 DEF RunRow
  <2>3. run' = [run EXCEPT ![r] = row]
    BY <1>2 DEF Emit
  <2> HIDE DEF row
  <2>4. /\ run' \in [Runs -> RunRow] /\ run'[r] = row
        /\ \A q \in Runs : q # r => run'[q] = run[q] /\ Keeps(q)
    BY <1>0, <2>2, <2>3, OneRow
  <2>5. TypeOK'
    BY <1>0, <1>2, <2>1, <2>4 DEF TypeOK, Emit, Moves, RunRow
  <2>6. \A q \in Runs : Active(q)' <=> Active(q)
    BY <2>2, <2>4 DEF Active
  <2>7. OneAtATime'
    BY <1>2, <2>6 DEF IInv, OneAtATime, Emit, Idle
  <2>8. RunPlaced(r)'
    BY <1>0, <1>2, <2>1, <2>6 DEF RunPlaced, RunPlaces, Moves
  <2>9. pc'[r] \in Later
    BY <2>1 DEF Later, Moves
  <2>10. RunInv(r)'
    BY <1>2, <2>8, <2>9, PlainRun DEF RunInv, Emit
  <2>11. ~Expired(r)
    BY <1>2 DEF Expired, Active
  <2> QED
    BY <1>0, <1>2, <2>1, <2>4, <2>5, <2>7, <2>10, <2>11, QuietRun DEF Emit
<1> QED
  BY <1>1, <1>2

LEMMA SettlePreserves ==
    ASSUME ChatAssumption, IInv, NEW r \in Runs, NEW verdict \in Verdicts,
           NEW event \in {"done", "error", "aborted"}, Settle(r, verdict, event)
    PROVE  IInv'
<1> DEFINE row == IF Active(r)
                  THEN [run[r] EXCEPT !.status = verdict, !.user = "committed",
                           !.answer = (verdict = "succeeded"), !.event = event]
                  ELSE run[r]
<1>0. TypeOK /\ r \in Threads
  BY DEF IInv, Threads
<1>1. Moves(r, "done")
  BY <1>0, Goes DEF Settle, Places
<1>2. /\ row \in RunRow /\ row.status \notin {"accepted", "running"}
      /\ ~Active(r) => row = run[r]
  <2>1. CASE Active(r)
    <3> DEFINE answer == verdict = "succeeded"
    <3>0. answer \in BOOLEAN /\ run[r] \in RunRow
      BY <1>0, RowTypes
    <3>1. row = [run[r] EXCEPT !.status = verdict, !.user = "committed",
                     !.answer = answer, !.event = event]
      BY <2>1
    <3> HIDE DEF answer, row
    <3>2. row \in RunRow /\ row.status = verdict
      BY <3>0, <3>1 DEF RunRow
    <3> QED
      BY <2>1, <3>2 DEF Verdicts
  <2>2. CASE ~Active(r)
    BY <1>0, <2>2, RowTypes DEF Active
  <2> QED
    BY <2>1, <2>2
<1>3. run' = [run EXCEPT ![r] = row]
  BY DEF Settle
<1> HIDE DEF row
<1>4. /\ run' \in [Runs -> RunRow] /\ run'[r] = row
      /\ \A q \in Runs : q # r => run'[q] = run[q] /\ Keeps(q)
  BY <1>0, <1>2, <1>3, OneRow
<1>5. fresh' \in [Runs -> SUBSET Docs] /\ \A q \in Runs : q # r => fresh'[q] = fresh[q]
  BY <1>0 DEF TypeOK, Settle
<1>6. TypeOK'
  BY <1>0, <1>1, <1>4, <1>5 DEF TypeOK, Settle, Moves, RunRow
<1>7. \A q \in Runs : Active(q)' => Active(q)
  BY <1>2, <1>4 DEF Active
<1>8. OneAtATime'
  BY <1>7 DEF IInv, OneAtATime, Settle, Idle
<1>9. RunPlaced(r)'
  BY <1>1, <1>2, <1>4 DEF RunPlaced, RunPlaces, Moves, Active
<1>10. RunInv(r)'
  BY <1>1, <1>9, PlainRun DEF RunInv, Settle, Later, Moves
<1>11. Expired(r) => Expired(r)'
  BY <1>2, <1>4 DEF Expired, Active
<1> QED
  BY <1>1, <1>4, <1>5, <1>6, <1>8, <1>10, <1>11, QuietRun DEF Settle

LEMMA UpdateRefsPreserves ==
    ASSUME ChatAssumption, IInv, NEW r \in Runs, UpdateRefs(r)
    PROVE  IInv'
<1>0. TypeOK /\ r \in Threads /\ pc[r] = "opened thread" /\ run' = run /\ fresh' = fresh
  BY DEF IInv, Threads, UpdateRefs, At
<1>1. CASE session = "active"
  <2>1. Moves(r, "documents") /\ refs' = TRUE
    BY <1>0, <1>1, Goes DEF UpdateRefs, Places
  <2>2. RunOwns(r) /\ RunKnows(r) /\ lease["workspace"].by = r /\ Open("workspace")
    BY <1>0, <1>1 DEF IInv, RunOwns, Planned, Live
  <2>3. TypeOK'
    BY <1>0, <2>1 DEF TypeOK, UpdateRefs, Moves
  <2>4. OneAtATime'
    BY OneAtATimeKeeps DEF UpdateRefs
  <2>5. Rely(r)
    BY <2>1, <2>2 DEF UpdateRefs, Rely, RelySession, RelyLeases, RelyTitles, RelyRemote,
                     Live, Open, Expired
  <2>6. LeaseInv'
    BY <2>1, <2>2 DEF IInv, UpdateRefs, LeaseInv, Live, Exists, Open
  <2>7. RemoteInv'
    BY DEF IInv, UpdateRefs, RemoteInv, Open, OnlyExpired, Expired
  <2>8. LiveInv'
    BY <1>0, <1>1, <2>1, <2>2 DEF IInv, UpdateRefs, LiveInv, Live, Open, Exists, RunKnows, Made
  <2>9. RunPlaced(r)'
    BY <1>0, <2>1, Working DEF Work, RunPlaces, Moves
  <2>10. RunOwns(r)' /\ RunPlans(r)' /\ RunKnows(r)'
    BY <2>1 DEF RunOwns, RunPlans, RunKnows, Planned, Moves, Places, ChatAssumption
  <2>11. r \notin Titles
    BY DEF ChatAssumption
  <2> QED
    BY <1>0, <2>1, <2>3, <2>4, <2>5, <2>6, <2>7, <2>8, <2>9, <2>10, <2>11, Combine, SameRunKeeps
       DEF GlobalInv, RunInv
<1>2. CASE session # "active"
  <2>1. PICK place \in {"failing", "aborting"} : Moves(r, place)
    BY <1>0, <1>2, Breaks DEF UpdateRefs
  <2>2. RunPlaced(r)'
    BY <1>0, <2>1, Working DEF Work, RunPlaces, Moves
  <2>3. pc'[r] \in Later
    BY <2>1 DEF Later, Moves
  <2> QED
    BY <1>0, <1>2, <2>1, <2>2, <2>3, PlainRun, QuietMove DEF RunInv, UpdateRefs, rows, TypeOK
<1> QED
  BY <1>1, <1>2

LEMMA BindDocumentPreserves ==
    ASSUME ChatAssumption, IInv, NEW r \in Runs, BindDocument(r)
    PROVE  IInv'
<1>0. TypeOK /\ r \in Threads /\ pc[r] = "attached" /\ run' = run /\ fresh' = fresh
  BY DEF IInv, Threads, BindDocument, At
<1>1. PICK d \in fresh[r] : bound' = bound \cup {d} /\ Goto(r, d)
  BY DEF BindDocument
<1>2. d \in Docs /\ d \notin Places
  BY <1>0 DEF TypeOK, ChatAssumption
<1>3. Moves(r, d)
  BY <1>0, <1>1, <1>2, Goes
<1>4. TypeOK'
  BY <1>0, <1>1, <1>2, <1>3 DEF TypeOK, BindDocument, Moves
<1>5. OneAtATime'
  BY OneAtATimeKeeps DEF BindDocument
<1>6. Rely(r)
  BY DEF BindDocument, Rely, RelySession, RelyLeases, RelyTitles, RelyRemote,
         Live, Open, Expired
<1>7. LeaseInv' /\ RemoteInv'
  BY DEF IInv, BindDocument, LeaseInv, Live, Exists, RemoteInv, Open, OnlyExpired, Expired
<1>8. ASSUME Live' PROVE LiveInv' /\ RunKnows(r)'
  <2>1. Live /\ RunKnows(r) /\ LiveInv
    BY <1>8 DEF BindDocument, Live, IInv
  <2>2. \A x \in fresh[r] : Made(x, r) /\ Open(x)
    BY <1>0, <2>1 DEF RunKnows
  <2>3. LiveInv'
    BY <1>0, <1>1, <2>1, <2>2 DEF LiveInv, BindDocument, Exists, Open, Made
  <2>4. RunKnows(r)'
    BY <1>0, <1>2, <1>3, <2>2 DEF RunKnows, BindDocument, Made, Open, Moves, Places
  <2> QED
    BY <2>3, <2>4
<1>9. RunPlaced(r)'
  BY <1>0, <1>2, <1>3, Working DEF Work, RunPlaces, Moves, Places
<1>10. RunOwns(r)' /\ RunPlans(r)'
  BY <1>2, <1>3 DEF RunOwns, RunPlans, Planned, Moves, Places
<1>11. r \notin Titles
  BY DEF ChatAssumption
<1> QED
  BY <1>0, <1>3, <1>4, <1>5, <1>6, <1>7, <1>8, <1>9, <1>10, <1>11, Combine, SameRunKeeps
     DEF GlobalInv, RunInv

-------------------------------------------------------------------------------
(***************************************************************************)
(* Steps of a run that change leases or remote resources.                  *)
(***************************************************************************)
LEMMA BreakMove ==
    ASSUME ChatAssumption, IInv, NEW r \in Runs, pc[r] \in Work, Break(r),
           UNCHANGED <<rows, remote, fresh, todo, crashed>>
    PROVE  IInv'
<1>0. TypeOK /\ r \in Threads /\ run' = run /\ fresh' = fresh
  BY DEF IInv, Threads, rows
<1>1. PICK place \in {"failing", "aborting"} : Moves(r, place)
  BY <1>0, Breaks
<1>2. RunPlaced(r)'
  BY <1>0, <1>1, Working DEF Work, RunPlaces, Moves
<1>3. pc'[r] \in Later
  BY <1>1 DEF Later, Moves
<1> QED
  BY <1>0, <1>1, <1>2, <1>3, PlainRun, QuietMove DEF RunInv, rows, TypeOK

\* What a run may do to leases: those of titles are not its own.
LeaseMove(r) ==
    /\ lease' \in [Leases -> LeaseRow]
    /\ \A t \in Titles : lease'[t] = lease[t]
    /\ RelyLeases(r) /\ LeaseInv' /\ RemoteInv' /\ (Live' => LiveInv')

LEMMA LeaseRun ==
    ASSUME ChatAssumption, IInv, NEW r \in Runs, NEW place, Moves(r, place),
           UNCHANGED <<session, refs, guard, run, job, bound, remote, todo, crashed>>,
           fresh' \in [Runs -> SUBSET Docs], \A q \in Runs : q # r => fresh'[q] = fresh[q],
           LeaseMove(r), RunInv(r)'
    PROVE  IInv'
<1>1. TypeOK'
  BY DEF IInv, TypeOK, Moves, LeaseMove, LeaseRow
<1>2. OneAtATime'
  BY OneAtATimeKeeps DEF LeaseMove
<1>3. RelySession(r) /\ RelyTitles(r) /\ RelyRemote(r)
  BY DEF RelySession, RelyTitles, RelyRemote, Live, Expired, LeaseMove
<1>4. r \notin Titles
  BY DEF ChatAssumption
<1> QED
  BY <1>1, <1>2, <1>3, <1>4, Combine, SameRunKeeps DEF GlobalInv, LeaseMove, Rely

\* A lease that nobody has planned is planned.
LEMMA PlanStep ==
    ASSUME ChatAssumption, IInv, NEW r \in Runs, NEW id \in RunSide \cup Docs,
           lease[id].status = "none", Plan(id, r), UNCHANGED <<session, refs, run, bound, remote>>
    PROVE  /\ LeaseMove(r)
           /\ lease'[id].status = "planned" /\ lease'[id].by = r
           /\ \A x \in Leases : x # id => lease'[x] = lease[x]
<1>0. TypeOK /\ id \in Leases /\ id \notin Titles /\ r # None
      /\ RunSide \subseteq Leases /\ Docs \subseteq Leases
      /\ RunSide \cap Docs = {} /\ RunSide \cap Titles = {}
  BY DEF IInv, Leases, RunSide, ChatAssumption
<1>1. /\ lease' \in [Leases -> LeaseRow]
      /\ \A x \in Leases : x # id => lease'[x] = lease[x]
      /\ lease'[id].status = "planned" /\ lease'[id].by = r
  BY <1>0, PlanEffect
<1>2. lease[id].by = None
  BY <1>0 DEF IInv, LeaseInv
<1>3. \A m \in remote : m[1] \in Leases /\ m[1] # id
  BY <1>0 DEF IInv, TypeOK, RemoteInv, Open
<1>4. RelyLeases(r)
  BY <1>0, <1>1, <1>2 DEF RelyLeases, Open
<1>5. LeaseInv'
  <2>1. refs => lease'["workspace"].status # "none"
    BY <1>0, <1>1 DEF IInv, LeaseInv, RunSide
  <2> QED
    BY <1>0, <1>1, <2>1 DEF IInv, LeaseInv, Live, Exists
<1>6. RemoteInv'
  BY <1>1, <1>3 DEF IInv, RemoteInv, Open, OnlyExpired, Expired
<1>7. ASSUME Live' PROVE LiveInv'
  <2>1. LiveInv
    BY <1>7 DEF IInv, Live
  <2>2. \A d \in bound : d # id /\ d \in Leases
    BY <1>0, <2>1 DEF LiveInv, Open, TypeOK
  <2>3. refs => \A x \in {"workspace", "thread"} : x # id /\ x \in Leases
    BY <1>0, <2>1 DEF LiveInv, RunSide
  <2> QED
    BY <1>1, <2>1, <2>2, <2>3 DEF LiveInv, Open, Exists
<1>8. \A t \in Titles : lease'[t] = lease[t]
  BY <1>0, <1>1 DEF Leases
<1> QED
  BY <1>1, <1>4, <1>5, <1>6, <1>7, <1>8 DEF LeaseMove

\* A lease that is planned or active becomes active.
LEMMA ActivateStep ==
    ASSUME ChatAssumption, IInv, NEW r \in Runs, NEW id \in RunSide \cup Docs,
           CanActivate(id), SetLease(id, "active"),
           UNCHANGED <<session, refs, run, bound, remote>>
    PROVE  LeaseMove(r) /\ Become({id}, "active")
<1>0. TypeOK /\ id \in Leases /\ id \notin Titles
      /\ RunSide \subseteq Leases /\ Docs \subseteq Leases /\ Titles \subseteq Leases
  BY DEF IInv, Leases, RunSide, ChatAssumption
<1>1. Become({id}, "active")
  BY <1>0, SetLeaseEffect DEF LeaseStatus
<1>2. \A x \in Leases :
         /\ lease'[x].by = lease[x].by
         /\ \/ lease'[x].status = lease[x].status
            \/ lease[x].status \in {"planned", "active"} /\ lease'[x].status = "active"
  BY <1>1 DEF Become, CanActivate
<1>3. RelyLeases(r)
  BY <1>0, <1>2 DEF RelyLeases, Open
<1>4. LeaseInv'
  BY <1>0, <1>2 DEF IInv, LeaseInv, Live, Exists, RunSide
<1>5. RemoteInv'
  <2>1. \A m \in remote : m[1] \in Leases
    BY <1>0 DEF TypeOK
  <2> QED
    BY <1>2, <2>1 DEF IInv, RemoteInv, Open, OnlyExpired, Expired
<1>6. ASSUME Live' PROVE LiveInv'
  <2>1. LiveInv /\ bound \subseteq Leases
    BY <1>0, <1>6 DEF IInv, Live, TypeOK
  <2> QED
    BY <1>0, <1>2, <2>1 DEF LiveInv, Open, Exists, RunSide
<1>7. \A t \in Titles : lease'[t] = lease[t]
  BY <1>0, <1>1 DEF Become
<1> QED
  BY <1>1, <1>3, <1>4, <1>5, <1>6, <1>7 DEF LeaseMove, Become

LEMMA PlanWorkspacePreserves ==
    ASSUME ChatAssumption, IInv, NEW r \in Runs, PlanWorkspace(r)
    PROVE  IInv'
<1>0. TypeOK /\ r \in Threads /\ pc[r] = "workspace" /\ run' = run /\ fresh' = fresh
  BY DEF IInv, Threads, PlanWorkspace, PlanResource, At
<1>1. CASE Conflict("workspace", r)
  BY <1>0, <1>1, BreakMove DEF PlanWorkspace, PlanResource, rows, Work, RunPlaces
<1>2. CASE ~Conflict("workspace", r)
  <2>1. Moves(r, "thread") /\ Plan("workspace", r)
    BY <1>0, <1>2, Goes DEF PlanWorkspace, PlanResource, Places
  <2>2. RunOwns(r) /\ lease["workspace"].status = "none" /\ lease["thread"].by # r
    BY <1>0, <1>2 DEF IInv, RunOwns, Conflict
  <2>3. /\ LeaseMove(r)
        /\ lease'["workspace"].status = "planned" /\ lease'["workspace"].by = r
        /\ lease'["thread"] = lease["thread"]
    BY <2>1, <2>2, PlanStep DEF PlanWorkspace, PlanResource, RunSide, Leases
  <2>4. ~refs /\ ~Made("workspace", r)
    BY <2>2 DEF IInv, LeaseInv, RemoteInv, Made, Open
  <2>5. RunPlaced(r)'
    BY <1>0, <2>1, Working DEF Work, RunPlaces, Moves
  <2>6. RunOwns(r)'
    BY <2>1, <2>2, <2>3, <2>4 DEF RunOwns, Moves, Planned, Made, Open, PlanWorkspace, PlanResource
  <2>7. RunPlans(r)' /\ RunKnows(r)'
    BY <2>1 DEF RunPlans, RunKnows, Moves, ChatAssumption, Places
  <2> QED
    BY <1>0, <2>1, <2>3, <2>5, <2>6, <2>7, LeaseRun
       DEF RunInv, PlanWorkspace, PlanResource, TypeOK
<1> QED
  BY <1>1, <1>2

LEMMA PlanThreadPreserves ==
    ASSUME ChatAssumption, IInv, NEW r \in Runs, PlanThread(r)
    PROVE  IInv'
<1>0. TypeOK /\ r \in Threads /\ pc[r] = "thread" /\ run' = run /\ fresh' = fresh
  BY DEF IInv, Threads, PlanThread, PlanResource, At
<1>1. CASE Conflict("thread", r)
  BY <1>0, <1>1, BreakMove DEF PlanThread, PlanResource, rows, Work, RunPlaces
<1>2. CASE ~Conflict("thread", r)
  <2>1. Moves(r, "open") /\ Plan("thread", r)
    BY <1>0, <1>2, Goes DEF PlanThread, PlanResource, Places
  <2>2. /\ lease["thread"].status = "none" /\ ~refs
        /\ lease["workspace"].by = r /\ Open("workspace") /\ ~Made("workspace", r)
    BY <1>0, <1>2 DEF IInv, RunOwns, Conflict, Planned
  <2>3. /\ LeaseMove(r)
        /\ lease'["thread"].status = "planned" /\ lease'["thread"].by = r
        /\ lease'["workspace"] = lease["workspace"]
    BY <2>1, <2>2, PlanStep DEF PlanThread, PlanResource, RunSide, Leases
  <2>4. ~Made("thread", r)
    BY <2>2 DEF IInv, RemoteInv, Made, Open
  <2>5. RunPlaced(r)'
    BY <1>0, <2>1, Working DEF Work, RunPlaces, Moves
  <2>6. RunOwns(r)'
    BY <2>1, <2>2, <2>3, <2>4 DEF RunOwns, Moves, Planned, Made, Open, PlanThread, PlanResource
  <2>7. RunPlans(r)' /\ RunKnows(r)'
    BY <2>1 DEF RunPlans, RunKnows, Moves, ChatAssumption, Places
  <2> QED
    BY <1>0, <2>1, <2>3, <2>5, <2>6, <2>7, LeaseRun
       DEF RunInv, PlanThread, PlanResource, TypeOK
<1> QED
  BY <1>1, <1>2

LEMMA PlanDocumentPreserves ==
    ASSUME ChatAssumption, IInv, NEW r \in Runs, PlanDocument(r)
    PROVE  IInv'
<1>0. TypeOK /\ r \in Threads /\ pc[r] = "planning" /\ run' = run /\ fresh' = fresh
      /\ pc[r] \in Work /\ fresh[r] \subseteq Docs /\ Docs \subseteq Leases
  BY DEF IInv, Threads, PlanDocument, At, TypeOK, Work, RunPlaces, Leases
<1>1. CASE Break(r) /\ UNCHANGED lease
  BY <1>0, <1>1, BreakMove DEF PlanDocument, rows
<1>2. ASSUME NEW d \in fresh[r], Plan(d, r), lease[d].status = "none",
             Goto(r, IF \A e \in fresh[r] \ {d} : lease[e].by = r THEN "attaching" ELSE "planning")
      PROVE  IInv'
  <2>1. PICK place \in {"attaching", "planning"} :
            /\ Moves(r, place)
            /\ place = "attaching" => \A e \in fresh[r] \ {d} : lease[e].by = r
    <3>1. CASE \A e \in fresh[r] \ {d} : lease[e].by = r
      BY <1>0, <1>2, <3>1, Goes DEF Places
    <3>2. CASE ~\A e \in fresh[r] \ {d} : lease[e].by = r
      BY <1>0, <1>2, <3>2, Goes DEF Places
    <3> QED
      BY <3>1, <3>2
  <2>2. /\ LeaseMove(r) /\ lease'[d].status = "planned"
        /\ \A x \in Leases : x # d => lease'[x] = lease[x]
    BY <1>0, <1>2, PlanStep DEF PlanDocument
  <2>3. RunPlaced(r)'
    BY <1>0, <2>1, Working DEF Work, RunPlaces, Moves
  <2>4. RunOwns(r)' /\ RunKnows(r)'
    BY <2>1 DEF RunOwns, RunKnows, Moves, Planned, ChatAssumption, Places
  <2>5. \A e \in Leases : lease[e].by = r => lease[e].status # "none"
    BY DEF IInv, LeaseInv, ChatAssumption
  <2>6. RunPlans(r)'
    <3> SUFFICES ASSUME place = "attaching", NEW e \in fresh[r]
                 PROVE  lease'[e].status # "none"
      BY <1>0, <2>1 DEF RunPlans, Moves
    <3> QED
      BY <1>0, <2>1, <2>2, <2>5
  <2> QED
    BY <1>0, <2>1, <2>2, <2>3, <2>4, <2>6, LeaseRun DEF RunInv, PlanDocument, TypeOK
<1> QED
  BY <1>1, <1>2 DEF PlanDocument

LEMMA ActivateWorkspacePreserves ==
    ASSUME ChatAssumption, IInv, NEW r \in Runs, ActivateWorkspace(r)
    PROVE  IInv'
<1>0. TypeOK /\ r \in Threads /\ pc[r] = "opened" /\ run' = run /\ fresh' = fresh
  BY DEF IInv, Threads, ActivateWorkspace, Activate, At
<1>1. CASE ~CanActivate("workspace")
  BY <1>0, <1>1, BreakMove DEF ActivateWorkspace, Activate, rows, Work, RunPlaces
<1>2. CASE CanActivate("workspace")
  <2>1. Moves(r, "opened workspace") /\ SetLease("workspace", "active")
    BY <1>0, <1>2, Goes DEF ActivateWorkspace, Activate, Places
  <2>2. LeaseMove(r) /\ Become({"workspace"}, "active")
    BY <1>2, <2>1, ActivateStep DEF ActivateWorkspace, Activate, RunSide
  <2>3. /\ lease'["workspace"].by = lease["workspace"].by
        /\ lease'["workspace"].status = "active" /\ lease'["thread"] = lease["thread"]
    BY <2>2 DEF Become, Leases
  <2>4. RunPlaced(r)'
    BY <1>0, <2>1, Working DEF Work, RunPlaces, Moves
  <2>5. RunOwns(r)'
    BY <1>0, <2>1, <2>3 DEF IInv, RunOwns, Moves, Planned, Made, Open, ActivateWorkspace, Activate
  <2>6. RunPlans(r)' /\ (Live' => RunKnows(r)')
    BY <1>0, <2>1, <2>3 DEF IInv, RunPlans, RunKnows, Moves, ChatAssumption, Places, Live, Made,
                           ActivateWorkspace, Activate
  <2> QED
    BY <1>0, <2>1, <2>2, <2>4, <2>5, <2>6, LeaseRun
       DEF RunInv, ActivateWorkspace, Activate, TypeOK
<1> QED
  BY <1>1, <1>2

LEMMA ActivateThreadPreserves ==
    ASSUME ChatAssumption, IInv, NEW r \in Runs, ActivateThread(r)
    PROVE  IInv'
<1>0. TypeOK /\ r \in Threads /\ pc[r] = "opened workspace" /\ run' = run /\ fresh' = fresh
  BY DEF IInv, Threads, ActivateThread, Activate, At
<1>1. CASE ~CanActivate("thread")
  BY <1>0, <1>1, BreakMove DEF ActivateThread, Activate, rows, Work, RunPlaces
<1>2. CASE CanActivate("thread")
  <2>1. Moves(r, "opened thread") /\ SetLease("thread", "active")
    BY <1>0, <1>2, Goes DEF ActivateThread, Activate, Places
  <2>2. LeaseMove(r) /\ Become({"thread"}, "active")
    BY <1>2, <2>1, ActivateStep DEF ActivateThread, Activate, RunSide
  <2>3. /\ lease'["thread"].by = lease["thread"].by
        /\ lease'["thread"].status = "active" /\ lease'["workspace"] = lease["workspace"]
    BY <2>2 DEF Become, Leases
  <2>4. RunPlaced(r)'
    BY <1>0, <2>1, Working DEF Work, RunPlaces, Moves
  <2>5. RunOwns(r)'
    BY <1>0, <2>1, <2>3 DEF IInv, RunOwns, Moves, Planned, Made, Open, ActivateThread, Activate
  <2>6. RunPlans(r)' /\ (Live' => RunKnows(r)')
    BY <1>0, <2>1, <2>3 DEF IInv, RunPlans, RunKnows, Moves, ChatAssumption, Places, Live, Made,
                           ActivateThread, Activate
  <2> QED
    BY <1>0, <2>1, <2>2, <2>4, <2>5, <2>6, LeaseRun
       DEF RunInv, ActivateThread, Activate, TypeOK
<1> QED
  BY <1>1, <1>2

LEMMA ActivateDocumentPreserves ==
    ASSUME ChatAssumption, IInv, NEW r \in Runs, ActivateDocument(r)
    PROVE  IInv'
<1>0. TypeOK /\ r \in Threads /\ run' = run /\ fresh[r] \subseteq Docs /\ Docs \subseteq Leases
  BY DEF IInv, Threads, ActivateDocument, TypeOK, Leases
<1>1. PICK d \in fresh[r] :
         /\ pc[r] = d
         /\ IF CanActivate(d)
            THEN /\ SetLease(d, "active")
                 /\ fresh' = [fresh EXCEPT ![r] = @ \ {d}]
                 /\ Goto(r, IF fresh[r] = {d} THEN "streaming" ELSE "attached")
            ELSE Break(r) /\ UNCHANGED <<lease, fresh>>
         /\ UNCHANGED <<session, refs, guard, run, job, bound, remote, todo, crashed>>
  BY DEF ActivateDocument, At
<1>2. d \in Docs /\ d \notin Places /\ pc[r] \in Work
  BY <1>0, <1>1 DEF ChatAssumption, Work, RunPlaces, Places
<1>3. CASE ~CanActivate(d)
  BY <1>0, <1>1, <1>2, <1>3, BreakMove DEF rows
<1>4. CASE CanActivate(d)
  <2>1. PICK place \in {"streaming", "attached"} : Moves(r, place)
    BY <1>0, <1>1, <1>4, Goes DEF Places
  <2>2. LeaseMove(r) /\ Become({d}, "active")
    BY <1>1, <1>2, <1>4, ActivateStep
  <2>3. /\ fresh' \in [Runs -> SUBSET Docs] /\ \A q \in Runs : q # r => fresh'[q] = fresh[q]
        /\ fresh'[r] = fresh[r] \ {d}
    BY <1>0, <1>1, <1>4 DEF TypeOK
  <2>4. RunPlaced(r)'
    BY <1>0, <1>2, <2>1, Working DEF Work, RunPlaces, Moves
  <2>5. RunOwns(r)' /\ RunPlans(r)'
    BY <2>1 DEF RunOwns, RunPlans, Moves, Planned
  <2>6. ASSUME Live' PROVE RunKnows(r)'
    <3>1. Live
      BY <1>1, <2>6 DEF Live
    <3>2. \A x \in fresh[r] : Made(x, r) /\ Open(x)
      BY <1>1, <1>2, <3>1 DEF IInv, RunKnows
    <3>3. \A x \in fresh'[r] : Made(x, r)' /\ Open(x)'
      BY <1>0, <1>1, <2>2, <2>3, <3>2 DEF Made, Open, Become
    <3> QED
      BY <2>1, <3>3 DEF RunKnows, Moves
  <2> QED
    BY <1>0, <1>1, <2>1, <2>2, <2>3, <2>4, <2>5, <2>6, LeaseRun DEF RunInv
<1> QED
  BY <1>3, <1>4

\* What a run that could not open the conversation makes of its two leases.
LEMMA GiveUpEffect ==
    ASSUME ChatAssumption, IInv, NEW r \in Runs, GiveUpOpening(r)
    PROVE  /\ lease' \in [Leases -> LeaseRow]
           /\ \A id \in Leases : /\ lease'[id].by = lease[id].by
                                 /\ id \notin RunSide => lease'[id] = lease[id]
                                 /\ lease[id].status # "planned" => lease'[id] = lease[id]
                                 /\ lease'[id].status = "none" => lease[id].status = "none"
           /\ pc[r] = "half opened" /\ Open("workspace") => Open("workspace")'
<1>0. TypeOK /\ RunSide \subseteq Leases
  BY DEF IInv, RunSide, Leases
<1>1. CASE At(r, "unopened") /\ IfPlanned({"workspace", "thread"}, "closed")
  <2>1. Become({id \in {"workspace", "thread"} : lease[id].status = "planned"}, "closed")
    BY <1>0, <1>1, SetLeasesEffect DEF IfPlanned, LeaseStatus
  <2> QED
    BY <1>0, <1>1, <2>1 DEF Become, RunSide, At
<1>2. CASE At(r, "half opened")
  <2> DEFINE new(id) == IF lease[id].status # "planned" THEN lease[id].status
                        ELSE IF id = "workspace" THEN "active" ELSE "closed"
  <2>1. lease' = [lease EXCEPT !["workspace"].status = new("workspace"),
                               !["thread"].status = new("thread")]
    BY <1>0, <1>2 DEF GiveUpOpening, At, RunSide, TypeOK
  <2>2. \A id \in Leases : new(id) \in LeaseStatus
    BY <1>0 DEF TypeOK, LeaseStatus
  <2>3. /\ \A id \in RunSide : lease'[id].status = new(id) /\ lease'[id].by = lease[id].by
        /\ \A id \in Leases \ RunSide : lease'[id] = lease[id]
        /\ lease' \in [Leases -> LeaseRow]
    <3> DEFINE first  == [lease EXCEPT !["workspace"].status = new("workspace")]
               second == [first EXCEPT !["thread"].status = new("thread")]
    <3>1. lease \in [Leases -> LeaseRow] /\ "workspace" \in Leases /\ "thread" \in Leases
      BY <1>0 DEF TypeOK, LeaseRow, RunSide
    <3>2. lease' = second
      BY <2>1, <3>1
    <3> HIDE DEF new
    <3>3. /\ first \in [Leases -> LeaseRow]
          /\ first["workspace"].status = new("workspace")
          /\ first["workspace"].by = lease["workspace"].by
          /\ \A id \in Leases : id # "workspace" => first[id] = lease[id]
      BY <2>2, <3>1 DEF LeaseRow
    <3> HIDE DEF first
    <3>4. /\ second \in [Leases -> LeaseRow]
          /\ second["thread"].status = new("thread")
          /\ second["thread"].by = first["thread"].by
          /\ \A id \in Leases : id # "thread" => second[id] = first[id]
      BY <2>2, <3>1, <3>3 DEF LeaseRow
    <3> QED
      BY <3>1, <3>2, <3>3, <3>4 DEF RunSide
  <2>4. \A id \in RunSide : lease[id].status # "planned" => lease'[id] = lease[id]
    BY <1>0, <2>3 DEF TypeOK, LeaseRow
  <2> QED
    BY <1>0, <2>3, <2>4 DEF RunSide, Open
<1> QED
  BY <1>1, <1>2 DEF GiveUpOpening

LEMMA Makers ==
    ASSUME TypeOK, NEW m \in remote
    PROVE  m = <<m[1], m[2]>> /\ m[1] \in Leases /\ m[2] \in Threads /\ Made(m[1], m[2])
<1>1. PICK id \in Leases, t \in Threads : m = <<id, t>>
  BY DEF TypeOK
<1> QED
  BY <1>1 DEF Made

LEMMA GiveUpOpeningPreserves ==
    ASSUME ChatAssumption, IInv, NEW r \in Runs, GiveUpOpening(r)
    PROVE  IInv'
<1>0. TypeOK /\ r \in Threads /\ run' = run /\ fresh' = fresh
      /\ pc[r] \in {"unopened", "half opened"} /\ RunSide \subseteq Leases /\ Docs \subseteq Leases
      /\ RunSide \cap Docs = {} /\ RunSide \cap Titles = {} /\ Titles \subseteq Leases
  BY DEF IInv, Threads, GiveUpOpening, At, RunSide, Leases, ChatAssumption
<1>1. PICK place \in {"failing", "aborting"} : Moves(r, place)
  BY <1>0, Breaks DEF GiveUpOpening
<1>2. /\ lease' \in [Leases -> LeaseRow]
      /\ \A id \in Leases : /\ lease'[id].by = lease[id].by
                            /\ id \notin RunSide => lease'[id] = lease[id]
                            /\ lease[id].status # "planned" => lease'[id] = lease[id]
                            /\ lease'[id].status = "none" => lease[id].status = "none"
      /\ pc[r] = "half opened" /\ Open("workspace") => Open("workspace")'
  BY GiveUpEffect
<1>3. /\ ~refs /\ lease["workspace"].by = r /\ lease["thread"].by = r /\ Open("workspace")
      /\ pc[r] = "unopened" => ~Made("workspace", r)
      /\ ~Made("thread", r)
  BY <1>0 DEF IInv, RunOwns, Planned
<1>4. RelyLeases(r)
  BY <1>0, <1>2, <1>3 DEF RelyLeases, Open, RunSide
<1>5. LeaseInv'
  BY <1>0, <1>2, <1>3 DEF IInv, LeaseInv, Live, Exists, GiveUpOpening
<1>6. RemoteInv'
  <2>1. \A m \in remote : m[1] \in Leases /\ Made(m[1], m[2])
    BY <1>0, Makers
  <2>2. ASSUME NEW m \in remote PROVE Open(m[1])'
    <3>1. Open(m[1]) /\ (m[1] \in RunSide => lease[m[1]].by = m[2])
      BY DEF IInv, RemoteInv, RunSide
    <3>2. m[1] # "thread"
      BY <1>3, <2>1, <3>1 DEF RunSide
    <3>3. m[1] = "workspace" => pc[r] = "half opened"
      BY <1>0, <1>3, <2>1, <3>1 DEF RunSide
    <3> QED
      BY <1>2, <2>1, <3>1, <3>2, <3>3 DEF RunSide, Open
  <2> QED
    BY <1>0, <1>2, <2>1, <2>2 DEF IInv, RemoteInv, OnlyExpired, Expired, GiveUpOpening
<1>7. Live' => LiveInv'
  BY <1>0, <1>2, <1>3 DEF IInv, Live, LiveInv, Open, Exists, GiveUpOpening, TypeOK
<1>8. LeaseMove(r)
  BY <1>0, <1>2, <1>4, <1>5, <1>6, <1>7 DEF LeaseMove
<1>9. RunPlaced(r)'
  BY <1>0, <1>1, Working DEF Work, RunPlaces, Moves
<1>10. RunOwns(r)' /\ RunPlans(r)' /\ RunKnows(r)'
  BY <1>1 DEF RunOwns, RunPlans, RunKnows, Planned, Moves, Places, ChatAssumption
<1> QED
  BY <1>0, <1>1, <1>8, <1>9, <1>10, LeaseRun DEF RunInv, GiveUpOpening, TypeOK

\* A run makes remote resources whose leases it holds open.
LEMMA MakeRun ==
    ASSUME ChatAssumption, IInv, NEW r \in Runs, pc[r] \in Work, NEW place, Moves(r, place),
           UNCHANGED <<rows, fresh, todo, crashed>>, NEW made \in SUBSET (RunSide \cup Docs),
           remote' = remote \cup {<<id, r>> : id \in made},
           \A id \in made : Open(id),
           \A id \in made \cap RunSide : lease[id].by = r /\ ~refs,
           made \cap Docs # {} => Exists("workspace"),
           "workspace" \in made => \A d \in Docs : lease[d].status # "closed",
           RunInv(r)'
    PROVE  IInv'
<1>0. TypeOK /\ r \in Threads /\ made \subseteq Leases /\ made \cap Titles = {} /\ r \notin Titles
      /\ RunSide \cap Docs = {} /\ run' = run /\ fresh' = fresh
  BY DEF IInv, Threads, Leases, RunSide, ChatAssumption, rows
<1>1. /\ \A m \in remote : m \in remote'
      /\ \A m \in remote' : m \in remote \/ (m[1] \in made /\ m[2] = r)
  BY <1>0
<1>2. TypeOK'
  BY <1>0 DEF TypeOK, Moves, rows
<1>3. OneAtATime'
  BY OneAtATimeKeeps DEF rows
<1>4. session \in {"deleting", "deleted", "error"} => Expired(r)
  BY <1>0, Working DEF IInv, OneAtATime, Idle
<1>5. RelyRemote(r)
  <2>1. refs /\ (\A m \in remote : m[1] # "thread") => \A m \in remote' : m[1] # "thread"
    BY <1>0, <1>1 DEF RunSide
  <2>2. refs /\ remote = {} => remote' = {}
    BY <1>0 DEF Exists
  <2>3. session \in {"deleting", "deleted"} =>
           \A m \in remote' : m \in remote \/ (m[2] \in Runs /\ Expired(m[2])')
    BY <1>0, <1>1, <1>4 DEF Expired
  <2> QED
    BY <1>1, <2>1, <2>2, <2>3 DEF RelyRemote
<1>6. Rely(r)
  BY <1>5 DEF Rely, RelySession, RelyLeases, RelyTitles, rows, Live, Open, Expired
<1>7. LeaseInv'
  BY <1>0, <1>1 DEF IInv, LeaseInv, Live, Exists, rows, RunSide
<1>8. RemoteInv'
  BY <1>0, <1>1, <1>4 DEF IInv, RemoteInv, Open, OnlyExpired, Expired, rows, RunSide
<1>9. Live' => LiveInv'
  BY <1>1 DEF IInv, LiveInv, Live, Open, Exists, rows
<1> QED
  BY <1>0, <1>2, <1>3, <1>6, <1>7, <1>8, <1>9, Combine, SameRunKeeps DEF GlobalInv, rows

LEMMA OpenConversationPreserves ==
    ASSUME ChatAssumption, IInv, NEW r \in Runs, OpenConversation(r)
    PROVE  IInv'
<1>0. TypeOK /\ r \in Threads /\ pc[r] = "open" /\ run' = run /\ fresh' = fresh /\ pc[r] \in Work
  BY DEF IInv, Threads, OpenConversation, At, rows, Work, RunPlaces
<1>1. PICK place \in {"opened", "unopened", "half opened"}, made \in SUBSET RunSide :
         /\ Moves(r, place)
         /\ remote' = remote \cup {<<id, r>> : id \in made}
         /\ place = "opened" => made = RunSide
         /\ place = "unopened" => made = {}
         /\ place = "half opened" => made = {"workspace"}
  <2>1. CASE Goto(r, "opened") /\ remote' = remote \cup {<<"workspace", r>>, <<"thread", r>>}
    <3>1. Moves(r, "opened")
      BY <1>0, <2>1, Goes DEF Places
    <3>2. remote' = remote \cup {<<id, r>> : id \in RunSide}
      BY <2>1 DEF RunSide
    <3> QED
      BY <3>1, <3>2
  <2>2. CASE Goto(r, "unopened") /\ UNCHANGED remote
    <3>1. Moves(r, "unopened")
      BY <1>0, <2>2, Goes DEF Places
    <3>2. remote' = remote \cup {<<id, r>> : id \in {}}
      BY <2>2
    <3> QED
      BY <3>1, <3>2
  <2>3. CASE Goto(r, "half opened") /\ remote' = remote \cup {<<"workspace", r>>}
    <3>1. Moves(r, "half opened")
      BY <1>0, <2>3, Goes DEF Places
    <3>2. remote' = remote \cup {<<id, r>> : id \in {"workspace"}}
      BY <2>3
    <3> QED
      BY <3>1, <3>2 DEF RunSide
  <2> QED
    BY <2>1, <2>2, <2>3 DEF OpenConversation
<1>2. /\ ~refs /\ lease["workspace"].by = r /\ lease["thread"].by = r
      /\ Open("workspace") /\ Open("thread")
      /\ ~Made("workspace", r) /\ ~Made("thread", r)
  BY <1>0 DEF IInv, RunOwns, Planned
<1>3. \A d \in Docs : lease[d].status # "closed"
  BY <1>2 DEF IInv, LeaseInv
<1>4. RunPlaced(r)'
  BY <1>0, <1>1, Working DEF Work, RunPlaces, Moves
<1>5. /\ Made("workspace", r)' <=> "workspace" \in made
      /\ Made("thread", r)' <=> "thread" \in made
  BY <1>1, <1>2 DEF Made
<1>6. RunOwns(r)'
  <2>1. UNCHANGED <<refs, lease>> /\ pc'[r] = place
    BY <1>1 DEF OpenConversation, rows, Moves
  <2>2. /\ place = "unopened" => ~Made("workspace", r)'
        /\ place \in {"unopened", "half opened"} => ~Made("thread", r)'
    <3>1. place = "unopened" => "workspace" \notin made
      BY <1>1
    <3>2. place \in {"unopened", "half opened"} => "thread" \notin made
      <4>1. "thread" \notin {} /\ "thread" \notin {"workspace"}
        OBVIOUS
      <4>2. CASE place = "unopened"
        BY <1>1, <4>1, <4>2
      <4>3. CASE place = "half opened"
        <5>1. made = {"workspace"}
          BY <1>1, <4>3
        <5> QED
          BY <4>1, <5>1
      <4> QED
        BY <4>2, <4>3
    <3> QED
      BY <1>5, <3>1, <3>2
  <2>3. /\ ~refs' /\ lease'["workspace"].by = r /\ lease'["thread"].by = r
        /\ Open("workspace")' /\ Open("thread")'
    BY <1>2, <2>1 DEF Open
  <2> QED
    BY <2>1, <2>2, <2>3 DEF RunOwns
<1>7. RunPlans(r)' /\ RunKnows(r)'
  <2>1. pc'[r] = place /\ place \notin Docs
    BY <1>1 DEF Moves, Places, ChatAssumption
  <2>2. place = "opened" => "workspace" \in made /\ "thread" \in made
    BY <1>1 DEF RunSide
  <2> QED
    BY <1>1, <1>5, <2>1, <2>2 DEF RunPlans, RunKnows
<1>8. made \cap Docs = {}
  BY DEF RunSide, ChatAssumption
<1> QED
  <2>1. /\ made \in SUBSET (RunSide \cup Docs) /\ \A id \in made : Open(id)
        /\ \A id \in made \cap RunSide : lease[id].by = r
    BY <1>2 DEF RunSide
  <2> QED
    BY <1>0, <1>1, <1>2, <1>3, <1>4, <1>6, <1>7, <1>8, <2>1, MakeRun DEF RunInv, OpenConversation

LEMMA Product == \A S, r : S \X {r} = {<<x, r>> : x \in S}
OBVIOUS

LEMMA AttachPreserves ==
    ASSUME ChatAssumption, IInv, NEW r \in Runs, Attach(r)
    PROVE  IInv'
<1>0. TypeOK /\ r \in Threads /\ pc[r] = "attaching" /\ run' = run /\ fresh' = fresh
      /\ pc[r] \in Work /\ fresh[r] \subseteq Docs
  BY DEF IInv, Threads, Attach, At, rows, Work, RunPlaces, TypeOK
<1>1. PICK place \in {"attached", "failing", "aborting"}, part \in SUBSET fresh[r] :
         /\ Moves(r, place)
         /\ remote' = remote \cup {<<id, r>> : id \in part}
         /\ part # {} => Exists("workspace")
         /\ place = "attached" => part = fresh[r]
  <2>1. CASE Exists("workspace") /\ Goto(r, "attached") /\ remote' = remote \cup (fresh[r] \X {r})
    <3>1. Moves(r, "attached")
      BY <1>0, <2>1, Goes DEF Places
    <3>2. remote' = remote \cup {<<id, r>> : id \in fresh[r]}
      BY <2>1, Product
    <3> QED
      BY <2>1, <3>1, <3>2
  <2>2. CASE Break(r)
    <3>1. PICK place \in {"failing", "aborting"} : Moves(r, place)
      BY <1>0, <2>2, Breaks
    <3> QED
      BY <1>0, <2>2, <3>1, Product DEF Attach, Moves
  <2> QED
    BY <2>1, <2>2 DEF Attach
<1>2. \A d \in part : Open(d)
  <2>1. \A d \in fresh[r] : lease[d].status # "none"
    BY <1>0 DEF IInv, RunPlans
  <2>2. part # {} => \A d \in Docs : lease[d].status # "closed"
    BY <1>1 DEF IInv, LeaseInv
  <2> QED
    BY <1>0, <2>1, <2>2 DEF Open
<1>3. RunPlaced(r)'
  BY <1>0, <1>1, Working DEF Work, RunPlaces, Moves
<1>4. RunOwns(r)' /\ RunPlans(r)'
  BY <1>1 DEF RunOwns, RunPlans, Planned, Moves
<1>5. RunKnows(r)'
  <2>1. place = "attached" => \A d \in fresh[r] : Made(d, r)' /\ Open(d)'
    BY <1>1, <1>2 DEF Made, Open, Attach, rows
  <2> QED
    BY <1>0, <1>1, <2>1 DEF RunKnows, Moves, Places, ChatAssumption
<1>6. part \subseteq Docs /\ part \cap RunSide = {}
  BY <1>0 DEF RunSide, ChatAssumption
<1> QED
  BY <1>0, <1>1, <1>2, <1>3, <1>4, <1>5, <1>6, MakeRun DEF RunInv, Attach, RunSide

-------------------------------------------------------------------------------
(***************************************************************************)
(* Abort requests, time and crashes move no thread on.                     *)
(***************************************************************************)
LEMMA NobodyMoves ==
    ASSUME ChatAssumption, IInv,
           UNCHANGED <<session, refs, lease, job, bound, remote, local, crashed>>,
           run' \in [Runs -> RunRow], \A q \in Runs : Keeps(q),
           guard' \in [holder : Runs \cup {None}, expired : BOOLEAN], OneAtATime'
    PROVE  IInv'
<1>1. PICK t : t \notin Threads
  BY NoSetContainsEverything
<1>2. Rely(t) /\ LeaseInv' /\ RemoteInv' /\ (Live' => LiveInv')
  BY <1>1, KeepsExpired, QuietRely DEF Threads
<1>3. TypeOK'
  BY DEF IInv, TypeOK, local, RunRow
<1>4. \A q \in Runs : RunPlaced(q)' /\ RunOwns(q)' /\ RunPlans(q)' /\ (Live' => RunKnows(q)')
  BY <1>1, <1>2, RunsKeep DEF Threads, local
<1>5. \A u \in Titles : TitleInv(u)'
  BY <1>1, <1>2, TitlesKeep DEF Threads, local
<1>6. \A d \in Deletes : DeletionInv(d)'
  BY <1>1, <1>2, DeletionsKeep DEF Threads, local
<1> QED
  BY <1>2, <1>3, <1>4, <1>5, <1>6 DEF IInv

LEMMA AbortExpirePreserves ==
    ASSUME ChatAssumption, IInv, AbortExpire
    PROVE  IInv'
<1>0. TypeOK /\ run' = ExpireStaleRuns
  BY DEF IInv, AbortExpire
<1>1. run' \in [Runs -> RunRow] /\ \A q \in Runs : Keeps(q) /\ (Active(q)' => Active(q))
  BY <1>0, ExpireType, ExpireEffect, ExpireKeeps DEF Active
<1>2. OneAtATime'
  BY <1>1 DEF IInv, OneAtATime, AbortExpire, Idle
<1> QED
  BY <1>0, <1>1, <1>2, NobodyMoves DEF AbortExpire, TypeOK

LEMMA MarkRun ==
    ASSUME ChatAssumption, IInv, NEW r \in Runs, Active(r), NEW row \in RunRow,
           row.status = run[r].status, run' = [run EXCEPT ![r] = row],
           UNCHANGED <<session, refs, guard, lease, job, bound, remote, local, crashed>>
    PROVE  IInv'
<1>0. TypeOK
  BY DEF IInv
<1>1. /\ run' \in [Runs -> RunRow] /\ run'[r] = row
      /\ \A q \in Runs : q # r => run'[q] = run[q] /\ Keeps(q)
  BY <1>0, OneRow
<1>2. \A q \in Runs : Keeps(q) /\ (Active(q)' => Active(q))
  BY <1>1 DEF Keeps, Active
<1>3. OneAtATime'
  BY <1>2 DEF IInv, OneAtATime, Idle
<1> QED
  BY <1>0, <1>1, <1>2, <1>3, NobodyMoves DEF TypeOK

LEMMA RequestAbortPreserves ==
    ASSUME ChatAssumption, IInv, NEW r \in Runs, RequestAbort(r)
    PROVE  IInv'
<1> DEFINE stale == run[r].stale /\ run[r].status = "running"
           row == [run[r] EXCEPT !.abort = TRUE, !.stale = stale]
<1>0. TypeOK /\ run[r] \in RunRow
  BY DEF IInv, TypeOK, RunRow
<1>1. stale \in BOOLEAN
  OBVIOUS
<1>2. run' = [run EXCEPT ![r] = row]
  BY <1>0 DEF RequestAbort, TypeOK
<1>3. row \in RunRow /\ row.status = run[r].status
  <2> HIDE DEF stale
  <2> QED
    BY <1>0, <1>1 DEF RunRow
<1> HIDE DEF row
<1> QED
  BY <1>2, <1>3, MarkRun DEF RequestAbort

LEMMA StallPreserves ==
    ASSUME ChatAssumption, IInv, NEW r \in Runs, Stall(r)
    PROVE  IInv'
<1> DEFINE row == [run[r] EXCEPT !.stale = TRUE]
<1>0. TypeOK /\ run[r] \in RunRow
  BY DEF IInv, TypeOK, RunRow
<1>1. run' = [run EXCEPT ![r] = row]
  BY <1>0 DEF Stall, TypeOK
<1>2. row \in RunRow /\ row.status = run[r].status
  BY <1>0 DEF RunRow
<1> HIDE DEF row
<1> QED
  BY <1>1, <1>2, MarkRun DEF Stall

LEMMA GuardLapsesPreserves ==
    ASSUME ChatAssumption, IInv, GuardLapses
    PROVE  IInv'
<1>1. guard' \in [holder : Runs \cup {None}, expired : BOOLEAN] /\ guard'.expired
  BY DEF IInv, TypeOK, GuardLapses
<1>2. OneAtATime'
  BY <1>1 DEF IInv, OneAtATime, GuardLapses, Idle, Active
<1>3. run' \in [Runs -> RunRow]
  BY DEF IInv, TypeOK, GuardLapses, RunRow
<1> QED
  BY <1>1, <1>2, <1>3, SameRunKeeps, NobodyMoves DEF GuardLapses

LEMMA CrashPreserves ==
    ASSUME ChatAssumption, IInv, Crash
    PROVE  IInv'
<1>0. /\ UNCHANGED <<session, refs, guard, run, lease, job, bound, remote>>
      /\ crashed' = TRUE /\ todo' = {} /\ fresh' = [r \in Runs |-> {}]
  BY DEF Crash, rows
<1>1. /\ pc' \in [Threads -> Places \cup Docs]
      /\ \A t \in Threads : \/ pc'[t] = "dead"
                            \/ pc'[t] = pc[t] /\ pc[t] \in {"idle", "done", "raised"}
  BY DEF IInv, TypeOK, Crash, Places
<1>2. TypeOK'
  BY <1>0, <1>1 DEF IInv, TypeOK
<1>3. OneAtATime'
  BY <1>0 DEF IInv, OneAtATime, Idle, Active
<1>4. LeaseInv' /\ RemoteInv' /\ (Live' => LiveInv')
  BY <1>0 DEF IInv, LeaseInv, RemoteInv, LiveInv, Live, Open, Exists, OnlyExpired, Expired
<1>5. ASSUME NEW r \in Runs
      PROVE  RunPlaced(r)' /\ RunOwns(r)' /\ RunPlans(r)' /\ RunKnows(r)'
  <2>1. \/ pc'[r] = "dead"
        \/ pc'[r] = pc[r] /\ pc[r] \in {"idle", "done", "raised"}
    BY <1>1 DEF Threads
  <2>2. "dead" \notin Docs /\ "idle" \notin Docs /\ "done" \notin Docs /\ "raised" \notin Docs
    BY DEF ChatAssumption, Places
  <2>3. RunPlaced(r)'
    BY <1>0, <2>1, <2>2 DEF IInv, RunPlaced, RunPlaces, Active, Expired
  <2>4. RunOwns(r)'
    BY <1>0, <2>1 DEF IInv, RunOwns, Planned, Made, Open
  <2>5. RunPlans(r)' /\ RunKnows(r)'
    BY <2>1, <2>2 DEF RunPlans, RunKnows
  <2> QED
    BY <2>3, <2>4, <2>5
<1>6. ASSUME NEW t \in Titles PROVE TitleInv(t)'
  BY <1>0, <1>1 DEF IInv, TitleInv, TitlePlaces, Made, Threads
<1>7. ASSUME NEW d \in Deletes PROVE DeletionInv(d)'
  <2>1. pc'[d] \in {"dead", "idle", "raised"}
    BY <1>1 DEF IInv, DeletionInv, Deleting, Threads
  <2> QED
    BY <2>1 DEF DeletionInv, Deleting, Naming
<1> QED
  BY <1>2, <1>3, <1>4, <1>5, <1>6, <1>7 DEF IInv

-------------------------------------------------------------------------------
(***************************************************************************)
(* Titles.                                                                 *)
(***************************************************************************)

\* A title works on its own lease and on its own thread.
TitleRows(t) ==
    /\ lease' \in [Leases -> LeaseRow]
    /\ \A id \in Leases : lease'[id].by = lease[id].by /\ (id # t => lease'[id] = lease[id])
    /\ lease[t].status # "none" => lease'[t].status # "none"
    /\ lease'[t].status \in {"planned", "active"} =>
           session = "active" \/ lease[t].status \in {"planned", "active"}
    /\ \A m \in remote' :
           m \in remote \/ (m = <<t, t>> /\ Exists("workspace") /\ lease[t].status = "planned")
    /\ \A m \in remote : m # <<t, t>> => m \in remote'
    /\ lease'[t].status \in {"none", "closed"} => ~Made(t, t)'

LEMMA TitleMove ==
    ASSUME ChatAssumption, IInv, NEW t \in Titles, NEW place, Moves(t, place),
           UNCHANGED <<session, refs, guard, run, bound, fresh, todo, crashed>>,
           job' \in [Jobs -> {"none", "pending", "running", "failed", "succeeded"}],
           TitleRows(t), TitleInv(t)'
    PROVE  IInv'
<1>0. TypeOK /\ t \in Threads /\ t \in Leases /\ t \notin Docs /\ t \notin RunSide /\ t \notin Runs
      /\ RunSide \subseteq Leases /\ Docs \subseteq Leases /\ Titles \subseteq Leases
  BY DEF IInv, Threads, Leases, RunSide, ChatAssumption
<1>1. remote' \subseteq Leases \X Threads
  BY <1>0 DEF TypeOK, TitleRows
<1>2. TypeOK'
  BY <1>0, <1>1 DEF TypeOK, Moves, TitleRows, LeaseRow
<1>3. OneAtATime'
  <2>1. session \in {"deleting", "deleted", "error"} =>
           \A u \in Titles : lease'[u].status \notin {"planned", "active"}
    BY <1>0 DEF IInv, OneAtATime, TitleRows
  <2> QED
    BY <2>1 DEF IInv, OneAtATime, Idle, Active
<1>4. \A m \in remote' : m \in remote \/ (m = <<t, t>> /\ Exists("workspace")
                             /\ session \notin {"deleting", "deleted", "error"})
  BY DEF TitleRows, IInv, OneAtATime
<1>5. \A m \in remote : m[1] # t => m \in remote'
  BY DEF TitleRows
<1>6. RelySession(t)
  BY DEF RelySession, Live, Expired
<1>7. RelyLeases(t) /\ RelyTitles(t)
  BY <1>0 DEF RelyLeases, RelyTitles, TitleRows, Open
<1>8. RelyRemote(t)
  <2>1. \A m \in remote' : m \in remote \/ m[2] = t
    BY <1>4
  <2>2. \A m \in remote : m[1] \notin Titles => m \in remote'
    BY <1>5
  <2>3. refs /\ (\A m \in remote : m[1] # "thread") => \A m \in remote' : m[1] # "thread"
    BY <1>0, <1>4 DEF RunSide
  <2>4. remote = {} => remote' = {}
    BY <1>4 DEF Exists
  <2>5. session \in {"deleting", "deleted"} => \A m \in remote' : m \in remote
    BY <1>4
  <2> QED
    BY <2>1, <2>2, <2>3, <2>4, <2>5 DEF RelyRemote
<1>9. \A id \in RunSide \cup Docs : lease'[id] = lease[id] /\ (Exists(id)' <=> Exists(id))
  <2> SUFFICES ASSUME NEW id \in RunSide \cup Docs
               PROVE  lease'[id] = lease[id] /\ (Exists(id)' <=> Exists(id))
    OBVIOUS
  <2>1. id # t /\ id \in Leases
    BY <1>0
  <2>2. \A q \in Threads : <<id, q>> \in remote' <=> <<id, q>> \in remote
    BY <1>4, <2>1 DEF TitleRows
  <2> QED
    BY <2>1, <2>2 DEF TitleRows, Exists
<1>10. LeaseInv'
  BY <1>0, <1>9 DEF IInv, LeaseInv, TitleRows, Live, RunSide
<1>11. RemoteInv'
  <2>1. \A m \in remote : m = <<m[1], m[2]>> /\ m[1] \in Leases
    BY <1>0, Makers
  <2>2. ASSUME NEW m \in remote' PROVE Open(m[1])'
    <3>1. m[1] = t => Made(t, t)'
      BY <1>4, <2>1 DEF IInv, RemoteInv, Made
    <3>2. m[1] # t => Open(m[1]) /\ lease'[m[1]] = lease[m[1]]
      BY <1>4, <2>1 DEF IInv, RemoteInv, TitleRows
    <3> QED
      BY <3>1, <3>2 DEF TitleRows, Open
  <2>3. \A m \in remote' : m[1] \in RunSide => lease'[m[1]].by = m[2]
    BY <1>0, <1>4, <2>1 DEF IInv, RemoteInv, TitleRows, RunSide
  <2>4. \A m \in remote' : m[1] \in Titles => m[2] = m[1]
    BY <1>4 DEF IInv, RemoteInv
  <2>5. session' = "deleted" => OnlyExpired'
    BY <1>4 DEF IInv, RemoteInv, OnlyExpired, Expired
  <2> QED
    BY <2>2, <2>3, <2>4, <2>5 DEF RemoteInv, RunSide
<1>12. Live' => LiveInv'
  <2>1. bound \subseteq Docs
    BY <1>0 DEF TypeOK
  <2> QED
    BY <1>9, <2>1 DEF IInv, LiveInv, Live, Open, RunSide
<1> QED
  BY <1>0, <1>2, <1>3, <1>6, <1>7, <1>8, <1>10, <1>11, <1>12, Combine, SameRunKeeps
     DEF GlobalInv, Rely

\* The lease of a title gets a status.
LEMMA TitleLease ==
    ASSUME ChatAssumption, IInv, NEW t \in Titles, NEW ids \in SUBSET {t}, NEW status \in LeaseStatus,
           SetLeases(ids, status) \/ (SetLease(t, status) /\ ids = {t}), UNCHANGED remote,
           status \notin {"none", "planned"},
           t \in ids /\ status = "active" => lease[t].status \in {"planned", "active"},
           t \in ids /\ status = "closed" => ~Made(t, t)
    PROVE  /\ TitleRows(t)
           /\ t \in ids => lease'[t].status = status
           /\ t \notin ids => lease'[t] = lease[t]
<1>0. TypeOK /\ t \in Leases
  BY DEF IInv, Leases
<1>1. Become(ids, status)
  BY <1>0, SetLeasesEffect, SetLeaseEffect
<1>2. lease[t].status \in {"none", "closed"} => ~Made(t, t)
  BY DEF IInv, RemoteInv, Made, Open
<1>3. /\ t \in ids => lease'[t].status = status
      /\ t \notin ids => lease'[t] = lease[t]
      /\ \A id \in Leases : lease'[id].by = lease[id].by /\ (id # t => lease'[id] = lease[id])
      /\ lease' \in [Leases -> LeaseRow]
  BY <1>0, <1>1 DEF Become
<1>4. lease[t].status # "none" => lease'[t].status # "none"
  BY <1>3
<1>5. lease'[t].status \in {"planned", "active"} =>
           session = "active" \/ lease[t].status \in {"planned", "active"}
  BY <1>3
<1>6. lease'[t].status \in {"none", "closed"} => ~Made(t, t)'
  BY <1>2, <1>3 DEF Made
<1> QED
  BY <1>3, <1>4, <1>5, <1>6 DEF TitleRows

\* The thread of a title is deleted, or it stays.
LEMMA TitleSame ==
    ASSUME ChatAssumption, IInv, NEW t \in Titles, UNCHANGED lease,
           remote' = remote \/ remote' = remote \ {<<t, t>>}
    PROVE  TitleRows(t)
<1>1. lease \in [Leases -> LeaseRow] /\ t \in Leases
  BY DEF IInv, TypeOK, LeaseRow, Leases
<1>2. lease[t].status \in {"none", "closed"} => ~Made(t, t)'
  BY DEF IInv, RemoteInv, Made, Open
<1> QED
  BY <1>1, <1>2 DEF TitleRows

LEMMA TitleReadPreserves ==
    ASSUME ChatAssumption, IInv, NEW t \in Titles, TitleRead(t)
    PROVE  IInv'
<1>0. TypeOK /\ t \in Threads /\ t \in Leases /\ pc[t] = "idle"
  BY DEF IInv, Threads, Leases, TitleRead, At
<1>1. Moves(t, "planned")
  BY <1>0, Goes DEF TitleRead, Places
<1>2. TitleRows(t)
  BY <1>0 DEF IInv, TypeOK, TitleRead, TitleRows, rows, LeaseRow, LeaseInv, RemoteInv, TitleInv, Made
<1>3. TitleInv(t)'
  BY <1>0, <1>1 DEF IInv, TitleInv, TitlePlaces, TitleRead, Moves, Made, rows
<1> QED
  BY <1>0, <1>1, <1>2, <1>3, TitleMove DEF TitleRead, rows, TypeOK

LEMMA TitlePlanPreserves ==
    ASSUME ChatAssumption, IInv, NEW t \in Titles, TitlePlan(t)
    PROVE  IInv'
<1>0. TypeOK /\ t \in Threads /\ t \in Leases /\ pc[t] = "planned"
  BY DEF IInv, Threads, Leases, TitlePlan, At
<1>1. lease[t].status = "none" /\ lease[t].by = None /\ ~Made(t, t)
  BY <1>0 DEF IInv, TitleInv, LeaseInv
<1>2. CASE session = "active"
  <2>1. Moves(t, "temporary")
    BY <1>0, <1>2, Goes DEF TitlePlan, Places
  <2>2. /\ lease' \in [Leases -> LeaseRow]
        /\ lease'[t].status = "planned" /\ lease'[t].by = None
        /\ \A id \in Leases : id # t => lease'[id] = lease[id]
    BY <1>0, <1>2 DEF TitlePlan, TypeOK, LeaseRow, LeaseStatus
  <2>3. TitleRows(t)
    BY <1>0, <1>1, <1>2, <2>2 DEF TitleRows, TitlePlan
  <2>4. TitleInv(t)'
    BY <1>1, <2>1, <2>2 DEF TitleInv, TitlePlaces, TitlePlan, Moves, Made
  <2> QED
    BY <1>0, <2>1, <2>3, <2>4, TitleMove DEF TitlePlan, TypeOK
<1>3. CASE session # "active"
  <2>1. Moves(t, "done")
    BY <1>0, <1>3, Goes DEF TitlePlan, Places
  <2>2. TitleRows(t)
    BY <1>3, TitleSame DEF TitlePlan
  <2>3. TitleInv(t)'
    BY <2>1 DEF TitleInv, TitlePlaces, Moves
  <2> QED
    BY <1>0, <1>3, <2>1, <2>2, <2>3, TitleMove DEF TitlePlan, TypeOK
<1> QED
  BY <1>2, <1>3

LEMMA TitleOpenPreserves ==
    ASSUME ChatAssumption, IInv, NEW t \in Titles, TitleOpen(t)
    PROVE  IInv'
<1>0. TypeOK /\ t \in Threads /\ t \in Leases /\ pc[t] = "temporary"
  BY DEF IInv, Threads, Leases, TitleOpen, At
<1>1. lease[t].status = "planned" /\ ~Made(t, t) /\ lease' = lease
  BY <1>0 DEF IInv, TitleInv, TitleOpen, rows
<1>2. CASE Exists("workspace") /\ remote' = remote \cup {<<t, t>>} /\ Goto(t, "replying")
  <2>1. Moves(t, "replying")
    BY <1>0, <1>2, Goes DEF Places
  <2>2. TitleRows(t)
    <3>1. lease \in [Leases -> LeaseRow]
      BY <1>0 DEF TypeOK, LeaseRow
    <3> QED
      BY <1>1, <1>2, <3>1 DEF TitleRows
  <2>3. TitleInv(t)'
    BY <2>1 DEF TitleInv, TitlePlaces, Moves
  <2> QED
    BY <1>0, <2>1, <2>2, <2>3, TitleMove DEF TitleOpen, rows, TypeOK
<1>3. CASE Goto(t, "undone") /\ UNCHANGED remote
  <2>1. Moves(t, "undone")
    BY <1>0, <1>3, Goes DEF Places
  <2>2. TitleRows(t)
    BY <1>1, <1>3, TitleSame
  <2>3. TitleInv(t)'
    BY <1>1, <1>3, <2>1 DEF TitleInv, TitlePlaces, Moves, Made
  <2> QED
    BY <1>0, <2>1, <2>2, <2>3, TitleMove DEF TitleOpen, rows, TypeOK
<1> QED
  BY <1>2, <1>3 DEF TitleOpen

LEMMA TitleUndoPreserves ==
    ASSUME ChatAssumption, IInv, NEW t \in Titles, TitleUndo(t)
    PROVE  IInv'
<1>0. TypeOK /\ t \in Threads /\ t \in Leases /\ pc[t] = "undone"
  BY DEF IInv, Threads, Leases, TitleUndo, At
<1>1. Moves(t, "done")
  BY <1>0, Goes DEF TitleUndo, Places
<1>2. TitleRows(t)
  BY <1>0, TitleLease DEF IInv, TitleInv, TitleUndo, IfPlanned, LeaseStatus
<1>3. TitleInv(t)'
  BY <1>1 DEF TitleInv, TitlePlaces, Moves
<1> QED
  BY <1>0, <1>1, <1>2, <1>3, TitleMove DEF TitleUndo, TypeOK

LEMMA TitleActivatePreserves ==
    ASSUME ChatAssumption, IInv, NEW t \in Titles, TitleActivate(t)
    PROVE  IInv'
<1>0. TypeOK /\ t \in Threads /\ t \in Leases /\ pc[t] = "replying"
  BY DEF IInv, Threads, Leases, TitleActivate, At
<1>1. Moves(t, "replied")
  BY <1>0, Goes DEF TitleActivate, Places
<1>2. TitleRows(t)
  <2>1. CASE CanActivate(t)
    BY <1>0, <2>1, TitleLease DEF TitleActivate, LeaseStatus, CanActivate
  <2>2. CASE ~CanActivate(t)
    <3>1. lease' = lease
      BY <1>0, <2>2 DEF TitleActivate, SetLease, TypeOK
    <3> QED
      BY <3>1, TitleSame DEF TitleActivate
  <2> QED
    BY <2>1, <2>2
<1>3. TitleInv(t)'
  BY <1>1 DEF TitleInv, TitlePlaces, Moves
<1> QED
  BY <1>0, <1>1, <1>2, <1>3, TitleMove DEF TitleActivate, TypeOK

LEMMA TitleDeletePreserves ==
    ASSUME ChatAssumption, IInv, NEW t \in Titles, TitleDelete(t)
    PROVE  IInv'
<1>0. TypeOK /\ t \in Threads /\ t \in Leases /\ pc[t] = "replied"
  BY DEF IInv, Threads, Leases, TitleDelete, At
<1>1. PICK place \in {"deleted thread", "deferred"} :
         /\ Moves(t, place)
         /\ place = "deleted thread" => remote' = remote \ {<<t, t>>}
  BY <1>0, Goes DEF TitleDelete, Places
<1>2. TitleRows(t)
  BY TitleSame DEF TitleDelete, rows
<1>3. TitleInv(t)'
  BY <1>1 DEF TitleInv, TitlePlaces, Moves, Made
<1> QED
  BY <1>0, <1>1, <1>2, <1>3, TitleMove DEF TitleDelete, rows, TypeOK

LEMMA TitleClosePreserves ==
    ASSUME ChatAssumption, IInv, NEW t \in Titles, TitleClose(t)
    PROVE  IInv'
<1>0. TypeOK /\ t \in Threads /\ t \in Leases /\ pc[t] = "deleted thread"
  BY DEF IInv, Threads, Leases, TitleClose, At
<1>1. Moves(t, "done")
  BY <1>0, Goes DEF TitleClose, Places
<1>2. TitleRows(t)
  BY <1>0, TitleLease DEF IInv, TitleInv, TitleClose, LeaseStatus
<1>3. TitleInv(t)'
  BY <1>1 DEF TitleInv, TitlePlaces, Moves
<1> QED
  BY <1>0, <1>1, <1>2, <1>3, TitleMove DEF TitleClose, TypeOK

LEMMA TitleDeferPreserves ==
    ASSUME ChatAssumption, IInv, NEW t \in Titles, TitleDefer(t)
    PROVE  IInv'
<1>0. TypeOK /\ t \in Threads /\ t \in Leases /\ pc[t] = "deferred"
  BY DEF IInv, Threads, Leases, TitleDefer, At
<1>1. Moves(t, "queued")
  BY <1>0, Goes DEF TitleDefer, Places
<1>2. TitleRows(t)
  BY TitleLease DEF TitleDefer, LeaseStatus
<1>3. TitleInv(t)'
  BY <1>1 DEF TitleInv, TitlePlaces, Moves
<1> QED
  BY <1>0, <1>1, <1>2, <1>3, TitleMove DEF TitleDefer, TypeOK

LEMMA TitleClaimPreserves ==
    ASSUME ChatAssumption, IInv, NEW t \in Titles, TitleClaim(t)
    PROVE  IInv'
<1>0. TypeOK /\ t \in Threads /\ t \in Leases /\ pc[t] = "queued"
  BY DEF IInv, Threads, Leases, TitleClaim, At
<1>1. Moves(t, "claimed")
  BY <1>0, Goes DEF TitleClaim, Places
<1>2. TitleRows(t)
  BY TitleSame DEF TitleClaim
<1>3. TitleInv(t)'
  BY <1>1 DEF TitleInv, TitlePlaces, Moves
<1>4. job' \in [Jobs -> {"none", "pending", "running", "failed", "succeeded"}]
  BY <1>0 DEF TitleClaim, TypeOK
<1> QED
  BY <1>1, <1>2, <1>3, <1>4, TitleMove DEF TitleClaim

LEMMA TitleRetryPreserves ==
    ASSUME ChatAssumption, IInv, NEW t \in Titles, TitleRetry(t)
    PROVE  IInv'
<1>0. TypeOK /\ t \in Threads /\ t \in Leases /\ pc[t] = "claimed"
  BY DEF IInv, Threads, Leases, TitleRetry, At
<1>1. PICK place \in {"retrying", "done"} : Moves(t, place)
  BY <1>0, Goes DEF TitleRetry, Places
<1>2. TitleRows(t)
  BY TitleLease DEF TitleRetry, LeaseStatus
<1>3. TitleInv(t)'
  BY <1>1 DEF TitleInv, TitlePlaces, Moves
<1>4. job' \in [Jobs -> {"none", "pending", "running", "failed", "succeeded"}]
  BY <1>0 DEF TitleRetry, TypeOK
<1> QED
  BY <1>1, <1>2, <1>3, <1>4, TitleMove DEF TitleRetry

LEMMA TitleRedeletePreserves ==
    ASSUME ChatAssumption, IInv, NEW t \in Titles, TitleRedelete(t)
    PROVE  IInv'
<1>0. TypeOK /\ t \in Threads /\ t \in Leases /\ pc[t] = "retrying"
  BY DEF IInv, Threads, Leases, TitleRedelete, At
<1>1. PICK place \in {"retried", "kept"} :
         /\ Moves(t, place)
         /\ place = "retried" => remote' = remote \ {<<t, t>>}
  BY <1>0, Goes DEF TitleRedelete, Places
<1>2. TitleRows(t)
  BY TitleSame DEF TitleRedelete, rows
<1>3. TitleInv(t)'
  BY <1>1 DEF TitleInv, TitlePlaces, Moves, Made
<1> QED
  BY <1>0, <1>1, <1>2, <1>3, TitleMove DEF TitleRedelete, rows, TypeOK

LEMMA TitleRecordPreserves ==
    ASSUME ChatAssumption, IInv, NEW t \in Titles, TitleRecord(t)
    PROVE  IInv'
<1>0. TypeOK /\ t \in Threads /\ t \in Leases
  BY DEF IInv, Threads, Leases
<1>1. Moves(t, "done")
  BY <1>0, Goes DEF TitleRecord, Places
<1>2. TitleRows(t)
  <2>1. CASE At(t, "retried") /\ SetLease(t, "closed")
    BY <2>1, TitleLease DEF IInv, TitleInv, TitleRecord, At, LeaseStatus
  <2>2. CASE At(t, "kept") /\ SetLeases({t} \cap OpenLeases, "failed")
    BY <2>2, TitleLease DEF TitleRecord, LeaseStatus
  <2> QED
    BY <2>1, <2>2 DEF TitleRecord
<1>3. TitleInv(t)'
  BY <1>1 DEF TitleInv, TitlePlaces, Moves
<1>4. job' \in [Jobs -> {"none", "pending", "running", "failed", "succeeded"}]
  BY <1>0 DEF TitleRecord, TypeOK
<1> QED
  BY <1>1, <1>2, <1>3, <1>4, TitleMove DEF TitleRecord

-------------------------------------------------------------------------------
(***************************************************************************)
(* Deletions.                                                              *)
(***************************************************************************)

\* What a deletion needs where it is.
DeletionKnows(d) ==
    /\ pc[d] \in Deleting \cup {"idle", "raised", "dead"}
    /\ pc[d] \in Deleting => session = "deleting"
    /\ pc[d] \in Naming => refs
    /\ pc[d] = "dropped thread" => \A m \in remote : m[1] # "thread"
    /\ pc[d] = "dropped context" => remote = {}
    /\ pc[d] \in {"cleaned", "closing"} => OnlyExpired

LEMMA DeletionTurn ==
    ASSUME ChatAssumption, IInv, NEW d \in Deletes, NEW place, Moves(d, place),
           \A e \in Deletes : e # d => pc[e] \notin Deleting,
           Rely(d), GlobalInv', fresh' = fresh, \A q \in Runs : Keeps(q),
           DeletionKnows(d)'
    PROVE  IInv'
<1>0. d \notin Runs /\ d \notin Titles /\ d \in Threads
  BY DEF ChatAssumption, Threads
<1>1. \A q \in Runs : RunPlaced(q)' /\ RunOwns(q)' /\ RunPlans(q)' /\ (Live' => RunKnows(q)')
  BY <1>0, RunsKeep DEF Moves, Threads
<1>2. \A u \in Titles : TitleInv(u)'
  BY <1>0, TitlesKeep DEF Moves, Threads
<1>3. \A e \in Deletes : e # d => pc'[e] = pc[e] /\ pc'[e] \notin Deleting
  BY DEF Moves, Threads
<1>4. DeletionInv(d)'
  BY <1>3 DEF DeletionKnows, DeletionInv
<1>5. ASSUME NEW e \in Deletes, e # d PROVE DeletionInv(e)'
  <2>1. pc'[e] \in {"idle", "raised", "dead"}
    BY <1>3, <1>5 DEF IInv, DeletionInv
  <2> QED
    BY <2>1 DEF DeletionInv, Deleting, Naming
<1> QED
  BY <1>1, <1>2, <1>4, <1>5 DEF IInv, GlobalInv

\* What a deletion may do to leases.
DeletionLeases ==
    /\ lease' \in [Leases -> LeaseRow]
    /\ \A id \in Leases :
          /\ lease'[id].by = lease[id].by
          /\ lease'[id].status = "none" => lease[id].status = "none"
          /\ lease'[id] = lease[id] \/ id \in RunSide \/ lease'[id].status \notin {"planned", "active"}
          /\ id \in Titles => lease'[id] = lease[id] \/ Open(id)
          /\ lease'[id].status = "closed" =>
                 \/ lease[id].status = "closed"
                 \/ refs /\ remote = {}
                 \/ refs /\ id = "thread" /\ \A m \in remote : m[1] # "thread"

LEMMA DeletionMove ==
    ASSUME ChatAssumption, IInv, NEW d \in Deletes, pc[d] \in Deleting,
           NEW place, Moves(d, place),
           UNCHANGED <<refs, guard, run, bound, fresh, crashed>>,
           session' \in {"deleting", "deleted", "error"}, session' = "deleted" => OnlyExpired,
           job' \in [Jobs -> {"none", "pending", "running", "failed", "succeeded"}],
           todo' \subseteq Leases \X LeaseStatus,
           DeletionLeases, remote' \subseteq remote, DeletionKnows(d)'
    PROVE  IInv'
<1>0. TypeOK /\ RunSide \subseteq Leases /\ Docs \subseteq Leases /\ Titles \subseteq Leases
      /\ RunSide \cap Titles = {} /\ RunSide \cap Docs = {}
  BY DEF IInv, RunSide, Leases, ChatAssumption
<1>1. session = "deleting" /\ \A e \in Deletes : e # d => pc[e] \notin Deleting
  BY DEF IInv, DeletionInv
<1>2. ~Live /\ ~Live'
  BY <1>1 DEF Live
<1>3. TypeOK'
  BY <1>0 DEF TypeOK, Moves, DeletionLeases, LeaseRow
<1>4. \A t \in Titles : lease[t].status \notin {"planned", "active"}
  BY <1>1 DEF IInv, OneAtATime
<1>5. OneAtATime'
  <2>1. \A t \in Titles : lease'[t].status \notin {"planned", "active"}
    BY <1>0, <1>4 DEF DeletionLeases
  <2> QED
    BY <1>1, <2>1 DEF IInv, OneAtATime, Idle, Active
<1>6. RelySession(d)
  BY <1>2 DEF RelySession, Expired
<1>7. RelyLeases(d)
  BY <1>0, <1>2 DEF RelyLeases, DeletionLeases, Open
<1>8. RelyTitles(d)
  BY <1>0, <1>4 DEF RelyTitles, DeletionLeases, Open
<1>9. RelyRemote(d)
  BY <1>2 DEF RelyRemote
<1>10. LeaseInv'
  <2>1. \A id \in Leases : lease'[id].status = "none" => lease'[id].by = None
    BY DEF IInv, LeaseInv, DeletionLeases
  <2>2. refs' => lease'["workspace"].status # "none"
    BY <1>0 DEF IInv, LeaseInv, DeletionLeases, RunSide
  <2>3. \A x \in Docs : lease'[x].status = "closed" => refs' /\ ~Exists("workspace")'
    BY <1>0 DEF IInv, LeaseInv, DeletionLeases, RunSide, Exists
  <2> QED
    BY <1>2, <2>1, <2>2, <2>3 DEF LeaseInv
<1>11. RemoteInv'
  <2>1. ASSUME NEW m \in remote'
        PROVE  /\ Open(m[1])'
               /\ m[1] \in {"workspace", "thread"} => lease'[m[1]].by = m[2]
               /\ m[1] \in Titles => m[2] = m[1]
    <3>1. m \in remote /\ m[1] \in Leases
      BY <1>0, Makers
    <3> QED
      BY <3>1 DEF IInv, RemoteInv, DeletionLeases, Open
  <2>2. session' = "deleted" => OnlyExpired'
    BY DEF OnlyExpired, Expired
  <2> QED
    BY <2>1, <2>2 DEF RemoteInv
<1> QED
  BY <1>1, <1>2, <1>3, <1>5, <1>6, <1>7, <1>8, <1>9, <1>10, <1>11, DeletionTurn, SameRunKeeps
     DEF GlobalInv, Rely

LEMMA SameLeases ==
    ASSUME IInv, UNCHANGED lease
    PROVE  DeletionLeases
BY DEF IInv, TypeOK, DeletionLeases, LeaseRow

\* Open leases get a status other than closed, or what was deleted is closed.
LEMMA SomeLeases ==
    ASSUME ChatAssumption, IInv, NEW ids \in SUBSET Leases, NEW status \in LeaseStatus,
           Become(ids, status), status # "none",
           status \in {"planned", "active"} => ids \subseteq RunSide,
           ids \subseteq OpenLeases \/ ids \subseteq RunSide,
           status = "closed" =>
               refs /\ (remote = {} \/ (ids = {"thread"} /\ \A m \in remote : m[1] # "thread"))
    PROVE  DeletionLeases
<1>0. RunSide \cap Titles = {}
  BY DEF RunSide, ChatAssumption
<1>1. lease \in [Leases -> LeaseRow]
  BY DEF IInv, TypeOK, LeaseRow
<1>2. ASSUME NEW id \in Leases
      PROVE  /\ lease'[id].by = lease[id].by
             /\ lease'[id].status = "none" => lease[id].status = "none"
             /\ lease'[id] = lease[id] \/ id \in RunSide \/ lease'[id].status \notin {"planned", "active"}
             /\ id \in Titles => lease'[id] = lease[id] \/ Open(id)
  BY <1>0 DEF Become, OpenLeases
<1>3. ASSUME NEW id \in Leases, lease'[id].status = "closed"
      PROVE  \/ lease[id].status = "closed"
             \/ refs /\ remote = {}
             \/ refs /\ id = "thread" /\ \A m \in remote : m[1] # "thread"
  BY <1>3 DEF Become
<1> QED
  BY <1>2, <1>3 DEF DeletionLeases, Become

LEMMA BeginDeletionPreserves ==
    ASSUME ChatAssumption, IInv, NEW d \in Deletes, BeginDeletion(d)
    PROVE  IInv'
<1>0. TypeOK /\ d \in Threads /\ run' = ExpireStaleRuns /\ fresh' = fresh
  BY DEF IInv, Threads, BeginDeletion
<1>1. Moves(d, "deleting")
  BY <1>0, Goes DEF BeginDeletion, Places
<1>2. \A e \in Deletes : pc[e] \notin Deleting
  BY DEF IInv, DeletionInv, BeginDeletion
<1>3. \A q \in Runs : Keeps(q) /\ (Expired(q) => Expired(q)') /\ ~Active(q)'
  BY <1>0, ExpireKeeps, KeepsExpired DEF BeginDeletion, NoneActive, Active
<1>4. TypeOK'
  BY <1>0, <1>1, ExpireType DEF TypeOK, BeginDeletion, Moves, RunRow
<1>5. OneAtATime'
  BY <1>3 DEF OneAtATime, Idle, BeginDeletion, Sending
<1>6. Rely(d)
  BY <1>3 DEF BeginDeletion, Rely, RelySession, RelyLeases, RelyTitles, RelyRemote, Live, Open
<1>7. LeaseInv'
  BY DEF IInv, BeginDeletion, LeaseInv, Live, Exists
<1>8. RemoteInv'
  BY DEF IInv, BeginDeletion, RemoteInv, Open
<1>9. ~Live'
  BY DEF BeginDeletion, Live
<1>10. DeletionKnows(d)'
  BY <1>1 DEF DeletionKnows, Deleting, Naming, Moves, BeginDeletion
<1> QED
  BY <1>0, <1>1, <1>2, <1>3, <1>4, <1>5, <1>6, <1>7, <1>8, <1>9, <1>10, DeletionTurn DEF GlobalInv

LEMMA ClaimJobPreserves ==
    ASSUME ChatAssumption, IInv, NEW d \in Deletes, ClaimJob(d)
    PROVE  IInv'
<1>0. TypeOK /\ d \in Threads /\ pc[d] = "deleting" /\ pc[d] \in Deleting
  BY DEF IInv, Threads, ClaimJob, At, Deleting
<1>1. Moves(d, "cleaning") /\ session = "deleting"
  BY <1>0, Goes DEF ClaimJob, Places, IInv, DeletionInv
<1>2. job' \in [Jobs -> {"none", "pending", "running", "failed", "succeeded"}]
  BY <1>0 DEF ClaimJob, TypeOK
<1>3. DeletionKnows(d)'
  BY <1>1 DEF DeletionKnows, Deleting, Naming, Moves, ClaimJob
<1> QED
  BY <1>0, <1>1, <1>2, <1>3, SameLeases, DeletionMove DEF ClaimJob, TypeOK

LEMMA CheckReferencesPreserves ==
    ASSUME ChatAssumption, IInv, NEW d \in Deletes, CheckReferences(d)
    PROVE  IInv'
<1>0. TypeOK /\ d \in Threads /\ pc[d] = "cleaning" /\ pc[d] \in Deleting
  BY DEF IInv, Threads, CheckReferences, At, Deleting
<1>1. session = "deleting"
  BY <1>0 DEF IInv, DeletionInv
<1>2. CASE refs
  <2>1. Moves(d, "mark thread") /\ IfPlanned({"workspace", "thread"}, "active")
    BY <1>0, <1>2, Goes DEF CheckReferences, Places
  <2> DEFINE ids == {id \in {"workspace", "thread"} : lease[id].status = "planned"}
  <2>2. Become(ids, "active")
    BY <1>0, <2>1, SetLeasesEffect DEF IfPlanned, LeaseStatus
  <2>3. ids \subseteq RunSide /\ ids \subseteq Leases
    BY DEF RunSide, Leases
  <2>4. DeletionLeases
    <3> HIDE DEF ids
    <3> QED
      BY <2>2, <2>3, SomeLeases DEF LeaseStatus
  <2>5. DeletionKnows(d)'
    BY <1>1, <1>2, <2>1 DEF DeletionKnows, Deleting, Naming, Moves, CheckReferences
  <2> QED
    BY <1>0, <1>1, <2>1, <2>4, <2>5, DeletionMove DEF CheckReferences, TypeOK
<1>3. CASE ~refs
  <2>1. PICK place \in {"cleaned", "failed"} :
           Moves(d, place) /\ (place = "cleaned" => OpenLeases = {})
    <3>1. CASE OpenLeases = {}
      BY <1>0, <1>3, <3>1, Goes DEF CheckReferences, Places
    <3>2. CASE OpenLeases # {}
      BY <1>0, <1>3, <3>2, Goes DEF CheckReferences, Places
    <3> QED
      BY <3>1, <3>2
  <2>2. OpenLeases = {} => remote = {}
    BY <1>0, Makers DEF IInv, RemoteInv, OpenLeases
  <2>3. DeletionKnows(d)'
    BY <1>1, <2>1, <2>2 DEF DeletionKnows, Deleting, Naming, Moves, CheckReferences, OnlyExpired
  <2> QED
    BY <1>0, <1>1, <1>3, <2>1, <2>3, SameLeases, DeletionMove DEF CheckReferences, TypeOK
<1> QED
  BY <1>2, <1>3

LEMMA MarkThreadPreserves ==
    ASSUME ChatAssumption, IInv, NEW d \in Deletes, MarkThread(d)
    PROVE  IInv'
<1>0. TypeOK /\ d \in Threads /\ pc[d] = "mark thread" /\ pc[d] \in Deleting
  BY DEF IInv, Threads, MarkThread, At, Deleting
<1>1. Moves(d, "drop thread") /\ session = "deleting" /\ refs
  BY <1>0, Goes DEF MarkThread, Places, IInv, DeletionInv, Naming
<1> DEFINE ids == {"thread"} \cap OpenLeases
<1>2. ids \subseteq Leases /\ ids \subseteq OpenLeases
  BY DEF OpenLeases
<1>3. SetLeases(ids, "pending")
  BY DEF MarkThread
<1> HIDE DEF ids
<1>4. Become(ids, "pending")
  BY <1>0, <1>3, SetLeasesEffect DEF LeaseStatus
<1>5. DeletionLeases
  BY <1>2, <1>4, SomeLeases DEF LeaseStatus
<1>6. DeletionKnows(d)'
  BY <1>1 DEF DeletionKnows, Deleting, Naming, Moves, MarkThread
<1> QED
  BY <1>0, <1>1, <1>5, <1>6, DeletionMove DEF MarkThread, TypeOK

LEMMA DropThreadPreserves ==
    ASSUME ChatAssumption, IInv, NEW d \in Deletes, DropThread(d)
    PROVE  IInv'
<1>0. TypeOK /\ d \in Threads /\ pc[d] = "drop thread" /\ pc[d] \in Deleting
  BY DEF IInv, Threads, DropThread, At, Deleting
<1>1. PICK place \in {"dropped thread", "kept thread"} :
         Moves(d, place) /\ (place = "dropped thread" => remote' = Without({"thread"}))
  BY <1>0, Goes DEF DropThread, Places
<1>2. session = "deleting" /\ refs
  BY <1>0 DEF IInv, DeletionInv, Naming
<1>3. remote' \subseteq remote
  BY DEF DropThread, Without
<1>4. DeletionKnows(d)'
  BY <1>1, <1>2 DEF DeletionKnows, Deleting, Naming, Moves, DropThread, rows, Without
<1> QED
  BY <1>0, <1>1, <1>2, <1>3, <1>4, SameLeases, DeletionMove DEF DropThread, rows, TypeOK

LEMMA RecordThreadPreserves ==
    ASSUME ChatAssumption, IInv, NEW d \in Deletes, RecordThread(d)
    PROVE  IInv'
<1>0. TypeOK /\ d \in Threads /\ pc[d] \in {"dropped thread", "kept thread"} /\ pc[d] \in Deleting
  BY DEF IInv, Threads, RecordThread, At, Deleting
<1>1. Moves(d, "mark context") /\ session = "deleting" /\ refs
  BY <1>0, Goes DEF RecordThread, Places, IInv, DeletionInv, Naming
<1>2. DeletionLeases
  <2>1. CASE At(d, "dropped thread") /\ SetLease("thread", "closed")
    <3>1. Become({"thread"}, "closed")
      BY <1>0, <2>1, SetLeaseEffect DEF Leases, LeaseStatus
    <3>2. \A m \in remote : m[1] # "thread"
      BY <2>1 DEF IInv, DeletionInv, At
    <3> QED
      BY <1>1, <3>1, <3>2, SomeLeases DEF LeaseStatus, RunSide, Leases
  <2>2. CASE SetLeases({"thread"} \cap OpenLeases, "failed")
    <3> DEFINE ids == {"thread"} \cap OpenLeases
    <3>1. ids \subseteq Leases /\ ids \subseteq OpenLeases /\ SetLeases(ids, "failed")
      BY <2>2 DEF OpenLeases
    <3> HIDE DEF ids
    <3>2. Become(ids, "failed")
      BY <1>0, <3>1, SetLeasesEffect DEF LeaseStatus
    <3> QED
      BY <3>1, <3>2, SomeLeases DEF LeaseStatus
  <2> QED
    BY <2>1, <2>2 DEF RecordThread
<1>3. DeletionKnows(d)'
  BY <1>1 DEF DeletionKnows, Deleting, Naming, Moves, RecordThread
<1> QED
  BY <1>0, <1>1, <1>2, <1>3, DeletionMove DEF RecordThread, TypeOK

LEMMA MarkContextPreserves ==
    ASSUME ChatAssumption, IInv, NEW d \in Deletes, MarkContext(d)
    PROVE  IInv'
<1>0. TypeOK /\ d \in Threads /\ pc[d] = "mark context" /\ pc[d] \in Deleting
  BY DEF IInv, Threads, MarkContext, At, Deleting
<1>1. Moves(d, "drop context") /\ session = "deleting" /\ refs
  BY <1>0, Goes DEF MarkContext, Places, IInv, DeletionInv, Naming
<1> DEFINE ids == ({"workspace"} \cup Docs) \cap OpenLeases
<1>2. ids \subseteq Leases /\ ids \subseteq OpenLeases
  BY DEF OpenLeases
<1>3. SetLeases(ids, "pending")
  BY DEF MarkContext
<1> HIDE DEF ids
<1>4. Become(ids, "pending")
  BY <1>0, <1>3, SetLeasesEffect DEF LeaseStatus
<1>5. DeletionLeases
  BY <1>2, <1>4, SomeLeases DEF LeaseStatus
<1>6. DeletionKnows(d)'
  BY <1>1 DEF DeletionKnows, Deleting, Naming, Moves, MarkContext
<1> QED
  BY <1>0, <1>1, <1>5, <1>6, DeletionMove DEF MarkContext, TypeOK

LEMMA DropContextPreserves ==
    ASSUME ChatAssumption, IInv, NEW d \in Deletes, DropContext(d)
    PROVE  IInv'
<1>0. TypeOK /\ d \in Threads /\ pc[d] = "drop context" /\ pc[d] \in Deleting
  BY DEF IInv, Threads, DropContext, At, Deleting
<1>1. PICK place \in {"dropped context", "kept context"} :
         Moves(d, place) /\ (place = "dropped context" => remote' = {})
  BY <1>0, Goes DEF DropContext, Places
<1>2. session = "deleting" /\ refs
  BY <1>0 DEF IInv, DeletionInv, Naming
<1>3. remote' \subseteq remote
  BY DEF DropContext
<1>4. DeletionKnows(d)'
  BY <1>1, <1>2 DEF DeletionKnows, Deleting, Naming, Moves, DropContext, rows
<1> QED
  BY <1>0, <1>1, <1>2, <1>3, <1>4, SameLeases, DeletionMove DEF DropContext, rows, TypeOK

LEMMA RecordContextPreserves ==
    ASSUME ChatAssumption, IInv, NEW d \in Deletes, RecordContext(d)
    PROVE  IInv'
<1>0. TypeOK /\ d \in Threads /\ pc[d] \in {"dropped context", "kept context"} /\ pc[d] \in Deleting
  BY DEF IInv, Threads, RecordContext, At, Deleting
<1>1. session = "deleting" /\ refs
  BY <1>0 DEF IInv, DeletionInv, Naming
<1>2. PICK place \in {"cleaned", "failed"}, status \in {"closed", "failed"} :
         /\ Moves(d, place) /\ SetLeases(OpenLeases, status)
         /\ place = "cleaned" => remote = {}
         /\ status = "closed" => remote = {}
  <2>1. CASE At(d, "dropped context")
    <3>1. remote = {}
      BY <2>1 DEF IInv, DeletionInv, At
    <3> QED
      BY <1>0, <2>1, <3>1, Goes DEF RecordContext, Places, At
  <2>2. CASE ~At(d, "dropped context")
    BY <1>0, <2>2, Goes DEF RecordContext, Places, At
  <2> QED
    BY <2>1, <2>2
<1>3. OpenLeases \subseteq Leases
  BY DEF OpenLeases
<1>4. Become(OpenLeases, status)
  BY <1>0, <1>2, SetLeasesEffect DEF LeaseStatus
<1>5. DeletionLeases
  BY <1>1, <1>2, <1>3, <1>4, SomeLeases DEF LeaseStatus
<1>6. DeletionKnows(d)'
  BY <1>1, <1>2 DEF DeletionKnows, Deleting, Naming, Moves, RecordContext, OnlyExpired
<1> QED
  BY <1>0, <1>1, <1>2, <1>5, <1>6, DeletionMove DEF RecordContext, TypeOK

LEMMA JobSucceedPreserves ==
    ASSUME ChatAssumption, IInv, NEW d \in Deletes, JobSucceed(d)
    PROVE  IInv'
<1>0. TypeOK /\ d \in Threads /\ pc[d] = "cleaned" /\ pc[d] \in Deleting
  BY DEF IInv, Threads, JobSucceed, At, Deleting
<1>1. PICK place \in {"failed", "closing"} : Moves(d, place)
  BY <1>0, Goes DEF JobSucceed, Places
<1>2. session = "deleting" /\ OnlyExpired
  BY <1>0 DEF IInv, DeletionInv
<1>3. job' \in [Jobs -> {"none", "pending", "running", "failed", "succeeded"}]
  BY <1>0 DEF JobSucceed, TypeOK
<1>4. DeletionKnows(d)'
  BY <1>1, <1>2 DEF DeletionKnows, Deleting, Naming, Moves, JobSucceed, OnlyExpired, Expired
<1> QED
  BY <1>0, <1>1, <1>2, <1>3, <1>4, SameLeases, DeletionMove DEF JobSucceed, TypeOK

LEMMA EndDeletionPreserves ==
    ASSUME ChatAssumption, IInv, NEW d \in Deletes, EndDeletion(d)
    PROVE  IInv'
<1>0. TypeOK /\ d \in Threads /\ pc[d] = "closing" /\ pc[d] \in Deleting
  BY DEF IInv, Threads, EndDeletion, At, Deleting
<1>1. Moves(d, "idle")
  BY <1>0, Goes DEF EndDeletion, Places
<1>2. OnlyExpired /\ session' \in {"deleted", "error"}
  BY <1>0 DEF IInv, DeletionInv, EndDeletion
<1>3. DeletionKnows(d)'
  BY <1>1 DEF DeletionKnows, Deleting, Naming, Moves
<1> QED
  BY <1>0, <1>1, <1>2, <1>3, SameLeases, DeletionMove DEF EndDeletion, TypeOK

LEMMA JobFailPreserves ==
    ASSUME ChatAssumption, IInv, NEW d \in Deletes, JobFail(d)
    PROVE  IInv'
<1>0. TypeOK /\ d \in Threads /\ pc[d] = "failed" /\ pc[d] \in Deleting
  BY DEF IInv, Threads, JobFail, At, Deleting
<1>1. Moves(d, "blaming") /\ session = "deleting"
  BY <1>0, Goes DEF JobFail, Places, IInv, DeletionInv
<1>2. job' \in [Jobs -> {"none", "pending", "running", "failed", "succeeded"}]
  BY <1>0 DEF JobFail, TypeOK
<1>3. todo' \subseteq Leases \X LeaseStatus
  BY <1>0 DEF JobFail, TypeOK, OpenLeases
<1>4. DeletionKnows(d)'
  BY <1>1 DEF DeletionKnows, Deleting, Naming, Moves, JobFail
<1> QED
  BY <1>0, <1>1, <1>2, <1>3, <1>4, SameLeases, DeletionMove DEF JobFail

LEMMA BlamePreserves ==
    ASSUME ChatAssumption, IInv, NEW d \in Deletes, Blame(d)
    PROVE  IInv'
<1>0. TypeOK /\ d \in Threads /\ pc[d] = "blaming" /\ pc[d] \in Deleting
  BY DEF IInv, Threads, Blame, At, Deleting
<1>1. session = "deleting"
  BY <1>0 DEF IInv, DeletionInv
<1>2. PICK entry \in todo :
         /\ todo' = todo \ {entry}
         /\ CASE entry[2] = "failed" -> UNCHANGED <<lease, pc>>
              [] entry[2] # "failed" /\ ~Open(entry[1]) -> Goto(d, "raised") /\ UNCHANGED lease
              [] OTHER -> SetLease(entry[1], "failed") /\ UNCHANGED pc
  BY DEF Blame
<1>3. entry[1] \in Leases /\ todo' \subseteq Leases \X LeaseStatus
  BY <1>0, <1>2 DEF TypeOK
<1>4. pc' = pc => Moves(d, "blaming")
  BY <1>0 DEF Moves, TypeOK
<1>5. PICK place \in {"blaming", "raised"} : Moves(d, place)
  <2>1. CASE entry[2] = "failed"
    BY <1>2, <1>4, <2>1
  <2>2. CASE entry[2] # "failed" /\ ~Open(entry[1])
    BY <1>0, <1>2, <2>2, Goes DEF Places
  <2>3. CASE entry[2] # "failed" /\ Open(entry[1])
    BY <1>2, <1>4, <2>3
  <2> QED
    BY <2>1, <2>2, <2>3
<1>6. DeletionLeases
  <2>1. CASE UNCHANGED lease
    BY <2>1, SameLeases
  <2>2. CASE ~UNCHANGED lease
    <3>1. SetLease(entry[1], "failed") /\ Open(entry[1])
      BY <1>2, <2>2
    <3>2. Become({entry[1]}, "failed")
      BY <1>0, <1>3, <3>1, SetLeaseEffect DEF LeaseStatus
    <3> QED
      BY <1>3, <3>1, <3>2, SomeLeases DEF LeaseStatus, OpenLeases
  <2> QED
    BY <2>1, <2>2
<1>7. DeletionKnows(d)'
  BY <1>1, <1>5 DEF DeletionKnows, Deleting, Naming, Moves, Blame
<1> QED
  BY <1>0, <1>1, <1>3, <1>5, <1>6, <1>7, DeletionMove DEF Blame, TypeOK

LEMMA MarkErrorPreserves ==
    ASSUME ChatAssumption, IInv, NEW d \in Deletes, MarkError(d)
    PROVE  IInv'
<1>0. TypeOK /\ d \in Threads /\ pc[d] = "blaming" /\ pc[d] \in Deleting
  BY DEF IInv, Threads, MarkError, At, Deleting
<1>1. Moves(d, "idle")
  BY <1>0, Goes DEF MarkError, Places
<1>2. DeletionKnows(d)'
  BY <1>1 DEF DeletionKnows, Deleting, Naming, Moves
<1> QED
  BY <1>0, <1>1, <1>2, SameLeases, DeletionMove DEF MarkError, TypeOK

-------------------------------------------------------------------------------
(***************************************************************************)
(* The invariant.                                                          *)
(***************************************************************************)
LEMMA InitIInv ==
    ASSUME ChatAssumption, Init
    PROVE  IInv
<1>1. TypeOK
  BY DEF Init, TypeOK, LeaseStatus, Places
<1>2. OneAtATime
  BY DEF Init, OneAtATime, Idle, Active
<1>3. ASSUME NEW r \in Runs PROVE RunPlaced(r) /\ RunOwns(r) /\ RunPlans(r) /\ RunKnows(r)
  <2>1. pc[r] = "idle" /\ "idle" \notin Docs /\ r # None
    BY DEF Init, Threads, Places, ChatAssumption
  <2>2. RunPlaced(r)
    BY <2>1 DEF Init, RunPlaced, RunPlaces, Active
  <2>3. RunOwns(r)
    BY <2>1 DEF Init, RunOwns, Planned, Leases
  <2>4. RunPlans(r) /\ RunKnows(r)
    BY <2>1 DEF RunPlans, RunKnows
  <2> QED
    BY <2>2, <2>3, <2>4
<1>4. ASSUME NEW t \in Titles PROVE TitleInv(t)
  BY DEF Init, TitleInv, TitlePlaces, Threads, Leases, Made
<1>5. ASSUME NEW d \in Deletes PROVE DeletionInv(d)
  BY DEF Init, DeletionInv, Deleting, Naming, Threads
<1>6. LeaseInv /\ RemoteInv /\ LiveInv
  BY DEF Init, LeaseInv, RemoteInv, LiveInv, Leases, Live
<1> QED
  BY <1>1, <1>2, <1>3, <1>4, <1>5, <1>6 DEF IInv

LEMMA RunStepPreserves ==
    ASSUME ChatAssumption, IInv, NEW r \in Runs, RunStep(r)
    PROVE  IInv'
<1>1. ASSUME Succeed(r) \/ Fail(r) \/ StopRun(r) PROVE IInv'
  BY <1>1, SettlePreserves DEF Succeed, Fail, StopRun, Verdicts
<1> QED
  BY <1>1, RefusePreserves, AcceptPreserves, CloseEarlyPreserves, StartPreserves,
     EnterPreserves, ReadSessionPreserves, PlanWorkspacePreserves,
     PlanThreadPreserves, OpenConversationPreserves, GiveUpOpeningPreserves,
     ActivateWorkspacePreserves, ActivateThreadPreserves, UpdateRefsPreserves,
     ReadBindingsPreserves, PlanDocumentPreserves, AttachPreserves,
     BindDocumentPreserves, ActivateDocumentPreserves, EndStreamPreserves
     DEF RunStep

LEMMA TitleStepPreserves ==
    ASSUME ChatAssumption, IInv, NEW t \in Titles, TitleStep(t)
    PROVE  IInv'
BY TitlePlanPreserves, TitleOpenPreserves, TitleUndoPreserves,
   TitleActivatePreserves, TitleDeletePreserves, TitleClosePreserves,
   TitleDeferPreserves, TitleClaimPreserves, TitleRetryPreserves,
   TitleRedeletePreserves, TitleRecordPreserves
   DEF TitleStep

LEMMA DeletionStepPreserves ==
    ASSUME ChatAssumption, IInv, NEW d \in Deletes, DeletionStep(d)
    PROVE  IInv'
BY ClaimJobPreserves, CheckReferencesPreserves, MarkThreadPreserves,
   DropThreadPreserves, RecordThreadPreserves, MarkContextPreserves,
   DropContextPreserves, RecordContextPreserves, JobSucceedPreserves,
   EndDeletionPreserves, JobFailPreserves, BlamePreserves, MarkErrorPreserves
   DEF DeletionStep

LEMMA StutterPreserves ==
    ASSUME IInv, UNCHANGED vars
    PROVE  IInv'
<1>1. /\ UNCHANGED <<session, refs, guard, run, lease, job, bound>>
      /\ UNCHANGED <<remote, pc, fresh, todo, crashed>>
  BY DEF vars, rows, local
<1>2. TypeOK' /\ OneAtATime'
  BY <1>1 DEF IInv, TypeOK, OneAtATime, Idle, Active
<1>3. \A r \in Runs : RunPlaced(r)' /\ RunOwns(r)' /\ RunPlans(r)'
  BY <1>1 DEF IInv, RunPlaced, RunOwns, RunPlans, Active, Expired, Open, Made
<1>4. \A t \in Titles : TitleInv(t)'
  BY <1>1 DEF IInv, TitleInv, Made
<1>5. \A d \in Deletes : DeletionInv(d)'
  BY <1>1 DEF IInv, DeletionInv, OnlyExpired, Expired
<1>6. LeaseInv' /\ RemoteInv'
  BY <1>1 DEF IInv, LeaseInv, RemoteInv, Live, Open, Exists, OnlyExpired, Expired
<1>7. Live' => LiveInv' /\ \A r \in Runs : RunKnows(r)'
  BY <1>1 DEF IInv, LiveInv, Live, Open, Exists, RunKnows, Made
<1> QED
  BY <1>2, <1>3, <1>4, <1>5, <1>6, <1>7 DEF IInv

LEMMA NextPreserves ==
    ASSUME ChatAssumption, IInv, [Next]_vars
    PROVE  IInv'
<1>1. ASSUME NEW r \in Runs, Reserve(r) \/ RunStep(r) \/ Emit(r) \/ RequestAbort(r) \/ Stall(r)
      PROVE  IInv'
  BY <1>1, ReservePreserves, RunStepPreserves, EmitPreserves, RequestAbortPreserves, StallPreserves
<1>2. ASSUME NEW t \in Titles, TitleRead(t) \/ TitleStep(t)
      PROVE  IInv'
  BY <1>2, TitleReadPreserves, TitleStepPreserves
<1>3. ASSUME NEW d \in Deletes, BeginDeletion(d) \/ DeletionStep(d)
      PROVE  IInv'
  BY <1>3, BeginDeletionPreserves, DeletionStepPreserves
<1> QED
  BY <1>1, <1>2, <1>3, AbortExpirePreserves, GuardLapsesPreserves, CrashPreserves, StutterPreserves
     DEF Next

LEMMA Invariance == Spec => []IInv
<1>1. Init => IInv
  BY ChatAssumption, InitIInv
<1>2. IInv /\ [Next]_vars => IInv'
  BY ChatAssumption, NextPreserves
<1> QED
  BY <1>1, <1>2, PTL DEF Spec

\* Every row, lease, job and place of a thread is one the code can write.
THEOREM ChatTypeOK == Spec => []TypeOK
<1>1. IInv => TypeOK
  BY DEF IInv
<1> QED
  BY <1>1, Invariance, PTL

\* A conversation never has two active runs, nor one beside a guard that holds, nor a run
\* or a title at work once a deletion has closed the session (reserve_chat_admission,
\* try_acquire_chat_run, begin_chat_deletion).
THEOREM ChatOneAtATime == Spec => []OneAtATime
<1>1. IInv => OneAtATime
  BY DEF IInv
<1> QED
  BY <1>1, Invariance, PTL

\* References and bindings that the next run goes on from lead to resources that exist and
\* are leased (_open_or_reuse_conversation, _attach_new_documents).
THEOREM ChatReferencesHold == Spec => []ReferencesHold
<1>1. IInv => ReferencesHold
  BY DEF IInv, ReferencesHold, Live, LiveInv
<1> QED
  BY <1>1, Invariance, PTL

\* Nothing remote is without an open lease, there is one workspace at most, and what is left
\* of a deleted chat was made by a run that had expired (begin, activate, RecordContext).
THEOREM ChatNothingForgotten == Spec => []NothingForgotten
<1>1. ASSUME IInv PROVE NothingForgotten
  <2> DEFINE makers == {t \in Threads : <<"workspace", t>> \in remote}
             owner  == lease["workspace"].by
  <2>1. \A t \in makers : t = owner
    BY <1>1 DEF IInv, RemoteInv
  <2>2. makers = {} \/ makers = {owner}
    BY <2>1
  <2>3. Cardinality(makers) <= 1
    <3> HIDE DEF makers, owner
    <3> QED
      BY <2>2, FS_EmptySet, FS_Singleton
  <2>4. /\ \A m \in remote : Open(m[1])
        /\ session = "deleted" => OnlyExpired
    BY <1>1 DEF IInv, RemoteInv
  <2> QED
    BY <2>3, <2>4 DEF NothingForgotten, OnlyExpired, Expired
<1> QED
  BY <1>1, Invariance, PTL

-------------------------------------------------------------------------------
(***************************************************************************)
(* Nothing waits for a thread that has gone.  The invariant says so of the *)
(* runs; a deletion that is not over, and a thread that died, are followed *)
(* from step to step.                                                      *)
(***************************************************************************)
Moved == \/ pc' = pc
         \/ \E t \in Threads : \E place : place \notin {"idle", "dead"} /\ Goto(t, place)

\* A step that begins or ends no deletion and is no crash.
GoesOn ==
    /\ Moved /\ crashed' = crashed
    /\ session' = "deleting" => session = "deleting"

LEMMA SomeoneMoved ==
    ASSUME NEW t \in Threads, NEW place, place \notin {"idle", "dead"}, Goto(t, place)
    PROVE  Moved
BY DEF Moved

LEMMA BreakMoved ==
    ASSUME NEW r \in Runs, Break(r)
    PROVE  Moved
BY DEF Moved, Break, Threads

LEMMA RunGoesOn ==
    ASSUME ChatAssumption, TypeOK, NEW r \in Runs, Reserve(r) \/ RunStep(r) \/ Emit(r)
    PROVE  GoesOn
<1>0. r \in Threads
  BY DEF Threads
<1>1. Refuse(r) => GoesOn
  BY <1>0, SomeoneMoved, BreakMoved DEF GoesOn, Refuse
<1>2. Accept(r) => GoesOn
  BY <1>0, SomeoneMoved, BreakMoved DEF GoesOn, Accept
<1>3. CloseEarly(r) => GoesOn
  BY <1>0, SomeoneMoved, BreakMoved DEF GoesOn, CloseEarly
<1>4. Start(r) => GoesOn
  BY <1>0, SomeoneMoved, BreakMoved DEF GoesOn, Start
<1>5. Enter(r) => GoesOn
  BY <1>0, SomeoneMoved, BreakMoved DEF GoesOn, Enter, rows
<1>6. ReadSession(r) => GoesOn
  BY <1>0, SomeoneMoved, BreakMoved DEF GoesOn, ReadSession, rows
<1>7. PlanWorkspace(r) => GoesOn
  BY <1>0, SomeoneMoved, BreakMoved DEF GoesOn, PlanWorkspace, PlanResource
<1>8. PlanThread(r) => GoesOn
  BY <1>0, SomeoneMoved, BreakMoved DEF GoesOn, PlanThread, PlanResource
<1>9. OpenConversation(r) => GoesOn
  BY <1>0, SomeoneMoved, BreakMoved DEF GoesOn, OpenConversation, rows
<1>10. GiveUpOpening(r) => GoesOn
  BY <1>0, SomeoneMoved, BreakMoved DEF GoesOn, GiveUpOpening
<1>11. ActivateWorkspace(r) => GoesOn
  BY <1>0, SomeoneMoved, BreakMoved DEF GoesOn, ActivateWorkspace, Activate
<1>12. ActivateThread(r) => GoesOn
  BY <1>0, SomeoneMoved, BreakMoved DEF GoesOn, ActivateThread, Activate
<1>13. UpdateRefs(r) => GoesOn
  BY <1>0, SomeoneMoved, BreakMoved DEF GoesOn, UpdateRefs
<1>14. ReadBindings(r) => GoesOn
  BY <1>0, SomeoneMoved, BreakMoved DEF GoesOn, ReadBindings, rows
<1>15. PlanDocument(r) => GoesOn
  BY <1>0, SomeoneMoved, BreakMoved DEF GoesOn, PlanDocument
<1>16. Attach(r) => GoesOn
  BY <1>0, SomeoneMoved, BreakMoved DEF GoesOn, Attach, rows
<1>17. BindDocument(r) => GoesOn
  BY <1>0, SomeoneMoved, BreakMoved DEF GoesOn, BindDocument, ChatAssumption, TypeOK, Places
<1>18. ActivateDocument(r) => GoesOn
  BY <1>0, SomeoneMoved, BreakMoved DEF GoesOn, ActivateDocument
<1>19. EndStream(r) => GoesOn
  BY <1>0, SomeoneMoved, BreakMoved DEF GoesOn, EndStream, rows
<1>20. Succeed(r) => GoesOn
  BY <1>0, SomeoneMoved, BreakMoved DEF GoesOn, Succeed, Settle
<1>21. Fail(r) => GoesOn
  BY <1>0, SomeoneMoved, BreakMoved DEF GoesOn, Fail, Settle
<1>22. StopRun(r) => GoesOn
  BY <1>0, SomeoneMoved, BreakMoved DEF GoesOn, StopRun, Settle
<1>23. Reserve(r) => GoesOn
  BY <1>0, SomeoneMoved DEF GoesOn, Reserve
<1>24. Emit(r) => GoesOn
  BY <1>0, SomeoneMoved DEF GoesOn, Emit, Moved
<1> QED
  BY <1>1, <1>2, <1>3, <1>4, <1>5, <1>6, <1>7, <1>8, <1>9, <1>10, <1>11, <1>12, <1>13, <1>14, <1>15, <1>16, <1>17, <1>18, <1>19, <1>20, <1>21, <1>22, <1>23, <1>24 DEF RunStep

LEMMA TitleGoesOn ==
    ASSUME NEW t \in Titles, TitleRead(t) \/ TitleStep(t)
    PROVE  GoesOn
<1>0. t \in Threads
  BY DEF Threads
<1>1. TitlePlan(t) => GoesOn
  BY <1>0, SomeoneMoved DEF GoesOn, TitlePlan
<1>2. TitleOpen(t) => GoesOn
  BY <1>0, SomeoneMoved DEF GoesOn, TitleOpen, rows
<1>3. TitleUndo(t) => GoesOn
  BY <1>0, SomeoneMoved DEF GoesOn, TitleUndo
<1>4. TitleActivate(t) => GoesOn
  BY <1>0, SomeoneMoved DEF GoesOn, TitleActivate
<1>5. TitleDelete(t) => GoesOn
  BY <1>0, SomeoneMoved DEF GoesOn, TitleDelete, rows
<1>6. TitleClose(t) => GoesOn
  BY <1>0, SomeoneMoved DEF GoesOn, TitleClose
<1>7. TitleDefer(t) => GoesOn
  BY <1>0, SomeoneMoved DEF GoesOn, TitleDefer
<1>8. TitleClaim(t) => GoesOn
  BY <1>0, SomeoneMoved DEF GoesOn, TitleClaim
<1>9. TitleRetry(t) => GoesOn
  BY <1>0, SomeoneMoved DEF GoesOn, TitleRetry
<1>10. TitleRedelete(t) => GoesOn
  BY <1>0, SomeoneMoved DEF GoesOn, TitleRedelete, rows
<1>11. TitleRecord(t) => GoesOn
  BY <1>0, SomeoneMoved DEF GoesOn, TitleRecord
<1>12. TitleRead(t) => GoesOn
  BY <1>0, SomeoneMoved DEF GoesOn, TitleRead, rows
<1> QED
  BY <1>1, <1>2, <1>3, <1>4, <1>5, <1>6, <1>7, <1>8, <1>9, <1>10, <1>11, <1>12 DEF TitleStep

LEMMA DeletionGoesOn ==
    ASSUME NEW d \in Deletes, DeletionStep(d)
    PROVE  GoesOn \/ EndDeletion(d) \/ MarkError(d)
<1>0. d \in Threads
  BY DEF Threads
<1>1. ClaimJob(d) => GoesOn
  BY <1>0, SomeoneMoved DEF GoesOn, ClaimJob
<1>2. CheckReferences(d) => GoesOn
  BY <1>0, SomeoneMoved DEF GoesOn, CheckReferences
<1>3. MarkThread(d) => GoesOn
  BY <1>0, SomeoneMoved DEF GoesOn, MarkThread
<1>4. DropThread(d) => GoesOn
  BY <1>0, SomeoneMoved DEF GoesOn, DropThread, rows
<1>5. RecordThread(d) => GoesOn
  BY <1>0, SomeoneMoved DEF GoesOn, RecordThread
<1>6. MarkContext(d) => GoesOn
  BY <1>0, SomeoneMoved DEF GoesOn, MarkContext
<1>7. DropContext(d) => GoesOn
  BY <1>0, SomeoneMoved DEF GoesOn, DropContext, rows
<1>8. RecordContext(d) => GoesOn
  BY <1>0, SomeoneMoved DEF GoesOn, RecordContext
<1>9. JobSucceed(d) => GoesOn
  BY <1>0, SomeoneMoved DEF GoesOn, JobSucceed
<1>10. JobFail(d) => GoesOn
  BY <1>0, SomeoneMoved DEF GoesOn, JobFail
<1>11. Blame(d) => GoesOn
  BY <1>0, SomeoneMoved DEF GoesOn, Moved, Blame
<1> QED
  BY <1>1, <1>2, <1>3, <1>4, <1>5, <1>6, <1>7, <1>8, <1>9, <1>10, <1>11 DEF DeletionStep

LEMMA AttendedKeeps ==
    ASSUME ChatAssumption, IInv, IInv', Attended, [Next]_vars
    PROVE  Attended'
<1>0. \A r \in Runs : Active(r)' => pc'[r] \notin {"idle", "guarded", "done"}
  BY DEF IInv, RunPlaced
<1>1. TypeOK /\ Deletes \subseteq Threads /\ pc \in [Threads -> Places \cup Docs]
  BY DEF IInv, TypeOK, Threads
<1>2. ASSUME GoesOn PROVE Attended'
  <2>1. /\ \A t \in Threads : pc[t] # "idle" => pc'[t] # "idle"
        /\ \A t \in Threads : pc[t] # "dead" => pc'[t] # "dead"
    BY <1>1, <1>2 DEF GoesOn, Moved, Goto
  <2> QED
    BY <1>0, <1>1, <1>2, <2>1 DEF Attended, GoesOn
<1>3. ASSUME NEW d \in Deletes, EndDeletion(d) \/ MarkError(d) PROVE Attended'
  <2>1. session' # "deleting" /\ crashed' = crashed /\ Goto(d, "idle")
    BY <1>3 DEF EndDeletion, MarkError
  <2>2. \A t \in Threads : pc[t] # "dead" => pc'[t] # "dead"
    BY <1>1, <2>1 DEF Goto
  <2> QED
    BY <1>0, <2>1, <2>2 DEF Attended
<1>4. ASSUME NEW d \in Deletes, BeginDeletion(d) PROVE Attended'
  <2>1. crashed' = crashed /\ pc' = [pc EXCEPT ![d] = "deleting"]
    BY <1>4 DEF BeginDeletion, Goto
  <2>2. pc'[d] # "idle" /\ \A t \in Threads : pc[t] # "dead" => pc'[t] # "dead"
    BY <1>1, <2>1
  <2> QED
    BY <1>0, <2>1, <2>2 DEF Attended
<1>5. ASSUME Crash PROVE Attended'
  <2>1. crashed' = TRUE /\ session' = session
    BY <1>5 DEF Crash, rows
  <2>2. \A t \in Threads : pc[t] # "idle" => pc'[t] # "idle"
    BY <1>5 DEF Crash
  <2> QED
    BY <1>0, <1>1, <2>1, <2>2 DEF Attended
<1>6. ASSUME UNCHANGED <<session, pc, crashed>> PROVE Attended'
  BY <1>0, <1>6 DEF Attended
<1>7. ASSUME NEW r \in Runs, Reserve(r) \/ RunStep(r) \/ Emit(r) \/ RequestAbort(r) \/ Stall(r)
      PROVE  Attended'
  <2>1. CASE RequestAbort(r) \/ Stall(r)
    BY <1>6, <2>1 DEF RequestAbort, Stall, local
  <2>2. CASE Reserve(r) \/ RunStep(r) \/ Emit(r)
    BY <1>1, <1>2, <2>2, RunGoesOn
  <2> QED
    BY <1>7, <2>1, <2>2
<1>8. ASSUME NEW t \in Titles, TitleRead(t) \/ TitleStep(t) PROVE Attended'
  BY <1>2, <1>8, TitleGoesOn
<1>9. ASSUME NEW d \in Deletes, BeginDeletion(d) \/ DeletionStep(d) PROVE Attended'
  BY <1>2, <1>3, <1>4, <1>9, DeletionGoesOn
<1>10. ASSUME AbortExpire \/ GuardLapses PROVE Attended'
  BY <1>6, <1>10 DEF AbortExpire, GuardLapses, local
<1>11. ASSUME UNCHANGED vars PROVE Attended'
  BY <1>6, <1>11 DEF vars, rows, local
<1> QED
  BY <1>5, <1>7, <1>8, <1>9, <1>10, <1>11 DEF Next

\* An accepted run has its thread until the verdict, and a session is deleting only while a
\* deletion has not ended, unless the process crashed (close_response,
\* ChatRunEventRecorder.record, _mark_session_cleanup_error).
THEOREM ChatAttended == Spec => []Attended
<1>1. Init => Attended
  BY DEF Init, Attended, Active, Threads
<1>2. IInv /\ IInv' /\ Attended /\ [Next]_vars => Attended'
  BY ChatAssumption, AttendedKeeps
<1> QED
  BY <1>1, <1>2, Invariance, PTL DEF Spec

-------------------------------------------------------------------------------
(***************************************************************************)
(* A verdict is passed once: who writes a run's row finds it active or     *)
(* leaves it as it is.                                                     *)
(***************************************************************************)
SameVerdicts == \A r \in Runs : run[r].status \in Verdicts => run'[r] = run[r]

LEMMA ExpireSpares ==
    ASSUME TypeOK, NEW q \in Runs, run[q].status \in Verdicts
    PROVE  ExpireStaleRuns[q] = run[q]
BY ExpireEffect DEF Active, Verdicts

LEMMA RowSpares ==
    ASSUME TypeOK, NEW r \in Runs, run[r].status \notin Verdicts \/ run' = run, NEW row,
           run' = run \/ run' = [run EXCEPT ![r] = row]
    PROVE  SameVerdicts
BY DEF TypeOK, SameVerdicts

LEMMA VerdictsKept ==
    ASSUME ChatAssumption, IInv, [Next]_vars
    PROVE  SameVerdicts
<1>0. TypeOK
  BY DEF IInv
<1>1. ASSUME run' = ExpireStaleRuns PROVE SameVerdicts
  BY <1>0, <1>1, ExpireSpares DEF SameVerdicts
<1>2. ASSUME run' = run PROVE SameVerdicts
  BY <1>2 DEF SameVerdicts
<1>3. ASSUME NEW r \in Runs, Reserve(r) PROVE SameVerdicts
  BY <1>1, <1>3 DEF Reserve
<1>4. ASSUME NEW r \in Runs, Accept(r) PROVE SameVerdicts
  <2> DEFINE runs == ExpireStaleRuns
  <2>1. run[r].status = "none" /\ runs \in [Runs -> RunRow]
    BY <1>0, <1>4, ExpireType DEF IInv, RunPlaced, Accept, At
  <2>2. run' = [runs EXCEPT ![r].status = "accepted", ![r].user = "pending"]
    BY <1>4 DEF Accept
  <2>3. \A q \in Runs : q # r => run'[q] = runs[q]
    <3> HIDE DEF runs
    <3> QED
      BY <2>1, <2>2
  <2> QED
    BY <1>0, <2>1, <2>3, ExpireSpares DEF SameVerdicts, Verdicts
<1>5. ASSUME NEW r \in Runs, CloseEarly(r) \/ Start(r) PROVE SameVerdicts
  <2>1. CASE run[r].status \in Verdicts
    <3>1. run' = run
      BY <1>0, <1>5, <2>1 DEF CloseEarly, Start, TypeOK, Verdicts
    <3> QED
      BY <1>2, <3>1
  <2>2. CASE run[r].status \notin Verdicts
    BY <1>0, <1>5, <2>2 DEF CloseEarly, Start, TypeOK, SameVerdicts
  <2> QED
    BY <2>1, <2>2
<1>6. ASSUME NEW r \in Runs, Succeed(r) \/ Fail(r) \/ StopRun(r) PROVE SameVerdicts
  <2>1. PICK verdict, event : Settle(r, verdict, event)
    BY <1>6 DEF Succeed, Fail, StopRun
  <2>2. CASE Active(r)
    BY <1>0, <2>1, <2>2 DEF Settle, TypeOK, SameVerdicts, Active, Verdicts
  <2>3. CASE ~Active(r)
    BY <1>0, <1>2, <2>1, <2>3 DEF Settle, TypeOK
  <2> QED
    BY <2>2, <2>3
<1>7. ASSUME NEW r \in Runs, Emit(r) \/ RequestAbort(r) \/ Stall(r) PROVE SameVerdicts
  <2>1. CASE Active(r)
    BY <1>0, <1>7, <2>1 DEF Emit, RequestAbort, Stall, TypeOK, SameVerdicts, Active, Verdicts
  <2>2. CASE ~Active(r)
    BY <1>2, <1>7, <2>2 DEF Emit, RequestAbort, Stall
  <2> QED
    BY <2>1, <2>2
<1>8. ASSUME NEW d \in Deletes, BeginDeletion(d) PROVE SameVerdicts
  BY <1>1, <1>8 DEF BeginDeletion
<1>9. ASSUME NEW r \in Runs, RunStep(r) PROVE SameVerdicts
  <2>1. CASE UNCHANGED run
    BY <1>2, <2>1
  <2>2. CASE ~UNCHANGED run
    <3>1. Accept(r) \/ CloseEarly(r) \/ Start(r) \/ Succeed(r) \/ Fail(r) \/ StopRun(r)
      BY <1>9, <2>2
         DEF RunStep, Refuse, Enter, ReadSession, PlanWorkspace, PlanThread, PlanResource,
             OpenConversation, GiveUpOpening, ActivateWorkspace, ActivateThread, Activate,
             UpdateRefs, ReadBindings, PlanDocument, Attach, BindDocument, ActivateDocument,
             EndStream, rows
    <3> QED
      BY <1>4, <1>5, <1>6, <3>1
  <2> QED
    BY <2>1, <2>2
<1>10. ASSUME NEW t \in Titles, TitleRead(t) \/ TitleStep(t) PROVE SameVerdicts
  <2>1. run' = run
    BY <1>10 DEF TitleRead, TitleStep, TitlePlan, TitleOpen, TitleUndo, TitleActivate, TitleDelete,
                TitleClose, TitleDefer, TitleClaim, TitleRetry, TitleRedelete, TitleRecord, rows
  <2> QED
    BY <1>2, <2>1
<1>11. ASSUME NEW d \in Deletes, DeletionStep(d) PROVE SameVerdicts
  <2>1. run' = run
    BY <1>11 DEF DeletionStep, ClaimJob, CheckReferences, MarkThread, DropThread, RecordThread,
                 MarkContext, DropContext, RecordContext, JobSucceed, EndDeletion, JobFail,
                 Blame, MarkError, rows
  <2> QED
    BY <1>2, <2>1
<1>12. ASSUME AbortExpire \/ GuardLapses \/ Crash \/ UNCHANGED vars PROVE SameVerdicts
  BY <1>1, <1>2, <1>12 DEF AbortExpire, GuardLapses, Crash, vars, rows
<1> QED
  BY <1>3, <1>7, <1>8, <1>9, <1>10, <1>11, <1>12 DEF Next

\* Once a run has its verdict, no step of the run, of an abort or of an admission that
\* expires stale runs changes its row, its messages or its terminal event
\* (_finish_run_with_user, _expire_stale_runs, discard_unstarted_run).
THEOREM ChatVerdictFinal == Spec => VerdictFinal
<1>1. IInv /\ [Next]_vars =>
          [\A r \in Runs : run[r].status \in Verdicts =>
               [run'[r] EXCEPT !.stale = FALSE] = [run[r] EXCEPT !.stale = FALSE]]_vars
  BY ChatAssumption, VerdictsKept DEF SameVerdicts
<1> QED
  BY <1>1, Invariance, PTL DEF Spec, VerdictFinal

===============================================================================
