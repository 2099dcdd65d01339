---------------------------- MODULE ReassignProofs ----------------------------
(***************************************************************************)
(* What holds of a reassignment for any number of recoverers, any set of   *)
(* scenes, and whether or not other programs change the document row.      *)
(***************************************************************************)
EXTENDS Reassign, TLAPS

(***************************************************************************)
(* The inductive invariant: the lease, the steps and the memberships.      *)
(***************************************************************************)
Undo  == {"undoTarget", "undoSource"}
Moves == {"detach", "attach"}
Ended == {"isolate", "out"} \cup Settled

\* Nothing is done before the operation is reserved.  Who is late follows from the
\* lease: after the first takeover only its owner is not.  The request alone may join
\* a lease that is not its own.
LeaseInv ==
    /\ op.status = "none" =>
          lease.owner = None /\ ~lease.expired /\ \A s \in Steps : step[s] = "pending"
    /\ late = IF lease.expired THEN Threads
              ELSE IF lease.owner \in Recoverers THEN Threads \ {lease.owner} ELSE {}
    /\ lease.holders \subseteq {lease.owner, Request}
    /\ lease.owner \notin Recoverers => \A r \in Recoverers : at[r].pc = "out"
    /\ lease.owner = None => lease.holders = {} /\ at[Request].pc \in {"idle", "out"}

\* What has been undone was done and resolved before; a step no scene calls for is
\* never begun.
StepInv ==
    /\ \A s \in Undo : step[s] # "pending" => \A m \in Moves : step[m] \notin Open
    /\ step["undoTarget"] # "pending" => step["attach"] \in Good
    /\ step["undoSource"] # "pending" \/ step["detach"] # "pending" => scene.source
    /\ step["attach"] # "pending" => scene.remote

\* The document is where the steps say it may be.
MemberInv ==
    /\ EffectKnown
    /\ member.target => workspace
    /\ member.source => scene.source
    /\ member.source /\ ~scene.member => step["undoSource"] # "pending"

\* The local row and the verdict are written at once.
RowInv ==
    /\ row = "target" => op.status = "succeeded"
    /\ op.status = "succeeded" => lease.owner = Request

(***************************************************************************)
(* The request.                                                            *)
(***************************************************************************)
Forward == /\ at[Request].goal = "none"
           /\ at[Request].pc \in {"reserved", "claiming", "renewing", "begin", "call",
                "complete", "create", "mapping", "fact", "unprepared", "commit",
                "reconcile", "give up"}
Undoing == at[Request].goal = "compensated"

\* What the port may answer to a mutation.
Answered(t) == at[t].pc = "complete" => at[t].got \in Good \cup {"failed", "unknown"}

RequestPlaced ==
    LET a == at[Request]
    IN  /\ \/ a.goal = "none" /\ a.todo = {}
              /\ a.pc \in {"idle", "reserved", "claiming", "reconcile", "give up",
                           "compensate"} \cup Ended
           \/ /\ a.goal = "none" /\ a.pc \in {"renewing", "begin"}
              /\ a.todo \in {{"detach"}, {"prepare"}, {"attach"}, {"commit"}}
           \/ /\ a.goal = "none" /\ a.pc \in {"call", "complete"}
              /\ a.todo \in {{"detach"}, {"attach"}}
           \/ /\ a.goal = "none" /\ a.pc \in {"create", "mapping", "fact", "unprepared"}
              /\ a.todo = {"prepare"}
           \/ a.goal = "none" /\ a.pc = "commit" /\ a.todo = {"commit"}
           \/ /\ a.goal = "compensated" /\ a.pc \in {"entering", "reread"}
              /\ a.todo \subseteq Undo
           \/ /\ a.goal = "compensated" /\ a.pc \in {"renewing", "begin", "call", "complete"}
              /\ a.todo \subseteq Undo /\ a.todo # {}
           \/ /\ a.goal = "compensated" /\ a.pc \in {"recheck", "note", "finalize"}
              /\ a.todo = {}
        /\ a.seen.row = "source"
        /\ a.pc \in {"mapping", "fact"} => a.got \in {"created", "preexisting", "unowned"}
        /\ a.pc = "unprepared" => a.got \in {"failed", "unknown"}

\* What the scene calls for, and the workspace that was prepared.
RequestCalledFor ==
    LET a == at[Request]
    IN  /\ "detach" \in a.todo \/ "undoSource" \in a.todo => scene.source
        /\ a.pc = "claiming" \/ "prepare" \in a.todo \/ "attach" \in a.todo => scene.remote
        /\ "attach" \in a.todo \/ a.pc = "mapping" => workspace

\* A lease that is not its own is of no use to it on the way forward, and a mutation
\* to undo another needs the lease for itself.
RequestHolds ==
    Request \in lease.holders =>
        /\ lease.owner # Request => ~Forward
        /\ Undoing /\ at[Request].pc \in {"begin", "call", "complete"} =>
              lease.holders = {Request}

\* It is the request that leaves a step of its way forward open.
RequestOpens ==
    /\ step["attach"] \in Open =>
          at[Request].todo = {"attach"} \/ at[Request].pc \in Ended
    /\ step["detach"] \in Open =>
          at[Request].todo = {"detach"} \/ at[Request].pc \in Ended \cup {"give up"}

\* Neither mutation has succeeded where it still may give up.
Early == at[Request].pc \in {"reserved", "claiming", "give up"} \/ at[Request].todo = {"detach"}

\* On the way forward nothing was undone, and what succeeded is so.
RequestForward ==
    Forward /\ lease.owner = Request =>
        /\ \A s \in Undo : step[s] = "pending"
        /\ step["attach"] \in Good => member.target
        /\ step["detach"] \in Good => ~member.source
        /\ Early => \A s \in Moves : step[s] \notin Good
        /\ \A s \in Moves : at[Request].todo = {s} =>
              /\ at[Request].pc = "call" => step[s] = "started"
              /\ at[Request].pc = "complete" /\ at[Request].got \in Good =>
                    member[Side(s)] = Desired(s)
              /\ at[Request].pc = "complete" /\ at[Request].got = "failed" =>
                    member[Side(s)] # Desired(s)

\* On the way back what is not left to undo is undone and resolved.
RequestBack ==
    Undoing =>
        /\ "undoTarget" \notin at[Request].todo => ~member.target
        /\ "undoSource" \notin at[Request].todo => (scene.source => member.source)
        /\ "undoTarget" \in at[Request].todo => step["attach"] \in Good
        /\ \A s \in Undo \ at[Request].todo : step[s] \notin Open
        /\ at[Request].pc = "call" => step[Current(Request)] # "pending"
        /\ at[Request].pc = "complete" /\ at[Request].got \in Good =>
              member[Side(Current(Request))] = Desired(Current(Request))

RequestInv == /\ RequestPlaced /\ Answered(Request) /\ RequestCalledFor /\ RequestHolds
              /\ RequestOpens /\ RequestForward /\ RequestBack

(***************************************************************************)
(* A recoverer.                                                            *)
(***************************************************************************)
Mutating == {"begin", "begun", "call", "complete", "look again"}
Sighted  == {"prepared?", "target undone?", "source undone?", "facts", "decide", "enter",
             "finalize"}

RecovererPlaced(r) ==
    LET a == at[r]
    IN  /\ \/ a.pc \in Ended \cup {"taken"}
           \/ a.pc = "verify" /\ a.goal \in {"compensated", "failed"}
           \/ a.pc = "look" /\ a.goal = "none" /\ a.todo = {} /\ scene.remote
           \/ /\ a.pc = "note" /\ a.goal = "none" /\ a.todo = {}
              /\ a.seen.row = "other" \/ scene.remote
           \/ /\ a.pc \in {"prepared?", "target undone?", "source undone?", "decide"}
              /\ a.goal = "none" /\ a.todo = {} /\ scene.remote
           \/ /\ a.pc = "facts" /\ a.goal = "none" /\ a.todo # {}
              /\ a.todo \subseteq Moves \cup {"commit"}
              /\ ~scene.remote => a.todo = {"commit"}
           \/ a.pc = "enter" /\ a.goal = "compensated" /\ a.todo \subseteq Undo /\ scene.remote
           \/ /\ a.pc \in Mutating /\ a.goal = "compensated" /\ a.todo \subseteq Undo
              /\ a.todo # {} /\ scene.remote
           \/ a.pc = "note" /\ a.goal = "compensated" /\ a.todo = {} /\ scene.remote
           \/ a.pc = "note" /\ a.goal = "failed" /\ a.todo = {} /\ ~scene.remote
           \/ a.pc = "finalize" /\ a.goal = "compensated" /\ a.todo = {} /\ scene.remote
           \/ a.pc = "finalize" /\ a.goal = "failed" /\ a.todo = {}
        /\ a.seen.row # "target"
        /\ a.pc \in Sighted \cup Mutating => a.seen.row = "source"

\* Where it relies on what it has seen of the document, it has seen the truth.
LookHolds(r) ==
    r \notin late /\ at[r].pc \in Sighted \cup {"note"} =>
        /\ at[r].look["target"] = "present" => member.target
        /\ at[r].look["target"] = "absent" => ~member.target
        /\ at[r].look["source"] = "present" => member.source
        /\ at[r].look["source"] = "absent" => scene.source /\ ~member.source
        /\ at[r].look["source"] = "none" => ~scene.source \/ at[r].seen.row = "other"
        /\ at[r].look["target"] = "none" => ~scene.remote \/ at[r].seen.row = "other"

\* It undoes only what is to be undone.
Needed(r) ==
    r \notin late =>
        /\ at[r].pc \in {"enter", "begin", "begun", "call"} =>
              /\ "undoTarget" \in at[r].todo => member.target
              /\ "undoSource" \in at[r].todo => scene.source /\ ~member.source
        /\ at[r].pc \in {"complete", "look again"} /\ Undo \subseteq at[r].todo =>
              scene.source /\ ~member.source

\* The steps of the way forward are resolved before anything is decided.
Decided(r) == \/ at[r].pc \in {"decide", "enter"} \cup Mutating
              \/ at[r].pc \in {"note", "finalize"} /\ at[r].goal # "none"
Resolved(r) ==
    /\ at[r].pc = "facts" =>
          \A s \in Moves \ at[r].todo :
              /\ step[s] \notin Open
              /\ scene.remote => at[r].look[Side(s)] # "unknown"
    /\ Decided(r) => \A s \in Moves : step[s] \notin Open
    /\ at[r].pc = "decide" => \A s \in Moves : at[r].look[Side(s)] # "unknown"
    /\ at[r].pc \in {"begun", "call"} => step[Current(r)] # "pending"

\* While it holds the lease no step of the way back is open, but the one it is at.
Alone(r) ==
    r \in lease.holders /\ ~lease.expired =>
        /\ at[r].pc = "source undone?" => step["undoTarget"] \notin Open
        /\ at[r].pc = "facts" \/ Decided(r) =>
              \A s \in Undo : step[s] \in Open =>
                  at[r].pc \in {"begun", "call", "complete"} /\ s = Current(r)
        /\ \/ at[r].pc \in {"facts", "decide"} /\ scene.remote /\ Restored(at[r].look)
           \/ at[r].pc = "finalize" /\ at[r].goal = "failed"
           => \A s \in Undo : step[s] = "pending"

RecovererInv(r) == /\ RecovererPlaced(r) /\ Answered(r) /\ LookHolds(r) /\ Needed(r)
                   /\ Resolved(r) /\ Alone(r)

(***************************************************************************)
(* A settled operation.                                                    *)
(***************************************************************************)

\* Nobody is left to mutate anything when the verdict is passed, but to repeat what
\* has been undone.
Calm ==
    op.status \in {"succeeded", "failed"} => \A t \in Threads \ late : at[t].pc # "call"

\* A request that settled the operation itself goes nowhere but to its answer.
Answering ==
    op.status \in Settled /\ lease.owner = Request =>
        /\ at[Request].pc \in {"reconcile", "compensate"} \cup Ended
        /\ at[Request].pc = "compensate" => row = "target"
        /\ at[Request].pc = "reconcile" =>
              op.status = "succeeded" /\ at[Request].got # "conflict"

SettledInv == VerdictTrue /\ AnswerIsVerdict /\ SettledMeansResolved /\ Calm /\ Answering

IInv == /\ TypeOK /\ LeaseInv /\ StepInv /\ MemberInv /\ RowInv /\ SettledInv
        /\ RequestInv /\ \A r \in Recoverers : RecovererInv(r)

-------------------------------------------------------------------------------
(***************************************************************************)
(* The rows, and where a thread may be.                                    *)
(***************************************************************************)
Statuses  == {"none"} \cup Protecting \cup Settled
Ownership == {"none", "created", "preexisting", "unowned"}
Rows      == {"source", "target", "other"}
Things    == {"workspace", "source", "target"}
Sights    == {"present", "absent", "unknown", "none"}
StepState == {"pending", "failed"} \cup Good \cup Open

OpRow    == [status : Statuses, target : Ownership, newer : BOOLEAN]
LeaseRow == [owner : Threads \cup {None}, holders : SUBSET Threads, expired : BOOLEAN]
SeenRow  == [status : Statuses, target : Ownership, row : Rows]
GotKinds == {"none", "failed", "conflict", "created", "preexisting", "unowned"}
               \cup Good \cup Open
Goals    == {"none"} \cup Settled
Shape    == [pc   : Places, todo : SUBSET Steps, got : GotKinds, goal : Goals,
             seen : SeenRow, look : [Things -> Sights]]

LEMMA Types ==
    TypeOK <=> /\ scene \in Scenes /\ op \in OpRow /\ lease \in LeaseRow
               /\ step \in [Steps -> StepState] /\ tried \subseteq Steps
               /\ observer \in Threads \cup {None} /\ row \in Rows
               /\ member \in [source : BOOLEAN, target : BOOLEAN] /\ workspace \in BOOLEAN
               /\ at \in [Threads -> Shape] /\ late \subseteq Threads
BY DEF TypeOK, OpRow, LeaseRow, StepState, Rows, Shape, SeenRow, GotKinds, Goals, Things, Sights,
       Statuses, Ownership

LEMMA Scenery ==
    ASSUME TypeOK
    PROVE  /\ scene.remote \in BOOLEAN /\ scene.source \in BOOLEAN /\ scene.mapping \in BOOLEAN
           /\ scene.member \in BOOLEAN /\ scene.exists \in BOOLEAN
           /\ scene.source \/ scene.mapping => scene.remote
           /\ scene.member => scene.source
BY ReassignAssumption DEF TypeOK

LEMMA Who ==
    /\ Request \in Threads /\ Request \notin Recoverers /\ Recoverers \subseteq Threads
    /\ None \notin Threads /\ None \notin Recoverers /\ None # Request
    /\ \A t \in Threads : t # Request <=> t \in Recoverers
BY ReassignAssumption DEF Threads

\* A thread has moved: the others are where they were.
Moved(t) ==
    /\ at' \in [Threads -> Shape]
    /\ \A u \in Threads \ {t} : at'[u] = at[u]

LEMMA Puts ==
    ASSUME TypeOK, NEW t \in Threads, NEW to \in Shape, Put(t, to)
    PROVE  Moved(t) /\ at'[t] = to
BY Types DEF Put, Moved

\* One thing remembered anew.
LEMMA SeenFields ==
    ASSUME NEW a \in Shape, NEW seen \in SeenRow, NEW b, b = [a EXCEPT !.seen = seen]
    PROVE  /\ b \in Shape /\ b.pc = a.pc /\ b.todo = a.todo /\ b.got = a.got
           /\ b.goal = a.goal /\ b.seen = seen /\ b.look = a.look
BY DEF Shape

LEMMA TodoFields ==
    ASSUME NEW a \in Shape, NEW todo, todo \subseteq Steps, NEW b, b = [a EXCEPT !.todo = todo]
    PROVE  /\ b \in Shape /\ b.pc = a.pc /\ b.todo = todo /\ b.got = a.got
           /\ b.goal = a.goal /\ b.seen = a.seen /\ b.look = a.look
BY DEF Shape

LEMMA GoalFields ==
    ASSUME NEW a \in Shape, NEW goal \in Goals, NEW b, b = [a EXCEPT !.goal = goal]
    PROVE  /\ b \in Shape /\ b.pc = a.pc /\ b.todo = a.todo /\ b.got = a.got
           /\ b.goal = goal /\ b.seen = a.seen /\ b.look = a.look
BY DEF Shape

LEMMA GotFields ==
    ASSUME NEW a \in Shape, NEW got \in GotKinds, NEW b, b = [a EXCEPT !.got = got]
    PROVE  /\ b \in Shape /\ b.pc = a.pc /\ b.todo = a.todo /\ b.got = got
           /\ b.goal = a.goal /\ b.seen = a.seen /\ b.look = a.look
BY DEF Shape

LEMMA LookFields ==
    ASSUME NEW a \in Shape, NEW look \in [Things -> Sights], NEW b, b = [a EXCEPT !.look = look]
    PROVE  /\ b \in Shape /\ b.pc = a.pc /\ b.todo = a.todo /\ b.got = a.got
           /\ b.goal = a.goal /\ b.seen = a.seen /\ b.look = look
BY DEF Shape

LEMMA GoFields ==
    ASSUME NEW a \in Shape, NEW place \in Places, NEW b, b = [a EXCEPT !.pc = place]
    PROVE  /\ b \in Shape /\ b.pc = place /\ b.todo = a.todo /\ b.got = a.got
           /\ b.goal = a.goal /\ b.seen = a.seen /\ b.look = a.look
BY DEF Shape

\* What a thread remembers, at another place.
Going(t, place) ==
    /\ at'[t].pc = place /\ at'[t].todo = at[t].todo /\ at'[t].got = at[t].got
    /\ at'[t].goal = at[t].goal /\ at'[t].seen = at[t].seen /\ at'[t].look = at[t].look

LEMMA Fields ==
    ASSUME TypeOK, NEW t \in Threads
    PROVE  /\ at[t] \in Shape
           /\ at[t].pc \in Places /\ at[t].todo \subseteq Steps /\ at[t].got \in GotKinds
           /\ at[t].goal \in Goals /\ at[t].seen \in SeenRow /\ at[t].look \in [Things -> Sights]
BY Types DEF Shape

LEMMA GoIs ==
    ASSUME TypeOK, NEW t \in Threads, NEW place \in Places
    PROVE  /\ Go(t, place) \in Shape
           /\ Go(t, place).pc = place /\ Go(t, place).todo = at[t].todo
           /\ Go(t, place).got = at[t].got /\ Go(t, place).goal = at[t].goal
           /\ Go(t, place).seen = at[t].seen /\ Go(t, place).look = at[t].look
<1>1. at[t] \in Shape
  BY Fields
<1> QED
  BY <1>1 DEF Go, Shape

LEMMA Goes ==
    ASSUME TypeOK, NEW t \in Threads, NEW place \in Places, Put(t, Go(t, place))
    PROVE  Moved(t) /\ Going(t, place)
<1>1. Moved(t) /\ at'[t] = Go(t, place)
  BY GoIs, Puts
<1> QED
  BY <1>1, GoIs DEF Going

\* A thread that remembers nothing.
Anew(t, place) ==
    /\ at'[t].pc = place /\ at'[t].todo = {} /\ at'[t].got = "none" /\ at'[t].goal = "none"
    /\ at'[t].seen.row = "source"

LEMMA BlankShape ==
    /\ Blank \in Shape
    /\ Blank.pc = "idle" /\ Blank.todo = {} /\ Blank.got = "none" /\ Blank.goal = "none"
    /\ Blank.seen.row = "source"
    /\ \A x \in Things : Blank.look[x] = "none"
<1>1. [x \in {"workspace", "source", "target"} |-> "none"] \in [Things -> Sights]
  BY DEF Things, Sights
<1>2. [status |-> "none", target |-> "none", row |-> "source"] \in SeenRow
  BY DEF SeenRow, Statuses, Ownership, Rows
<1> QED
  BY <1>1, <1>2 DEF Blank, Shape, Places, GotKinds, Goals, Things

LEMMA EndShape ==
    ASSUME NEW place \in Places
    PROVE  /\ End(place) \in Shape
           /\ End(place).pc = place /\ End(place).todo = {} /\ End(place).got = "none"
           /\ End(place).goal = "none" /\ End(place).seen.row = "source"
           /\ \A x \in Things : End(place).look[x] = "none"
<1>1. Blank \in Shape
  BY BlankShape
<1> QED
  BY <1>1, BlankShape DEF End, Shape

LEMMA Ends ==
    ASSUME TypeOK, NEW t \in Threads, NEW place \in Places, Put(t, End(place))
    PROVE  Moved(t) /\ Anew(t, place)
<1>1. Moved(t) /\ at'[t] = End(place)
  BY EndShape, Puts
<1> QED
  BY <1>1, EndShape DEF Anew

LEMMA CurrentOne ==
    ASSUME NEW t, NEW s \in Steps, at[t].todo = {s}
    PROVE  Current(t) = s
<1>1. \E x \in at[t].todo : x = s /\ (x \in {"detach", "undoTarget", "prepare"}
                                        \/ x \in {"attach", "commit", "undoSource"})
  BY DEF Steps, Mutations
<1> QED
  BY <1>1 DEF Current

LEMMA CurrentUndo ==
    ASSUME NEW t, at[t].todo \subseteq Undo, at[t].todo # {}
    PROVE  /\ Current(t) \in at[t].todo
           /\ Current(t) = "undoTarget" \/ (Current(t) = "undoSource" /\ at[t].todo = {"undoSource"})
<1>1. CASE "undoTarget" \in at[t].todo
  <2> DEFINE C(s) == \/ s \in {"detach", "undoTarget", "prepare"}
                     \/ s = "attach" /\ s \in at[t].todo /\ at[t].todo \cap {"detach"} = {}
                     \/ s = "commit" /\ s \in at[t].todo /\ at[t].todo \cap {"detach", "attach"} = {}
                     \/ s = "undoSource" /\ s \in at[t].todo /\ at[t].todo \cap {"undoTarget"} = {}
  <2>1. C("undoTarget")
    OBVIOUS
  <2>2. Current(t) = CHOOSE s \in at[t].todo : C(s)
    BY DEF Current
  <2>3. Current(t) \in at[t].todo /\ C(Current(t))
    BY <1>1, <2>1, <2>2
  <2>4. Current(t) # "undoSource"
    BY <1>1, <2>3
  <2>5. Current(t) \in Undo
    BY <2>3
  <2> QED
    BY <2>3, <2>4, <2>5 DEF Undo
<1>2. CASE "undoTarget" \notin at[t].todo
  <2>1. at[t].todo = {"undoSource"}
    BY <1>2 DEF Undo
  <2> QED
    BY <2>1, CurrentOne DEF Steps, Mutations
<1> QED
  BY <1>1, <1>2

LEMMA CurrentFact ==
    ASSUME NEW t, at[t].todo \subseteq Moves \cup {"commit"}, at[t].todo # {}
    PROVE  Current(t) \in at[t].todo
<1> DEFINE C(s) == \/ s \in {"detach", "undoTarget", "prepare"}
                   \/ s = "attach" /\ s \in at[t].todo /\ at[t].todo \cap {"detach"} = {}
                   \/ s = "commit" /\ s \in at[t].todo /\ at[t].todo \cap {"detach", "attach"} = {}
                   \/ s = "undoSource" /\ s \in at[t].todo /\ at[t].todo \cap {"undoTarget"} = {}
<1>1. \E s \in at[t].todo : C(s)
  <2>1. CASE "detach" \in at[t].todo
    BY <2>1
  <2>2. CASE "detach" \notin at[t].todo /\ "attach" \in at[t].todo
    BY <2>2
  <2>3. CASE "detach" \notin at[t].todo /\ "attach" \notin at[t].todo
    BY <2>3 DEF Moves
  <2> QED
    BY <2>1, <2>2, <2>3
<1>2. Current(t) = CHOOSE s \in at[t].todo : C(s)
  BY DEF Current
<1> QED
  BY <1>1, <1>2

-------------------------------------------------------------------------------
(***************************************************************************)
(* What the lease says of who may do anything.                             *)
(***************************************************************************)

\* A recoverer that is at anything, a request that is at anything in time, and a
\* request that may write on its way forward.
LEMMA Busy ==
    ASSUME TypeOK, LeaseInv, NEW r \in Recoverers, at[r].pc # "out"
    PROVE  lease.owner \in Recoverers /\ lease.owner # Request
BY Who DEF LeaseInv

LEMMA InTime ==
    ASSUME TypeOK, LeaseInv, NEW r \in Recoverers, at[r].pc # "out", r \notin late
    PROVE  lease.owner = r /\ ~lease.expired /\ late = Threads \ {r}
<1>1. lease.owner \in Recoverers /\ r \in Threads
  BY Busy, Who
<1> QED
  BY <1>1 DEF LeaseInv

LEMMA Owning ==
    ASSUME TypeOK, LeaseInv, NEW r \in Recoverers, Owns(r)
    PROVE  /\ lease.owner = r /\ ~lease.expired /\ r \notin late /\ late = Threads \ {r}
           /\ r \in lease.holders /\ op.status \in Protecting
<1>1. lease.owner = r
  BY Who DEF LeaseInv, Owns
<1> QED
  BY <1>1, Who DEF LeaseInv, Owns

LEMMA RequestInTime ==
    ASSUME TypeOK, LeaseInv, at[Request].pc \notin {"idle", "out"}, Request \notin late
    PROVE  /\ lease.owner = Request /\ ~lease.expired /\ late = {}
           /\ \A r \in Recoverers : at[r].pc = "out"
<1>1. ~lease.expired /\ lease.owner \notin Recoverers
  BY Who DEF LeaseInv
<1>2. lease.owner \in Threads \cup {None}
  BY Types DEF LeaseRow
<1>3. lease.owner = Request
  BY <1>1, <1>2, Who DEF LeaseInv
<1> QED
  BY <1>1, <1>3, Who DEF LeaseInv

LEMMA RequestOwning ==
    ASSUME TypeOK, LeaseInv, RequestHolds, Forward, Owns(Request)
    PROVE  /\ lease.owner = Request /\ ~lease.expired /\ late = {}
           /\ \A r \in Recoverers : at[r].pc = "out"
<1>1. lease.owner = Request /\ ~lease.expired
  BY DEF RequestHolds, Owns
<1> QED
  BY <1>1, Who DEF LeaseInv

LEMMA OwningProtects ==
    ASSUME NEW t, Owns(t)
    PROVE  op.status \in Protecting /\ op.status \notin Settled /\ op.status # "none"
BY DEF Owns, Protecting, Settled

-------------------------------------------------------------------------------
(***************************************************************************)
(* What a step of a thread does to everything but its place.               *)
(***************************************************************************)

\* It writes down what binds nobody, or moves the operation on among the protecting
\* statuses.
Rests(t) ==
    /\ scene' = scene /\ lease' = lease /\ step' = step /\ row' = row
    /\ member' = member /\ workspace' = workspace /\ late' = late
    /\ op' \in OpRow /\ tried' \subseteq Steps /\ observer' \in Threads \cup {None}
    /\ op'.status # op.status => Owns(t) /\ op'.status \in Protecting

Idles == /\ UNCHANGED <<scene, op, lease, step, tried, observer, row, member, workspace, late>>

\* It makes the lease its own, or joins it.
Leases(t) ==
    /\ scene' = scene /\ op' = op /\ step' = step /\ row' = row
    /\ member' = member /\ workspace' = workspace /\ late' = late
    /\ tried' = tried /\ observer' = observer
    /\ lease' \in LeaseRow /\ lease'.owner = lease.owner /\ lease'.expired = lease.expired

Extends(t) == Leases(t) /\ Owns(t) /\ lease'.holders = {t}
Adopts     == Leases(Request) /\ lease'.holders = lease.holders \cup {Request}

\* It takes the lease over.
Seizes(t) ==
    /\ scene' = scene /\ step' = step /\ row' = row
    /\ member' = member /\ workspace' = workspace /\ late' = late \ {t}
    /\ op' \in OpRow /\ tried' = {} /\ observer' = None
    /\ op'.status = op.status /\ op.status \in Protecting
    /\ lease.expired /\ lease' = [owner |-> t, holders |-> {t}, expired |-> FALSE]

\* It writes a step.
Writes(t, s, v) ==
    /\ Owns(t)
    /\ s \in Steps /\ v \in StepState \ {"pending"} /\ step[s] \notin Good
    /\ step' \in [Steps -> StepState] /\ step'[s] = v
    /\ \A x \in Steps \ {s} : step'[x] = step[x]
    /\ scene' = scene /\ lease' = lease /\ row' = row
    /\ member' = member /\ workspace' = workspace /\ late' = late
    /\ op' \in OpRow /\ op'.status = op.status
    /\ tried' \subseteq Steps /\ observer' = observer

\* It settles the operation.
Settles(t, verdict) ==
    /\ Owns(t) /\ verdict \in Settled
    /\ scene' = scene /\ lease' = lease
    /\ member' = member /\ workspace' = workspace /\ late' = late
    /\ op' \in OpRow /\ op'.status = verdict
    /\ tried' = tried /\ observer' = observer
    /\ row' \in Rows /\ step' \in [Steps -> StepState]
    /\ \A x \in Steps \ {"commit"} : step'[x] = step[x]
    /\ step'["commit"] # step["commit"] \/ row' # row => verdict = "succeeded"

LEMMA Transitions ==
    ASSUME TypeOK, NEW t \in Threads, NEW status \in Protecting, Transition(t, status),
           UNCHANGED <<scene, remote, late>>
    PROVE  Rests(t)
BY Types DEF Transition, Rests, remote, OpRow, Statuses

LEMMA Extending ==
    ASSUME TypeOK, NEW t \in Threads, Extend(t), UNCHANGED <<scene, remote, late>>
    PROVE  Extends(t)
BY Types DEF Extend, Extends, Leases, remote, LeaseRow

LEMMA Observing ==
    ASSUME TypeOK, NEW t \in Threads, Observe(t), UNCHANGED <<scene, remote, late>>
    PROVE  Rests(t)
BY Types DEF Observe, Rests, remote

LEMMA Facts ==
    ASSUME TypeOK, NEW t \in Threads, NEW ownership \in Ownership, RecordFact(t, ownership),
           UNCHANGED <<scene, remote, late>>
    PROVE  Rests(t)
BY Types DEF RecordFact, Rests, remote, OpRow

LEMMA Starting ==
    ASSUME TypeOK, NEW t \in Threads, NEW s \in Steps, StartStep(t, s),
           UNCHANGED <<scene, remote, late>>
    PROVE  Writes(t, s, "started") /\ step[s] \in {"pending", "failed"}
BY Types DEF StartStep, Writes, remote, StepState, Open, Good

LEMMA Setting ==
    ASSUME TypeOK, NEW t \in Threads, NEW s \in Steps, NEW v \in Good \cup Open \cup {"failed"},
           SetStep(t, s, v), UNCHANGED <<scene, remote, late>>
    PROVE  Writes(t, s, v) /\ step[s] \in Open
BY Types DEF SetStep, Writes, remote, StepState, Open, Good

LEMMA Finishing ==
    ASSUME TypeOK, NEW t \in Threads, NEW goal \in Settled, Finish(t, goal),
           UNCHANGED <<scene, remote, late>>
    PROVE  Settles(t, goal) /\ row' = row /\ step' = step
BY Types DEF Finish, Settles, remote, OpRow, Statuses

LEMMA Failing ==
    ASSUME TypeOK, NEW t \in Threads, FailCleanly(t), UNCHANGED <<scene, remote, late>>
    PROVE  Settles(t, "failed") /\ row' = row /\ step' = step
BY Types DEF FailCleanly, Settles, remote, OpRow, Statuses, Settled

LEMMA Committing ==
    ASSUME TypeOK, NEW t \in Threads, CommitRow(t), UNCHANGED <<scene, remote, late>>
    PROVE  Settles(t, "succeeded") /\ row' = "target"
BY Types DEF CommitRow, Settles, remote, OpRow, Statuses, Settled, Rows, StepState, Good

LEMMA Conflicting ==
    ASSUME TypeOK, NEW t \in Threads, CommitConflict(t), UNCHANGED <<scene, remote, late>>
    PROVE  Writes(t, "commit", "failed")
BY Types DEF CommitConflict, Writes, remote, StepState, Good, Open, Steps

LEMMA RecordingMapping ==
    ASSUME TypeOK, NEW t \in Threads, NEW ownership \in Ownership, RecordMapping(t, ownership),
           UNCHANGED <<scene, remote, late>>
    PROVE  \E v \in Good : Writes(t, "prepare", v)
<1> DEFINE v == IF ownership = "created" THEN "done" ELSE "already"
<1>1. v \in Good
  BY DEF Good
<1>2. Writes(t, "prepare", v)
  BY <1>1, Types DEF RecordMapping, Writes, remote, StepState, Good, Open, Steps, OpRow
<1> QED
  BY <1>1, <1>2

LEMMA Seizing ==
    ASSUME TypeOK, NEW t \in Threads, Seize(t), late' = late \ {t}, UNCHANGED <<scene, remote>>
    PROVE  Seizes(t)
BY Types DEF Seize, Seizes, remote, OpRow

-------------------------------------------------------------------------------
(***************************************************************************)
(* What a thread may rely on while others move.                            *)
(***************************************************************************)
LEMMA TypesNext ==
    TypeOK' <=> /\ scene' \in Scenes /\ op' \in OpRow /\ lease' \in LeaseRow
                /\ step' \in [Steps -> StepState] /\ tried' \subseteq Steps
                /\ observer' \in Threads \cup {None} /\ row' \in Rows
                /\ member' \in [source : BOOLEAN, target : BOOLEAN] /\ workspace' \in BOOLEAN
                /\ at' \in [Threads -> Shape] /\ late' \subseteq Threads
BY DEF TypeOK, OpRow, LeaseRow, StepState, Rows, Shape, SeenRow, GotKinds, Goals, Things, Sights,
       Statuses, Ownership

LEMMA CurrentSame ==
    ASSUME NEW t, at'[t].todo = at[t].todo
    PROVE  Current(t)' = Current(t)
BY DEF Current

LEMMA Sides ==
    /\ Side("detach") = "source" /\ Side("undoSource") = "source"
    /\ Side("attach") = "target" /\ Side("undoTarget") = "target"
    /\ Desired("detach") = FALSE /\ Desired("undoTarget") = FALSE
    /\ Desired("attach") = TRUE /\ Desired("undoSource") = TRUE
BY DEF Side, Desired

\* Nothing that a recoverer counts on is taken from it.
Undisturbed(r) ==
    /\ at'[r] = at[r] /\ scene' = scene
    /\ at[r].pc # "out" =>
         /\ r \notin late' => r \notin late /\ member' = member
         /\ \A m \in Moves : step[m] \notin Open => step'[m] \notin Open
         /\ \A s \in Mutations : step[s] # "pending" => step'[s] # "pending"
         /\ r \in lease'.holders /\ ~lease'.expired =>
              /\ r \in lease.holders /\ ~lease.expired
              /\ \A s \in Undo : step'[s] \in Open => step[s] \in Open
              /\ \A s \in Undo : step[s] = "pending" => step'[s] = "pending"

LEMMA OutOfIt ==
    ASSUME NEW r \in Recoverers, at'[r].pc \in {"isolate", "out"} \cup Settled,
           at'[r].seen.row # "target"
    PROVE  RecovererInv(r)'
<1>1. RecovererPlaced(r)' /\ Answered(r)'
  BY DEF RecovererPlaced, Answered, Ended, Sighted, Mutating, Settled
<1>2. LookHolds(r)' /\ Needed(r)'
  BY DEF LookHolds, Needed, Sighted, Settled
<1>3. Resolved(r)'
  BY DEF Resolved, Decided, Mutating, Settled
<1>4. Alone(r)'
  BY DEF Alone, Decided, Mutating, Settled
<1> QED
  BY <1>1, <1>2, <1>3, <1>4 DEF RecovererInv

LEMMA RecovererKept ==
    ASSUME TypeOK, NEW r \in Recoverers, RecovererInv(r), Undisturbed(r)
    PROVE  RecovererInv(r)'
<1> USE DEF RecovererInv
<1>1. CASE at[r].pc = "out"
  BY <1>1, OutOfIt DEF Undisturbed, RecovererPlaced
<1>2. CASE at[r].pc # "out"
  <2>1. Current(r)' = Current(r) /\ at'[r] = at[r] /\ scene' = scene
    BY CurrentSame DEF Undisturbed
  <2>2. RecovererPlaced(r)' /\ Answered(r)'
    BY <2>1 DEF RecovererPlaced, Answered
  <2>3. LookHolds(r)'
    BY <1>2, <2>1 DEF LookHolds, Undisturbed
  <2>4. Needed(r)'
    BY <1>2, <2>1 DEF Needed, Undisturbed
  <2>5. Resolved(r)'
    <3>1. at[r].pc = "facts" =>
            \A s \in Moves \ at[r].todo :
               step'[s] \notin Open /\ (scene.remote => at[r].look[Side(s)] # "unknown")
      BY <1>2 DEF Resolved, Undisturbed
    <3>2. Decided(r) => \A s \in Moves : step'[s] \notin Open
      BY <1>2 DEF Resolved, Undisturbed
    <3>3. at[r].pc \in {"begun", "call"} => step'[Current(r)] # "pending"
      <4>1. SUFFICES ASSUME at[r].pc \in {"begun", "call"} PROVE step'[Current(r)] # "pending"
        OBVIOUS
      <4>2. at[r].todo \subseteq Undo /\ at[r].todo # {}
        BY <4>1 DEF RecovererPlaced, Mutating, Ended, Settled
      <4>3. Current(r) \in Mutations
        BY <4>2, CurrentUndo DEF Undo, Mutations
      <4> QED
        BY <1>2, <4>1, <4>3 DEF Resolved, Undisturbed
    <3> QED
      BY <2>1, <3>1, <3>2, <3>3 DEF Resolved, Decided
  <2>6. Alone(r)'
    <3>1. SUFFICES ASSUME r \in lease'.holders, ~lease'.expired
                   PROVE  Alone(r)'
      BY DEF Alone
    <3>2. /\ r \in lease.holders /\ ~lease.expired
          /\ \A s \in Undo : step'[s] \in Open => step[s] \in Open
          /\ \A s \in Undo : step[s] = "pending" => step'[s] = "pending"
      BY <1>2, <3>1 DEF Undisturbed
    <3>3. at[r].pc = "source undone?" => step'["undoTarget"] \notin Open
      BY <3>2 DEF Alone, Undo
    <3>4. at[r].pc = "facts" \/ Decided(r) =>
             \A s \in Undo : step'[s] \in Open =>
                at[r].pc \in {"begun", "call", "complete"} /\ s = Current(r)
      BY <3>2 DEF Alone
    <3>5. (\/ at[r].pc \in {"facts", "decide"} /\ scene.remote /\ Restored(at[r].look)
           \/ at[r].pc = "finalize" /\ at[r].goal = "failed")
            => \A s \in Undo : step'[s] = "pending"
      BY <3>2 DEF Alone
    <3>6. Restored(at[r].look)' <=> Restored(at[r].look)
      BY <2>1 DEF Restored
    <3> QED
      BY <2>1, <3>3, <3>4, <3>5, <3>6 DEF Alone, Decided
  <2> QED
    BY <2>2, <2>3, <2>4, <2>5, <2>6
<1> QED
  BY <1>1, <1>2

\* Nothing that the request counts on is taken from it.
Bystander ==
    /\ at'[Request] = at[Request] /\ scene' = scene /\ workspace' = workspace
    /\ member' \in [source : BOOLEAN, target : BOOLEAN]
    /\ Request \in lease'.holders =>
          lease'.owner = lease.owner /\ lease'.holders = lease.holders
    /\ lease'.owner = Request => lease.owner = Request /\ step' = step /\ member' = member
    /\ \A m \in Moves : step'[m] \in Open => step[m] \in Open
    /\ \A s \in Mutations : step[s] # "pending" => step'[s] # "pending"
    /\ \A s \in Mutations : step[s] \in Good => step'[s] = step[s]
    /\ member'.target => member.target
    /\ member.source => member'.source
    /\ Undoing => \A s \in Undo \ at[Request].todo : step[s] \notin Open => step'[s] \notin Open

LEMMA RequestKept ==
    ASSUME TypeOK, RequestInv, Bystander
    PROVE  RequestInv'
<1> USE DEF RequestInv
<1>1. /\ at'[Request] = at[Request] /\ scene' = scene /\ workspace' = workspace
      /\ Current(Request)' = Current(Request)
  BY CurrentSame DEF Bystander
<1>2. RequestPlaced' /\ Answered(Request)' /\ RequestCalledFor'
  BY <1>1 DEF RequestPlaced, Answered, RequestCalledFor
<1>3. RequestHolds'
  BY <1>1 DEF RequestHolds, Bystander, Forward, Undoing
<1>4. RequestOpens'
  BY <1>1 DEF RequestOpens, Bystander, Moves
<1>5. RequestForward'
  <2>1. SUFFICES ASSUME Forward, lease'.owner = Request PROVE RequestForward'
    BY <1>1 DEF RequestForward, Forward
  <2>2. lease.owner = Request /\ step' = step /\ member' = member
    BY <2>1 DEF Bystander
  <2> QED
    BY <1>1, <2>1, <2>2 DEF RequestForward, Early, Forward
<1>6. RequestBack'
  <2>1. SUFFICES ASSUME Undoing PROVE RequestBack'
    BY <1>1 DEF RequestBack, Undoing
  <2>2. /\ "undoTarget" \notin at[Request].todo => ~member'.target
        /\ "undoSource" \notin at[Request].todo => (scene.source => member'.source)
    BY <2>1 DEF RequestBack, Bystander
  <2>3. "undoTarget" \in at[Request].todo => step'["attach"] \in Good
    BY <2>1 DEF RequestBack, Bystander, Steps, Mutations
  <2>4. \A s \in Undo \ at[Request].todo : step'[s] \notin Open
    BY <2>1 DEF RequestBack, Bystander
  <2>5. at[Request].pc \in {"call", "complete"} =>
          /\ Current(Request) \in Undo
          /\ Current(Request) \in Mutations
    <3>1. SUFFICES ASSUME at[Request].pc \in {"call", "complete"}
                   PROVE  Current(Request) \in Undo /\ Current(Request) \in Mutations
      OBVIOUS
    <3>2. at[Request].todo \subseteq Undo /\ at[Request].todo # {}
      BY <2>1, <3>1 DEF RequestPlaced, Undoing, Ended, Settled
    <3> QED
      BY <3>2, CurrentUndo DEF Undo, Mutations
  <2>6. at[Request].pc = "call" => step'[Current(Request)] # "pending"
    BY <2>1, <2>5 DEF RequestBack, Bystander
  <2>7. at[Request].pc = "complete" /\ at[Request].got \in Good =>
              member'[Side(Current(Request))] = Desired(Current(Request))
    <3>1. SUFFICES ASSUME at[Request].pc = "complete", at[Request].got \in Good
                   PROVE  member'[Side(Current(Request))] = Desired(Current(Request))
      OBVIOUS
    <3>2. member[Side(Current(Request))] = Desired(Current(Request))
      BY <2>1, <3>1 DEF RequestBack
    <3>3. /\ member'.target \in BOOLEAN /\ member'.source \in BOOLEAN
          /\ member'.target => member.target
          /\ member.source => member'.source
      BY DEF Bystander
    <3>4. CASE Current(Request) = "undoTarget"
      <4>1. member.target = FALSE
        BY <3>2, <3>4, Sides
      <4>2. member'.target = FALSE
        BY <3>3, <4>1
      <4> QED
        BY <3>4, <4>2, Sides
    <3>5. CASE Current(Request) = "undoSource"
      <4>1. member.source = TRUE
        BY <3>2, <3>5, Sides
      <4>2. member'.source = TRUE
        BY <3>3, <4>1
      <4> QED
        BY <3>5, <4>2, Sides
    <3> QED
      BY <2>5, <3>1, <3>4, <3>5 DEF Undo
  <2> QED
    BY <1>1, <2>2, <2>3, <2>4, <2>6, <2>7 DEF RequestBack
<1> QED
  BY <1>2, <1>3, <1>4, <1>5, <1>6

-------------------------------------------------------------------------------
(***************************************************************************)
(* What each kind of step does to the whole of the invariant.              *)
(***************************************************************************)

\* The part of the invariant that no thread's place appears in, but for the lease.
Document == StepInv /\ MemberInv /\ RowInv /\ VerdictTrue /\ SettledMeansResolved

\* Neither the document nor a verdict is touched.
Spares ==
    /\ scene' = scene /\ step' = step /\ row' = row /\ member' = member
    /\ workspace' = workspace
    /\ op'.status # op.status => op.status \notin Settled /\ op'.status \notin Settled
    /\ op'.status \in Settled => lease'.owner = lease.owner

LEMMA DocumentSpared ==
    ASSUME Document, Spares
    PROVE  Document'
<1> USE DEF Document
<1>1. StepInv' /\ MemberInv'
  BY DEF StepInv, MemberInv, EffectKnown, Spares
<1>2. RowInv'
  <2>1. row' = "target" => op'.status = "succeeded"
    BY DEF RowInv, Spares, Settled
  <2>2. op'.status = "succeeded" => lease'.owner = Request
    BY DEF RowInv, Spares, Settled
  <2> QED
    BY <2>1, <2>2 DEF RowInv
<1>3. VerdictTrue'
  BY DEF VerdictTrue, Spares, Settled
<1>4. SettledMeansResolved'
  BY DEF SettledMeansResolved, Spares
<1> QED
  BY <1>1, <1>2, <1>3, <1>4

LEMMA VerdictsSpared ==
    ASSUME TypeOK, AnswerIsVerdict, Calm, Spares, NEW t \in Threads, Moved(t),
           late \subseteq late' \cup {t},
           at'[t].pc \in Settled => op'.status = at'[t].pc,
           at'[t].pc = "call" => op'.status \notin Settled
    PROVE  AnswerIsVerdict' /\ Calm'
<1>1. ASSUME NEW u \in Threads, at'[u].pc \in Settled
      PROVE  op'.status = at'[u].pc
  <2>1. CASE u = t
    BY <1>1, <2>1
  <2>2. CASE u # t
    BY <1>1, <2>2 DEF AnswerIsVerdict, Spares, Moved
  <2> QED
    BY <2>1, <2>2
<1>2. ASSUME op'.status \in {"succeeded", "failed"}, NEW u \in Threads \ late'
      PROVE  at'[u].pc # "call"
  <2>1. CASE u = t
    BY <1>2, <2>1 DEF Settled
  <2>2. CASE u # t
    BY <1>2, <2>2 DEF Calm, Spares, Moved, Settled
  <2> QED
    BY <2>1, <2>2
<1> QED
  BY <1>1, <1>2 DEF AnswerIsVerdict, Calm

LEMMA LeaseKept ==
    ASSUME TypeOK, LeaseInv, NEW t \in Threads, at[t].pc \notin {"idle", "out"}, Moved(t),
           lease'.owner = lease.owner, lease'.expired = lease.expired, late' = late,
           lease'.holders \subseteq {lease.owner, Request},
           op'.status = "none" => op.status = "none"
    PROVE  LeaseInv'
<1>1. lease.owner # None /\ op.status # "none"
  <2>1. CASE t = Request
    BY <2>1 DEF LeaseInv
  <2>2. CASE t \in Recoverers
    BY <2>2, Busy, Who DEF LeaseInv
  <2> QED
    BY <2>1, <2>2 DEF Threads
<1>2. lease.owner \notin Recoverers => \A r \in Recoverers : at'[r].pc = "out"
  <2>1. SUFFICES ASSUME lease.owner \notin Recoverers, NEW r \in Recoverers
                 PROVE  at'[r].pc = "out"
    OBVIOUS
  <2>2. t \notin Recoverers
    BY <2>1, Busy
  <2> QED
    BY <2>1, <2>2, Who DEF LeaseInv, Moved
<1> QED
  BY <1>1, <1>2 DEF LeaseInv

\* The rest of the invariant when a thread has moved.
Assembly ==
    /\ TypeOK' /\ LeaseInv' /\ Document' /\ AnswerIsVerdict' /\ Calm' /\ Answering'

LEMMA RequestAssembles ==
    ASSUME IInv, Assembly, RequestInv', \A r \in Recoverers : Undisturbed(r)
    PROVE  IInv'
<1>1. \A r \in Recoverers : RecovererInv(r)'
  BY RecovererKept DEF IInv
<1> QED
  BY <1>1 DEF IInv, Assembly, Document, SettledInv

LEMMA RecovererAssembles ==
    ASSUME IInv, Assembly, NEW r \in Recoverers, RecovererInv(r)', Bystander,
           \A u \in Recoverers \ {r} : Undisturbed(u)
    PROVE  IInv'
<1>1. \A u \in Recoverers : RecovererInv(u)'
  BY RecovererKept DEF IInv
<1>2. RequestInv'
  BY RequestKept DEF IInv
<1> QED
  BY <1>1, <1>2 DEF IInv, Assembly, Document, SettledInv

LEMMA Idling ==
    ASSUME TypeOK, NEW t \in Threads, UNCHANGED <<scene, rows, remote, late>>
    PROVE  Rests(t)
BY Types DEF Rests, rows, remote

LEMMA RestsSpares ==
    ASSUME NEW t \in Threads, Rests(t)
    PROVE  Spares /\ (op'.status = "none" => op.status = "none")
BY OwningProtects DEF Rests, Spares, Protecting, Settled

LEMMA LeasesSpares ==
    ASSUME NEW t \in Threads, Leases(t)
    PROVE  Spares /\ (op'.status = "none" => op.status = "none")
BY DEF Leases, Spares

\* A recoverer notes something, moves the operation on, or renews its lease.
LEMMA RecovererRests ==
    ASSUME IInv, NEW r \in Recoverers, at[r].pc # "out", at[r].pc # "idle", Moved(r),
           Rests(r) \/ Extends(r), RecovererInv(r)',
           at'[r].pc \in Settled => op'.status = at'[r].pc,
           at'[r].pc = "call" => op'.status \notin Settled
    PROVE  IInv'
<1> USE DEF IInv, SettledInv
<1>1. r \in Threads /\ r # Request
  BY Who
<1>2. lease.owner \in Recoverers /\ lease.owner # Request
  BY Busy
<1>3. /\ scene' = scene /\ step' = step /\ row' = row /\ member' = member
      /\ workspace' = workspace /\ late' = late
      /\ lease'.owner = lease.owner /\ lease'.expired = lease.expired
      /\ lease' = lease \/ (lease'.holders = {r} /\ lease.owner = r)
  BY Owning DEF Rests, Extends, Leases
<1>4. Spares /\ (op'.status = "none" => op.status = "none")
  BY <1>1, RestsSpares, LeasesSpares DEF Extends
<1>5. TypeOK'
  BY Types, TypesNext DEF Rests, Extends, Leases, Moved
<1>6. LeaseInv'
  <2>1. lease'.holders \subseteq {lease.owner, Request}
    BY <1>3 DEF LeaseInv
  <2> QED
    BY <1>1, <1>3, <1>4, <2>1, LeaseKept
<1>7. Document'
  BY <1>4, DocumentSpared DEF Document
<1>8. AnswerIsVerdict' /\ Calm'
  BY <1>1, <1>3, <1>4, VerdictsSpared
<1>9. Answering'
  BY <1>2, <1>3 DEF Answering
<1>10. ASSUME NEW u \in Recoverers \ {r}
       PROVE  Undisturbed(u)
  BY <1>1, <1>3, Who DEF Undisturbed, Moved
<1>11. Bystander
  <2>1. at'[Request] = at[Request]
    BY <1>1, Who DEF Moved
  <2>2. member' \in [source : BOOLEAN, target : BOOLEAN]
    BY <1>5, TypesNext
  <2>3. Request \in lease'.holders => lease'.owner = lease.owner /\ lease'.holders = lease.holders
    BY <1>1, <1>3
  <2> QED
    BY <1>2, <1>3, <2>1, <2>2, <2>3 DEF Bystander
<1>12. Assembly
  BY <1>5, <1>6, <1>7, <1>8, <1>9 DEF Assembly
<1> QED
  BY <1>10, <1>11, <1>12, RecovererAssembles

\* A recoverer takes the lease over.
LEMMA RecovererSeizes ==
    ASSUME IInv, NEW r \in Recoverers, Moved(r), Seizes(r), at'[r].pc \in {"taken", "out"},
           at'[r].seen.row = "source"
    PROVE  IInv'
<1> USE DEF IInv, SettledInv
<1>1. r \in Threads /\ r # Request
  BY Who
<1>2. late = Threads /\ late' = Threads \ {r}
  BY DEF Seizes, LeaseInv
<1>3. op.status \notin Settled /\ op.status # "none"
  BY DEF Seizes, Protecting, Settled
<1>4. lease'.owner = r /\ lease'.holders = {r} /\ lease'.expired = FALSE
  BY DEF Seizes
<1>5. TypeOK'
  BY <1>1, <1>2, Types, TypesNext DEF Seizes, Moved, LeaseRow
<1>6. LeaseInv'
  BY <1>1, <1>2, <1>3, <1>4, Who DEF LeaseInv, Seizes
<1>7. Spares
  BY <1>3 DEF Seizes, Spares
<1>8. Document'
  BY <1>7, DocumentSpared DEF Document
<1>9. AnswerIsVerdict' /\ Calm'
  <2>1. late \subseteq late' \cup {r}
    BY <1>2
  <2>2. at'[r].pc \notin Settled /\ at'[r].pc # "call"
    BY DEF Settled
  <2> QED
    BY <1>1, <1>7, <2>1, <2>2, VerdictsSpared
<1>10. Answering'
  BY <1>1, <1>4 DEF Answering
<1>11. RecovererInv(r)'
  <2>1. RecovererPlaced(r)' /\ Answered(r)' /\ LookHolds(r)' /\ Needed(r)'
    BY DEF RecovererPlaced, Answered, LookHolds, Needed, Ended, Sighted, Mutating, Settled
  <2>2. Resolved(r)' /\ Alone(r)'
    BY DEF Resolved, Alone, Decided, Mutating
  <2> QED
    BY <2>1, <2>2 DEF RecovererInv
<1>12. ASSUME NEW u \in Recoverers \ {r}
       PROVE  Undisturbed(u)
  BY <1>1, <1>2, <1>4, Who DEF Undisturbed, Moved, Seizes
<1>13. Bystander
  <2>1. at'[Request] = at[Request]
    BY <1>1, Who DEF Moved
  <2>2. member' \in [source : BOOLEAN, target : BOOLEAN]
    BY <1>5, TypesNext
  <2> QED
    BY <1>1, <1>4, <2>1, <2>2 DEF Bystander, Seizes
<1>14. Assembly
  BY <1>5, <1>6, <1>8, <1>9, <1>10 DEF Assembly
<1> QED
  BY <1>11, <1>12, <1>13, <1>14, RecovererAssembles

\* What may be written in a step.
Fits(s, v) ==
    /\ s \in Undo => \A m \in Moves : step[m] \notin Open
    /\ s = "undoTarget" => step["attach"] \in Good
    /\ s \in {"undoSource", "detach"} => scene.source
    /\ s = "attach" => scene.remote
    /\ s \in Moves /\ v \in Open => \A u \in Undo : step[u] = "pending"
    /\ s = "attach" /\ v = "failed" => ~member.target
    /\ s = "detach" /\ v = "failed" => (scene.member => member.source)

LEMMA DocumentWritten ==
    ASSUME TypeOK, Document, NEW t \in Threads, NEW s \in Steps, NEW v \in StepState,
           Writes(t, s, v), Fits(s, v)
    PROVE  Document'
<1> USE DEF Document
<1>1. /\ v # "pending" /\ v \in {"failed"} \cup Good \cup Open /\ step[s] \notin Good
      /\ step'[s] = v /\ \A x \in Steps \ {s} : step'[x] = step[x]
      /\ scene' = scene /\ lease' = lease /\ row' = row /\ member' = member
      /\ workspace' = workspace /\ op'.status = op.status /\ op.status \in Protecting
  BY OwningProtects DEF Writes, StepState
<1>2. /\ \A x \in Undo \cup Moves : x \in Steps
      /\ "attach" \in Steps /\ "detach" \in Steps /\ "undoTarget" \in Steps /\ "undoSource" \in Steps
  BY DEF Undo, Moves, Steps, Mutations
<1>3. \A x \in Steps : step[x] # "pending" => step'[x] # "pending"
  BY <1>1
<1>4. StepInv'
  <2>1. ASSUME NEW u \in Undo, step'[u] # "pending", NEW m \in Moves
        PROVE  step'[m] \notin Open
    <3>1. CASE s = u
      <4>1. step'[m] = step[m]
        BY <1>1, <1>2, <2>1, <3>1 DEF Undo, Moves
      <4> QED
        BY <2>1, <3>1, <4>1 DEF Fits
    <3>2. CASE s = m
      <4>1. step[u] # "pending"
        BY <1>1, <1>2, <2>1, <3>2 DEF Undo, Moves
      <4> QED
        BY <1>1, <2>1, <3>2, <4>1 DEF Fits
    <3>3. CASE s # u /\ s # m
      <4>1. step'[m] = step[m] /\ step'[u] = step[u]
        BY <1>1, <1>2, <2>1, <3>3
      <4> QED
        BY <2>1, <4>1 DEF StepInv
    <3> QED
      BY <3>1, <3>2, <3>3
  <2>2. step'["undoTarget"] # "pending" => step'["attach"] \in Good
    <3>1. CASE s = "undoTarget"
      BY <1>1, <1>2, <3>1 DEF Fits
    <3>2. CASE s = "attach"
      BY <1>1, <1>2, <3>2 DEF StepInv
    <3>3. CASE s # "undoTarget" /\ s # "attach"
      BY <1>1, <1>2, <3>3 DEF StepInv
    <3> QED
      BY <3>1, <3>2, <3>3
  <2>3. step'["undoSource"] # "pending" \/ step'["detach"] # "pending" => scene.source
    BY <1>1, <1>2 DEF StepInv, Fits
  <2>4. step'["attach"] # "pending" => scene.remote
    BY <1>1, <1>2 DEF StepInv, Fits
  <2> QED
    BY <1>1, <2>1, <2>2, <2>3, <2>4 DEF StepInv
<1>5. MemberInv'
  <2>1. member.target => step'["attach"] \in Open \cup Good
    <3>1. CASE s = "attach"
      BY <1>1, <1>2, <3>1 DEF MemberInv, EffectKnown, Fits
    <3>2. CASE s # "attach"
      BY <1>1, <1>2, <3>2 DEF MemberInv, EffectKnown
    <3> QED
      BY <3>1, <3>2
  <2>2. scene.member /\ ~member.source => step'["detach"] \in Open \cup Good
    <3>1. CASE s = "detach"
      BY <1>1, <1>2, <3>1 DEF MemberInv, EffectKnown, Fits
    <3>2. CASE s # "detach"
      BY <1>1, <1>2, <3>2 DEF MemberInv, EffectKnown
    <3> QED
      BY <3>1, <3>2
  <2>3. member.source /\ ~scene.member => step'["undoSource"] # "pending"
    BY <1>2, <1>3 DEF MemberInv
  <2> QED
    BY <1>1, <2>1, <2>2, <2>3 DEF MemberInv, EffectKnown
<1>6. RowInv'
  BY <1>1 DEF RowInv
<1>7. VerdictTrue' /\ SettledMeansResolved'
  BY <1>1 DEF VerdictTrue, SettledMeansResolved, Protecting, Settled
<1> QED
  BY <1>4, <1>5, <1>6, <1>7

LEMMA VerdictsUntold ==
    ASSUME AnswerIsVerdict, NEW t \in Threads, Owns(t), Moved(t), op'.status = op.status,
           at'[t].pc \notin Settled
    PROVE  AnswerIsVerdict' /\ Calm' /\ Answering'
<1>1. op.status \in Protecting /\ op'.status \notin Settled
  BY OwningProtects
<1>2. ASSUME NEW u \in Threads
      PROVE  at'[u].pc \notin Settled
  <2>1. CASE u = t
    BY <2>1
  <2>2. CASE u # t
    BY <1>1, <2>2, OwningProtects DEF AnswerIsVerdict, Moved
  <2> QED
    BY <2>1, <2>2
<1> QED
  BY <1>1, <1>2 DEF AnswerIsVerdict, Calm, Answering, Settled

\* What a recoverer may write without harm to the others.
FitsRequest(s, v) ==
    /\ s \in Moves => v \notin Open
    /\ s \in Undo /\ v \in Open /\ step[s] \notin Open =>
          /\ s = "undoTarget" => member.target
          /\ s = "undoSource" => scene.source /\ ~member.source

LEMMA RecovererWrites ==
    ASSUME IInv, NEW r \in Recoverers, at[r].pc # "out", at[r].pc # "idle", Moved(r),
           NEW s \in Steps, NEW v \in StepState,
           Writes(r, s, v), Fits(s, v), FitsRequest(s, v), RecovererInv(r)',
           at'[r].pc \notin Settled
    PROVE  IInv'
<1> USE DEF IInv, SettledInv
<1>1. r \in Threads /\ r # Request /\ Owns(r)
  BY Who DEF Writes
<1>2. lease.owner = r /\ lease' = lease /\ late' = late
  BY <1>1, Owning DEF Writes
<1>3. /\ v # "pending" /\ step[s] \notin Good
      /\ step'[s] = v /\ \A x \in Steps \ {s} : step'[x] = step[x]
      /\ scene' = scene /\ member' = member /\ workspace' = workspace
      /\ op'.status = op.status /\ op.status # "none"
  BY <1>1, OwningProtects DEF Writes
<1>4. TypeOK'
  BY Types, TypesNext DEF Writes, Moved
<1>5. LeaseInv'
  <2>1. lease'.holders \subseteq {lease.owner, Request}
    BY <1>2 DEF LeaseInv
  <2> QED
    BY <1>1, <1>2, <1>3, <2>1, LeaseKept
<1>6. Document'
  BY <1>1, DocumentWritten DEF Document
<1>7. AnswerIsVerdict' /\ Calm' /\ Answering'
  BY <1>1, <1>3, VerdictsUntold
<1>8. ASSUME NEW x \in Undo \cup Moves
      PROVE  x \in Steps /\ x \in Mutations
  BY DEF Undo, Moves, Steps, Mutations
<1>9. ASSUME NEW m \in Moves
      PROVE  step'[m] \in Open => step[m] \in Open
  BY <1>3, <1>8 DEF FitsRequest
<1>10. \A x \in Mutations : step[x] # "pending" => step'[x] # "pending"
  BY <1>3 DEF Steps
<1>11. ASSUME NEW u \in Recoverers \ {r}
       PROVE  Undisturbed(u)
  <2>1. u \notin lease.holders
    BY <1>2, Who DEF LeaseInv
  <2>2. at'[u] = at[u]
    BY Who DEF Moved
  <2> QED
    BY <1>2, <1>3, <1>9, <1>10, <2>1, <2>2 DEF Undisturbed
<1>12. Bystander
  <2>1. at'[Request] = at[Request]
    BY <1>1, Who DEF Moved
  <2>2. member' \in [source : BOOLEAN, target : BOOLEAN]
    BY <1>4, TypesNext
  <2>3. \A x \in Mutations : step[x] \in Good => step'[x] = step[x]
    BY <1>3 DEF Steps
  <2>4. ASSUME Undoing, NEW x \in Undo \ at[Request].todo, step[x] \notin Open
        PROVE  step'[x] \notin Open
    <3>1. CASE s = x /\ v \in Open
      BY <2>4, <3>1 DEF FitsRequest, RequestInv, RequestBack, Undo
    <3>2. CASE ~(s = x /\ v \in Open)
      BY <1>3, <1>8, <2>4, <3>2
    <3> QED
      BY <3>1, <3>2
  <2> QED
    BY <1>1, <1>2, <1>3, <1>9, <1>10, <2>1, <2>2, <2>3, <2>4 DEF Bystander
<1>13. Assembly
  BY <1>4, <1>5, <1>6, <1>7 DEF Assembly
<1> QED
  BY <1>11, <1>12, <1>13, RecovererAssembles

LEMMA DocumentSettled ==
    ASSUME TypeOK, Document, NEW t \in Threads, NEW verdict \in Settled, Settles(t, verdict),
           VerdictTrue', \A s \in Mutations : step[s] \notin Open,
           verdict = "succeeded" => lease.owner = Request,
           verdict # "succeeded" => row # "target" \/ row' # "target"
    PROVE  Document'
<1> USE DEF Document
<1>1. /\ scene' = scene /\ lease' = lease /\ member' = member /\ workspace' = workspace
      /\ op'.status = verdict /\ \A x \in Mutations : step'[x] = step[x]
      /\ row' # row => verdict = "succeeded"
  BY DEF Settles, Steps, Mutations
<1>2. StepInv' /\ MemberInv'
  BY <1>1 DEF StepInv, MemberInv, EffectKnown, Undo, Moves, Mutations
<1>3. RowInv'
  BY <1>1 DEF RowInv
<1>4. SettledMeansResolved'
  BY <1>1 DEF SettledMeansResolved
<1> QED
  BY <1>2, <1>3, <1>4

\* A recoverer settles the operation.
LEMMA RecovererSettles ==
    ASSUME IInv, NEW r \in Recoverers, at[r].pc # "out", at[r].pc # "idle", Moved(r),
           NEW verdict \in {"compensated", "failed"},
           Settles(r, verdict), row' = row, step' = step, VerdictTrue',
           \A s \in Mutations : step[s] \notin Open, RecovererInv(r)',
           at'[r].pc # "call", at'[r].pc \in Settled => at'[r].pc = verdict
    PROVE  IInv'
<1> USE DEF IInv, SettledInv
<1>1. r \in Threads /\ r # Request /\ Owns(r) /\ verdict \in Settled
  BY Who DEF Settles, Settled
<1>2. lease.owner = r /\ lease' = lease /\ late' = late /\ late = Threads \ {r}
  BY <1>1, Owning DEF Settles
<1>3. /\ scene' = scene /\ member' = member /\ workspace' = workspace
      /\ op'.status = verdict /\ verdict # "none" /\ verdict # "succeeded"
  BY DEF Settles
<1>4. TypeOK'
  BY Types, TypesNext DEF Settles, Moved
<1>5. LeaseInv'
  <2>1. lease'.holders \subseteq {lease.owner, Request}
    BY <1>2 DEF LeaseInv
  <2> QED
    BY <1>1, <1>2, <1>3, <2>1, LeaseKept
<1>6. Document'
  <2>1. row # "target"
    BY <1>1, OwningProtects DEF RowInv, Settled
  <2> QED
    BY <1>1, <1>3, <2>1, DocumentSettled DEF Document
<1>7. AnswerIsVerdict'
  <2>1. ASSUME NEW u \in Threads, at'[u].pc \in Settled
        PROVE  op'.status = at'[u].pc
    <3>1. CASE u = r
      BY <1>3, <2>1, <3>1
    <3>2. CASE u # r
      BY <1>1, <2>1, <3>2, OwningProtects DEF AnswerIsVerdict, Moved
    <3> QED
      BY <3>1, <3>2
  <2> QED
    BY <2>1 DEF AnswerIsVerdict
<1>8. Calm'
  BY <1>2 DEF Calm
<1>9. Answering'
  BY <1>1, <1>2 DEF Answering
<1>10. ASSUME NEW u \in Recoverers \ {r}
       PROVE  Undisturbed(u)
  BY <1>2, <1>3, Who DEF Undisturbed, Moved
<1>11. Bystander
  <2>1. at'[Request] = at[Request]
    BY <1>1, Who DEF Moved
  <2>2. member' \in [source : BOOLEAN, target : BOOLEAN]
    BY <1>4, TypesNext
  <2> QED
    BY <1>1, <1>2, <1>3, <2>1, <2>2 DEF Bystander
<1>12. Assembly
  BY <1>4, <1>5, <1>6, <1>7, <1>8, <1>9 DEF Assembly
<1> QED
  BY <1>10, <1>11, <1>12, RecovererAssembles

\* A mutation has had its effect.
Effects(t, s) ==
    /\ t \notin late
    /\ member' \in [source : BOOLEAN, target : BOOLEAN]
    /\ member'[Side(s)] = Desired(s)
    /\ s \in {"detach", "undoSource"} => member'.target = member.target
    /\ s \in {"attach", "undoTarget"} => member'.source = member.source
    /\ UNCHANGED <<scene, rows, workspace, late>>

LEMMA DocumentMoved ==
    ASSUME TypeOK, Document, Calm, NEW t \in Threads, at[t].pc = "call",
           NEW s \in Mutations, Effects(t, s),
           s \in Moves => op.status # "compensated" /\ step[s] = "started",
           s = "attach" => workspace, 
           s = "undoSource" => scene.source /\ step["undoSource"] # "pending"
    PROVE  Document'
<1> USE DEF Document
<1>1. /\ scene' = scene /\ lease' = lease /\ op' = op /\ step' = step /\ row' = row
      /\ workspace' = workspace
  BY DEF Effects, rows
<1>2. op.status # "succeeded" /\ op.status # "failed"
  BY DEF Calm, Effects
<1>3. StepInv' /\ RowInv' /\ SettledMeansResolved'
  BY <1>1 DEF StepInv, RowInv, SettledMeansResolved
<1>4. /\ member'.target \in BOOLEAN /\ member'.source \in BOOLEAN
      /\ member.target \in BOOLEAN /\ member.source \in BOOLEAN
  BY Types DEF Effects
<1>5. CASE s = "detach"
  <2>1. member'.source = FALSE /\ member'.target = member.target
    BY <1>5, Sides DEF Effects
  <2> QED
    BY <1>1, <1>2, <1>3, <1>4, <1>5, <2>1 DEF MemberInv, EffectKnown, VerdictTrue, Moves, Open
<1>6. CASE s = "attach"
  <2>1. member'.source = member.source /\ member'.target = TRUE
    BY <1>6, Sides DEF Effects
  <2> QED
    BY <1>1, <1>2, <1>3, <1>4, <1>6, <2>1 DEF MemberInv, EffectKnown, VerdictTrue, Moves, Open
<1>7. CASE s = "undoTarget"
  <2>1. member'.source = member.source /\ member'.target = FALSE
    BY <1>7, Sides DEF Effects
  <2> QED
    BY <1>1, <1>2, <1>3, <1>4, <1>7, <2>1 DEF MemberInv, EffectKnown, VerdictTrue
<1>8. CASE s = "undoSource"
  <2>1. member'.source = TRUE /\ member'.target = member.target
    BY <1>8, Sides DEF Effects
  <2> QED
    BY <1>1, <1>2, <1>3, <1>4, <1>8, <2>1 DEF MemberInv, EffectKnown, VerdictTrue
<1> QED
  BY <1>5, <1>6, <1>7, <1>8 DEF Mutations

\* It becomes of others what it was.
LEMMA OthersLate ==
    ASSUME TypeOK, LeaseInv, NEW t \in Threads, at[t].pc \notin {"idle", "out"}, t \notin late,
           NEW r \in Recoverers \ {t}
    PROVE  at[r].pc = "out" \/ r \in late
<1>1. CASE t = Request
  BY <1>1, RequestInTime
<1>2. CASE t \in Recoverers
  BY <1>2, InTime, Who
<1> QED
  BY <1>1, <1>2 DEF Threads

\* A recoverer undoes something.
LEMMA RecovererCalls ==
    ASSUME IInv, NEW r \in Recoverers, at[r].pc = "call", Moved(r), NEW s \in Undo,
           Effects(r, s), step[s] # "pending", s = "undoSource" => scene.source,
           at'[r].pc = "complete", RecovererInv(r)'
    PROVE  IInv'
<1> USE DEF IInv, SettledInv
<1>1. r \in Threads /\ r # Request /\ at[r].pc \notin {"idle", "out"}
  BY Who
<1>2. lease.owner = r
  BY <1>1, InTime DEF Effects
<1>3. /\ scene' = scene /\ lease' = lease /\ op' = op /\ step' = step /\ row' = row
      /\ tried' = tried /\ observer' = observer /\ workspace' = workspace /\ late' = late
  BY DEF Effects, rows
<1>4. TypeOK'
  BY <1>3, Types, TypesNext DEF Effects, Moved
<1>5. LeaseInv'
  <2>1. lease'.holders \subseteq {lease.owner, Request}
    BY <1>3 DEF LeaseInv
  <2> QED
    BY <1>1, <1>3, <2>1, LeaseKept
<1>6. Document'
  BY <1>1, DocumentMoved DEF Document, Undo, Moves, Mutations
<1>7. AnswerIsVerdict'
  <2>1. ASSUME NEW u \in Threads, at'[u].pc \in Settled
        PROVE  op'.status = at'[u].pc
    BY <1>3, <2>1 DEF AnswerIsVerdict, Moved, Settled
  <2> QED
    BY <2>1 DEF AnswerIsVerdict
<1>8. Calm'
  <2>1. ASSUME NEW u \in Threads \ late', op'.status \in {"succeeded", "failed"}
        PROVE  at'[u].pc # "call"
    BY <1>3, <2>1 DEF Calm, Moved
  <2> QED
    BY <2>1 DEF Calm
<1>9. Answering'
  BY <1>1, <1>2, <1>3 DEF Answering
<1>10. ASSUME NEW u \in Recoverers \ {r}
       PROVE  Undisturbed(u)
  <2>1. at[u].pc = "out" \/ u \in late
    BY <1>1, OthersLate DEF Effects
  <2> QED
    BY <1>3, <2>1, Who DEF Undisturbed, Moved
<1>11. Bystander
  <2>1. at'[Request] = at[Request]
    BY <1>1, Who DEF Moved
  <2>2. /\ member' \in [source : BOOLEAN, target : BOOLEAN]
        /\ member'.target => member.target
        /\ member.source => member'.source
    BY Sides DEF Effects, Undo
  <2> QED
    BY <1>1, <1>2, <1>3, <2>1, <2>2 DEF Bystander
<1>12. Assembly
  BY <1>4, <1>5, <1>6, <1>7, <1>8, <1>9 DEF Assembly
<1> QED
  BY <1>10, <1>11, <1>12, RecovererAssembles

-------------------------------------------------------------------------------
(***************************************************************************)
(* The same of the request.                                                *)
(***************************************************************************)
LEMMA EndedAnswers ==
    ASSUME at'[Request].pc \in Ended
    PROVE  Answering'
BY DEF Answering, Ended, Settled

LEMMA RequestRests ==
    ASSUME IInv, at[Request].pc \notin {"idle", "out"}, Moved(Request),
           Rests(Request) \/ Extends(Request) \/ Adopts, RequestInv',
           at'[Request].pc \in Settled => op'.status = at'[Request].pc,
           at'[Request].pc = "call" => op'.status \notin Settled,
           \/ at[Request].pc \notin {"reconcile", "compensate"} \cup Ended
           \/ at'[Request].pc \in Ended
           \/ Answering'
    PROVE  IInv'
<1> USE DEF IInv, SettledInv
<1>1. Request \in Threads
  BY Who
<1>2. /\ scene' = scene /\ step' = step /\ row' = row /\ member' = member
      /\ workspace' = workspace /\ late' = late
      /\ lease'.owner = lease.owner /\ lease'.expired = lease.expired
      /\ lease'.holders \subseteq lease.holders \cup {Request}
  BY DEF Rests, Extends, Adopts, Leases
<1>3. Spares /\ (op'.status = "none" => op.status = "none")
  BY <1>1, RestsSpares, LeasesSpares DEF Extends, Adopts
<1>4. TypeOK'
  BY Types, TypesNext DEF Rests, Extends, Adopts, Leases, Moved
<1>5. LeaseInv'
  <2>1. lease'.holders \subseteq {lease.owner, Request}
    BY <1>2 DEF LeaseInv
  <2> QED
    BY <1>1, <1>2, <1>3, <2>1, LeaseKept
<1>6. Document'
  BY <1>3, DocumentSpared DEF Document
<1>7. AnswerIsVerdict' /\ Calm'
  BY <1>1, <1>2, <1>3, VerdictsSpared
<1>8. Answering'
  <2>1. CASE at[Request].pc \notin {"reconcile", "compensate"} \cup Ended
    BY <1>2, <1>3, <2>1 DEF Answering, Spares
  <2> QED
    BY <2>1, EndedAnswers
<1>9. ASSUME NEW r \in Recoverers
      PROVE  Undisturbed(r)
  <2>1. at'[r] = at[r]
    BY Who DEF Moved
  <2>2. r \in lease'.holders => r \in lease.holders
    BY <1>2, Who
  <2> QED
    BY <1>2, <2>1, <2>2 DEF Undisturbed
<1>10. Assembly
  BY <1>4, <1>5, <1>6, <1>7, <1>8 DEF Assembly
<1> QED
  BY <1>9, <1>10, RequestAssembles

LEMMA RequestWrites ==
    ASSUME IInv, at[Request].pc \notin {"idle", "out"}, Moved(Request),
           NEW s \in Steps, NEW v \in StepState,
           Writes(Request, s, v), Fits(s, v), RequestInv',
           Forward \/ (s \in Undo /\ lease.holders = {Request}),
           at'[Request].pc \notin Settled
    PROVE  IInv'
<1> USE DEF IInv, SettledInv
<1>1. Request \in Threads /\ Owns(Request)
  BY Who DEF Writes
<1>2. /\ v # "pending" /\ step[s] \notin Good /\ lease' = lease /\ late' = late
      /\ step'[s] = v /\ \A x \in Steps \ {s} : step'[x] = step[x]
      /\ scene' = scene /\ member' = member /\ workspace' = workspace
      /\ op'.status = op.status /\ op.status # "none"
  BY <1>1, OwningProtects DEF Writes
<1>3. TypeOK'
  BY Types, TypesNext DEF Writes, Moved
<1>4. LeaseInv'
  <2>1. lease'.holders \subseteq {lease.owner, Request}
    BY <1>2 DEF LeaseInv
  <2> QED
    BY <1>1, <1>2, <2>1, LeaseKept
<1>5. Document'
  BY <1>1, DocumentWritten DEF Document
<1>6. AnswerIsVerdict' /\ Calm' /\ Answering'
  BY <1>1, <1>2, VerdictsUntold
<1>7. ASSUME NEW r \in Recoverers
      PROVE  Undisturbed(r)
  <2>1. at'[r] = at[r]
    BY Who DEF Moved
  <2>2. CASE Forward
    <3>1. at[r].pc = "out"
      BY <1>1, <2>2, RequestOwning DEF RequestInv
    <3> QED
      BY <1>2, <2>1, <3>1 DEF Undisturbed
  <2>3. CASE s \in Undo /\ lease.holders = {Request}
    <3>1. r \notin lease'.holders
      BY <1>2, <2>3, Who
    <3>2. \A m \in Moves : step'[m] = step[m]
      BY <1>2, <2>3 DEF Moves, Undo, Steps, Mutations
    <3>3. \A x \in Mutations : step[x] # "pending" => step'[x] # "pending"
      BY <1>2 DEF Steps
    <3> QED
      BY <1>2, <2>1, <3>1, <3>2, <3>3 DEF Undisturbed
  <2> QED
    BY <2>2, <2>3
<1>8. Assembly
  BY <1>3, <1>4, <1>5, <1>6 DEF Assembly
<1> QED
  BY <1>7, <1>8, RequestAssembles

\* The request settles the operation, by itself or together with a recoverer that has
\* taken it over.
LEMMA RequestSettles ==
    ASSUME IInv, at[Request].pc \notin {"idle", "out"}, Moved(Request),
           NEW verdict \in Settled, Settles(Request, verdict), VerdictTrue',
           \A s \in Mutations : step[s] \notin Open, RequestInv',
           verdict # "compensated" => Forward,
           \/ at'[Request].pc \in {"isolate", verdict}
           \/ /\ at'[Request].pc = "reconcile" /\ at'[Request].got # "conflict"
              /\ verdict = "succeeded"
    PROVE  IInv'
<1> USE DEF IInv, SettledInv
<1>1. Request \in Threads /\ Owns(Request)
  BY Who DEF Settles
<1>2. /\ lease' = lease /\ late' = late /\ scene' = scene /\ member' = member
      /\ workspace' = workspace /\ op'.status = verdict /\ verdict # "none"
      /\ \A x \in Mutations : step'[x] = step[x]
  BY DEF Settles, Steps, Mutations, Settled
<1>3. verdict # "compensated" =>
         /\ lease.owner = Request /\ \A r \in Recoverers : at[r].pc = "out"
  BY <1>1, RequestOwning DEF RequestInv
<1>4. TypeOK'
  BY Types, TypesNext DEF Settles, Moved
<1>5. LeaseInv'
  <2>1. lease'.holders \subseteq {lease.owner, Request}
    BY <1>2 DEF LeaseInv
  <2> QED
    BY <1>1, <1>2, <2>1, LeaseKept
<1>6. Document'
  <2>1. row # "target"
    BY <1>1, OwningProtects DEF RowInv, Settled
  <2> QED
    BY <1>1, <1>3, <2>1, DocumentSettled DEF Document
<1>7. AnswerIsVerdict'
  <2>1. ASSUME NEW u \in Threads, at'[u].pc \in Settled
        PROVE  op'.status = at'[u].pc
    <3>1. CASE u = Request
      BY <1>2, <2>1, <3>1 DEF Settled
    <3>2. CASE u # Request
      BY <1>1, <2>1, <3>2, OwningProtects DEF AnswerIsVerdict, Moved
    <3> QED
      BY <3>1, <3>2
  <2> QED
    BY <2>1 DEF AnswerIsVerdict
<1>8. Calm'
  <2>1. ASSUME NEW u \in Threads, verdict \in {"succeeded", "failed"}
        PROVE  at'[u].pc # "call"
    BY <1>3, <2>1, Who DEF Moved, Settled
  <2> QED
    BY <1>2, <2>1 DEF Calm
<1>9. Answering'
  BY <1>2 DEF Answering, Ended, Settled
<1>10. ASSUME NEW r \in Recoverers
       PROVE  Undisturbed(r)
  <2>1. at'[r] = at[r]
    BY Who DEF Moved
  <2> QED
    BY <1>2, <2>1 DEF Undisturbed, Moves, Undo, Mutations
<1>11. Assembly
  BY <1>4, <1>5, <1>6, <1>7, <1>8, <1>9 DEF Assembly
<1> QED
  BY <1>10, <1>11, RequestAssembles

LEMMA RequestCalls ==
    ASSUME IInv, at[Request].pc = "call", Moved(Request), NEW s \in Mutations,
           Effects(Request, s), at'[Request].pc = "complete",
           s \in Moves => step[s] = "started", s = "attach" => workspace,
           s = "undoSource" => scene.source /\ step["undoSource"] # "pending",
           RequestInv'
    PROVE  IInv'
<1> USE DEF IInv, SettledInv
<1>1. Request \in Threads /\ at[Request].pc \notin {"idle", "out"}
  BY Who
<1>2. lease.owner = Request
  BY <1>1, RequestInTime DEF Effects
<1>3. /\ scene' = scene /\ lease' = lease /\ op' = op /\ step' = step /\ row' = row
      /\ tried' = tried /\ observer' = observer /\ workspace' = workspace /\ late' = late
  BY DEF Effects, rows
<1>4. op.status \notin Settled
  BY <1>2 DEF Answering, Ended, Settled
<1>5. TypeOK'
  BY <1>3, Types, TypesNext DEF Effects, Moved
<1>6. LeaseInv'
  <2>1. lease'.holders \subseteq {lease.owner, Request}
    BY <1>3 DEF LeaseInv
  <2> QED
    BY <1>1, <1>3, <2>1, LeaseKept
<1>7. Document'
  BY <1>1, <1>4, DocumentMoved DEF Document, Settled
<1>8. AnswerIsVerdict' /\ Calm' /\ Answering'
  <2>1. ASSUME NEW u \in Threads, at'[u].pc \in Settled
        PROVE  op'.status = at'[u].pc
    BY <1>3, <2>1 DEF AnswerIsVerdict, Moved, Settled
  <2> QED
    BY <1>3, <1>4, <2>1 DEF AnswerIsVerdict, Calm, Answering, Settled
<1>9. ASSUME NEW r \in Recoverers
      PROVE  Undisturbed(r)
  <2>1. at[r].pc = "out"
    BY <1>1, RequestInTime DEF Effects
  <2> QED
    BY <1>3, <2>1, Who DEF Undisturbed, Moved
<1>10. Assembly
  BY <1>5, <1>6, <1>7, <1>8 DEF Assembly
<1> QED
  BY <1>9, <1>10, RequestAssembles

\* A workspace of the target is made, or there is none yet.
LEMMA RequestCreates ==
    ASSUME IInv, at[Request].pc = "create", Moved(Request), RequestInv',
           workspace' \in BOOLEAN, workspace => workspace',
           UNCHANGED <<scene, rows, member, late>>, at'[Request].pc \in {"mapping", "unprepared"}
    PROVE  IInv'
<1> USE DEF IInv, SettledInv
<1>1. Request \in Threads /\ at[Request].pc \notin {"idle", "out"}
  BY Who
<1>2. /\ scene' = scene /\ lease' = lease /\ op' = op /\ step' = step /\ row' = row
      /\ tried' = tried /\ observer' = observer /\ member' = member /\ late' = late
  BY DEF rows
<1>3. TypeOK'
  BY <1>2, Types, TypesNext DEF Moved
<1>4. LeaseInv'
  <2>1. lease'.holders \subseteq {lease.owner, Request}
    BY <1>2 DEF LeaseInv
  <2> QED
    BY <1>1, <1>2, <2>1, LeaseKept
<1>5. Document'
  BY <1>2 DEF Document, StepInv, MemberInv, EffectKnown, RowInv, VerdictTrue, SettledMeansResolved
<1>6. AnswerIsVerdict' /\ Calm'
  <2>1. ASSUME NEW u \in Threads
        PROVE  /\ at'[u].pc \in Settled => at[u].pc = at'[u].pc
               /\ at'[u].pc = "call" => at[u].pc = "call"
    BY <2>1 DEF Moved, Settled
  <2>2. AnswerIsVerdict'
    BY <1>2, <2>1 DEF AnswerIsVerdict
  <2>3. Calm'
    BY <1>2, <2>1 DEF Calm
  <2> QED
    BY <2>2, <2>3
<1>7. Answering'
  BY <1>2 DEF Answering, Ended, Settled
<1>8. ASSUME NEW r \in Recoverers
      PROVE  Undisturbed(r)
  BY <1>2, Who DEF Undisturbed, Moved
<1>9. Assembly
  BY <1>3, <1>4, <1>5, <1>6, <1>7 DEF Assembly
<1> QED
  BY <1>8, <1>9, RequestAssembles

-------------------------------------------------------------------------------
(***************************************************************************)
(* Leaving.                                                                *)
(***************************************************************************)
LEMMA RequestOut ==
    ASSUME Anew(Request, at'[Request].pc), at'[Request].pc \in Ended
    PROVE  RequestInv'
<1>1. RequestPlaced' /\ Answered(Request)' /\ RequestCalledFor'
  BY DEF Anew, RequestPlaced, Answered, RequestCalledFor, Ended, Settled
<1>2. RequestHolds' /\ RequestOpens' /\ RequestForward' /\ RequestBack'
  BY DEF Anew, RequestHolds, RequestOpens, RequestForward, RequestBack, Forward, Undoing, Ended,
         Settled
<1> QED
  BY <1>1, <1>2 DEF RequestInv

Leaving == {"isolate", "out"}

LEMMA RequestLeaves ==
    ASSUME IInv, at[Request].pc \notin {"idle", "out"}, NEW place \in Leaving,
           Put(Request, End(place)), Rests(Request) \/ Extends(Request) \/ Adopts
    PROVE  IInv'
<1>1. Moved(Request) /\ Anew(Request, place)
  BY Ends, Who DEF Leaving, Places, IInv
<1>2. RequestInv' /\ at'[Request].pc \in Ended
  BY <1>1, RequestOut DEF Anew, Leaving, Ended
<1> QED
  BY <1>1, <1>2, RequestRests DEF Anew, Leaving, Settled

LEMMA RecovererLeaves ==
    ASSUME IInv, NEW r \in Recoverers, at[r].pc \notin {"idle", "out"}, NEW place \in Leaving,
           Put(r, End(place)), Rests(r) \/ Extends(r)
    PROVE  IInv'
<1>1. Moved(r) /\ Anew(r, place)
  BY Ends, Who DEF Leaving, Places, IInv
<1>2. RecovererInv(r)'
  BY <1>1, OutOfIt DEF Anew, Leaving
<1> QED
  BY <1>1, <1>2, RecovererRests DEF Anew, Leaving, Settled

LEMMA Leaves ==
    ASSUME IInv, NEW t \in Threads, at[t].pc \notin {"idle", "out"}, NEW place \in Leaving,
           Put(t, End(place)), Rests(t) \/ Extends(t)
    PROVE  IInv'
BY RequestLeaves, RecovererLeaves DEF Threads

LEMMA LocalRests ==
    ASSUME TypeOK, NEW t \in Threads, NEW to, Local(t, to)
    PROVE  Rests(t) /\ Put(t, to) /\ UNCHANGED <<scene, rows, remote, late>>
BY Idling DEF Local

LEMMA IsolateKeeps ==
    ASSUME IInv, NEW t \in Threads, Isolate(t)
    PROVE  IInv'
<1>1. TypeOK /\ at[t].pc \notin {"idle", "out"}
  BY DEF Isolate, At, IInv
<1>2. Put(t, End("out"))
  BY DEF Isolate, Attempt
<1>3. Rests(t)
  <2>1. CASE Transition(t, "recovery") /\ UNCHANGED <<scene, remote, late>>
    BY <1>1, <2>1, Transitions DEF Protecting
  <2>2. CASE UNCHANGED rows /\ UNCHANGED <<scene, remote, late>>
    BY <1>1, <2>2, Idling
  <2> QED
    BY <2>1, <2>2 DEF Isolate, Attempt
<1> QED
  BY <1>1, <1>2, <1>3, Leaves DEF Leaving

LEMMA DieKeeps ==
    ASSUME IInv, NEW t \in Threads, Die(t)
    PROVE  IInv'
<1>1. TypeOK /\ at[t].pc \notin {"idle", "out"}
  BY DEF Die, IInv
<1>2. Put(t, End("out")) /\ Rests(t)
  BY <1>1, LocalRests DEF Die
<1> QED
  BY <1>1, <1>2, Leaves DEF Leaving

-------------------------------------------------------------------------------
(***************************************************************************)
(* The steps of a recoverer.                                               *)
(***************************************************************************)
LEMMA TakeOverKeeps ==
    ASSUME IInv, NEW r \in Recoverers, TakeOver(r)
    PROVE  IInv'
<1>1. TypeOK /\ r \in Threads
  BY Who DEF IInv
<1>2. Seizes(r)
  BY <1>1, Seizing DEF TakeOver
<1>3. PICK place \in {"taken", "out"} : Put(r, End(place))
  BY DEF TakeOver
<1>4. Moved(r) /\ Anew(r, place)
  BY <1>1, <1>3, Ends DEF Places
<1> QED
  BY <1>2, <1>4, RecovererSeizes DEF Anew

LEMMA UnmovedSteps ==
    ASSUME TypeOK, StepInv, ~scene.remote
    PROVE  \A s \in Undo \cup Moves : step[s] = "pending"
<1>1. ~scene.source
  BY Scenery
<1>2. step["undoSource"] = "pending" /\ step["detach"] = "pending" /\ step["attach"] = "pending"
  BY <1>1 DEF StepInv
<1>3. step["undoTarget"] = "pending"
  BY <1>2 DEF StepInv, Good
<1> QED
  BY <1>2, <1>3 DEF Undo, Moves

LEMMA ReadKeeps ==
    ASSUME IInv, NEW r \in Recoverers, Read(r)
    PROVE  IInv'
<1>1. TypeOK /\ LeaseInv /\ StepInv /\ RowInv /\ r \in Threads /\ at[r].pc = "taken"
  BY Who DEF IInv, Read, At
<1>2. CASE Local(r, Isolating) \/ Local(r, End("out"))
  BY <1>1, <1>2, LocalRests, RecovererLeaves DEF Leaving, Isolating
<1> DEFINE seen == [status |-> op.status, target |-> op.target, row |-> row]
           next == IF row = "other" THEN [End("note") EXCEPT !.seen = seen]
                   ELSE IF scene.remote THEN [End("look") EXCEPT !.seen = seen]
                   ELSE [End("facts") EXCEPT !.seen = seen, !.todo = {"commit"}]
<1>3. CASE Local(r, next)
  <2>1. seen \in SeenRow /\ seen.row = row
    BY <1>1, Types DEF SeenRow, OpRow
  <2>2. row # "target"
    BY <1>1, Busy DEF RowInv
  <2> HIDE DEF seen
  <2>3. /\ next \in Shape
        /\ next.pc = IF row = "other" THEN "note" ELSE IF scene.remote THEN "look" ELSE "facts"
        /\ next.todo = IF row # "other" /\ ~scene.remote THEN {"commit"} ELSE {}
        /\ next.goal = "none" /\ next.seen.row = row
        /\ \A x \in Things : next.look[x] = "none"
    <3>1. \A place \in {"note", "look", "facts"} :
             /\ End(place) \in Shape /\ End(place).pc = place /\ End(place).todo = {}
             /\ End(place).goal = "none" /\ \A x \in Things : End(place).look[x] = "none"
      <4>1. {"note", "look", "facts"} \subseteq Places
        BY DEF Places
      <4> QED
        BY <4>1, EndShape
    <3>2. CASE row = "other"
      <4>1. next = [End("note") EXCEPT !.seen = seen]
        BY <3>2
      <4> HIDE DEF next
      <4>2. /\ next \in Shape /\ next.pc = End("note").pc /\ next.todo = End("note").todo
            /\ next.goal = End("note").goal /\ next.seen = seen /\ next.look = End("note").look
        BY <2>1, <3>1, <4>1, SeenFields
      <4> QED
        BY <2>1, <3>1, <3>2, <4>2
    <3>3. CASE row # "other" /\ scene.remote
      <4>1. next = [End("look") EXCEPT !.seen = seen]
        BY <3>3
      <4> HIDE DEF next
      <4>2. /\ next \in Shape /\ next.pc = End("look").pc /\ next.todo = End("look").todo
            /\ next.goal = End("look").goal /\ next.seen = seen /\ next.look = End("look").look
        BY <2>1, <3>1, <4>1, SeenFields
      <4> QED
        BY <2>1, <3>1, <3>3, <4>2
    <3>4. CASE row # "other" /\ ~scene.remote
      <4> DEFINE b == [End("facts") EXCEPT !.seen = seen]
      <4>1. next = [b EXCEPT !.todo = {"commit"}]
        BY <3>4
      <4>2. b = [End("facts") EXCEPT !.seen = seen]
        OBVIOUS
      <4> HIDE DEF b, next
      <4>3. /\ b \in Shape /\ b.pc = End("facts").pc /\ b.goal = End("facts").goal
            /\ b.seen = seen /\ b.look = End("facts").look
        BY <2>1, <3>1, <4>2, SeenFields
      <4>4. /\ next \in Shape /\ next.pc = b.pc /\ next.todo = {"commit"} /\ next.goal = b.goal
            /\ next.seen = b.seen /\ next.look = b.look
        BY <4>1, <4>3, TodoFields DEF Steps
      <4> QED
        BY <2>1, <3>1, <3>4, <4>3, <4>4
    <3> QED
      BY <3>2, <3>3, <3>4
  <2> HIDE DEF next
  <2>4. Rests(r) /\ Put(r, next) /\ UNCHANGED <<scene, rows, remote, late>>
    BY <1>1, <1>3, LocalRests
  <2>5. Moved(r) /\ at'[r] = next
    BY <1>1, <2>3, <2>4, Puts
  <2>6. scene' = scene /\ step' = step /\ member' = member /\ late' = late
    BY <2>4 DEF rows, remote
  <2>7. row \in {"source", "other"}
    BY <1>1, <2>2, Types DEF Rows
  <2>8. at'[r].look["source"] = "none" /\ at'[r].look["target"] = "none"
    BY <2>3, <2>5 DEF Things
  <2>9. RecovererPlaced(r)' /\ Answered(r)'
    BY <2>3, <2>5, <2>6, <2>7 DEF RecovererPlaced, Answered, Sighted, Mutating
  <2>10. LookHolds(r)' /\ Needed(r)'
    <3>1. ~scene.remote => ~scene.source
      BY <1>1, Scenery
    <3> QED
      BY <2>3, <2>5, <2>6, <2>8, <3>1 DEF LookHolds, Needed, Sighted
  <2>11. Resolved(r)' /\ Alone(r)'
    <3>1. ~scene.remote => \A s \in Undo \cup Moves : step[s] = "pending" /\ step[s] \notin Open
      BY <1>1, UnmovedSteps DEF Open
    <3>2. at'[r].pc \in {"note", "look", "facts"} /\ at'[r].goal = "none"
      BY <2>3, <2>5
    <3>3. at'[r].pc = "facts" => ~scene.remote
      BY <2>3, <2>5
    <3>4. Resolved(r)'
      BY <2>6, <3>1, <3>2, <3>3 DEF Resolved, Decided, Mutating
    <3>5. Alone(r)'
      BY <2>6, <3>1, <3>2, <3>3 DEF Alone, Decided, Mutating, Undo
    <3> QED
      BY <3>4, <3>5
  <2>12. RecovererInv(r)'
    BY <2>9, <2>10, <2>11 DEF RecovererInv
  <2>13. at'[r].pc \notin Settled /\ at'[r].pc # "call"
    BY <2>3, <2>5 DEF Settled
  <2> QED
    BY <1>1, <2>4, <2>5, <2>12, <2>13, RecovererRests
<1> QED
  BY <1>2, <1>3 DEF Read

LEMMA Abandons ==
    ASSUME NEW t
    PROVE  \E place \in Leaving : Abandon(t) = End(place)
BY DEF Abandon, Isolating, Leaving

LEMMA SeenTrue ==
    ASSUME TypeOK, MemberInv, NEW r \in Recoverers, NEW look \in Answers, Seen(r, look)
    PROVE  /\ look["target"] = "present" => member.target
           /\ look["target"] = "absent" => ~member.target
           /\ look["source"] = "present" => member.source
           /\ look["source"] = "absent" => scene.source /\ ~member.source
           /\ look["source"] = "none" => ~scene.source
           /\ look["target"] # "none"
<1>1. look["workspace"] = "absent" => ~workspace
  BY DEF Seen
<1>2. CASE look["workspace"] = "absent"
  BY <1>1, <1>2 DEF Seen, MemberInv
<1>3. CASE look["workspace"] = "unknown"
  BY <1>3 DEF Seen
<1>4. CASE look["workspace"] # "absent" /\ look["workspace"] # "unknown"
  BY <1>4 DEF Seen
<1> QED
  BY <1>2, <1>3, <1>4

\* Where it goes on, and with what to do.
Onward(r, place, todo) ==
    IF at[r].pc = "look" THEN place = "note" /\ todo = at[r].todo
    ELSE /\ todo = at[r].todo \ {Current(r)}
         /\ place = IF todo = {} THEN "note" ELSE "begin"

\* It has looked and goes on with what it has seen.
LEMMA LookMoves ==
    ASSUME IInv, NEW r \in Recoverers, at[r].pc \in {"look", "look again"}, Extends(r),
           NEW look \in Answers, Seen(r, look), NEW place \in {"note", "begin"},
           NEW todo \in SUBSET Steps,
           Moved(r), at'[r].pc = place, at'[r].todo = todo, at'[r].goal = at[r].goal,
           at'[r].seen = at[r].seen, at'[r].look = look,
           Onward(r, place, todo)
    PROVE  IInv'
<1>1. TypeOK /\ LeaseInv /\ MemberInv /\ RecovererInv(r) /\ r \in Threads /\ Owns(r)
  BY Who DEF IInv, Extends
<1>2. r \notin late /\ r \in lease.holders /\ ~lease.expired
  BY <1>1, Owning
<1>3. /\ scene' = scene /\ step' = step /\ member' = member /\ late' = late /\ op' = op
      /\ lease'.holders = {r}
  BY DEF Extends, Leases
<1>4. CASE at[r].pc = "look"
  <2>1. place = "note" /\ todo = {} /\ at[r].goal = "none" /\ scene.remote /\ at[r].seen.row # "target"
    BY <1>1, <1>4 DEF RecovererInv, RecovererPlaced, Ended, Settled, Mutating, Onward
  <2>2. RecovererPlaced(r)' /\ Answered(r)'
    BY <1>3, <2>1 DEF RecovererPlaced, Answered, Sighted, Mutating
  <2>3. LookHolds(r)'
    BY <1>1, <1>3, SeenTrue DEF LookHolds
  <2>4. Needed(r)' /\ Resolved(r)' /\ Alone(r)'
    BY <2>1 DEF Needed, Resolved, Alone, Decided, Mutating
  <2>5. RecovererInv(r)'
    BY <2>2, <2>3, <2>4 DEF RecovererInv
  <2> QED
    BY <1>1, <1>4, <2>1, <2>5, RecovererRests DEF Settled
<1>5. CASE at[r].pc = "look again"
  <2>1. /\ at[r].goal = "compensated" /\ at[r].todo \subseteq Undo /\ at[r].todo # {}
        /\ scene.remote /\ at[r].seen.row = "source"
    BY <1>1, <1>5 DEF RecovererInv, RecovererPlaced, Ended, Settled, Mutating
  <2>2. /\ todo = at[r].todo \ {Current(r)} /\ place = IF todo = {} THEN "note" ELSE "begin"
    BY <1>5 DEF Onward
  <2>3. todo # {} => todo = {"undoSource"} /\ Undo \subseteq at[r].todo
    <3>1. CASE Current(r) = "undoTarget"
      BY <2>1, <2>2, <3>1, CurrentUndo DEF Undo
    <3>2. CASE at[r].todo = {"undoSource"}
      BY <2>2, <3>2, CurrentOne DEF Steps, Mutations
    <3> QED
      BY <2>1, <3>1, <3>2, CurrentUndo
  <2>4. \A s \in Moves : step[s] \notin Open
    BY <1>1, <1>5 DEF RecovererInv, Resolved, Decided, Mutating
  <2>5. \A s \in Undo : step[s] \notin Open
    BY <1>1, <1>2, <1>5 DEF RecovererInv, Alone, Decided, Mutating
  <2>6. todo # {} => scene.source /\ ~member.source
    BY <1>1, <1>2, <1>5, <2>3 DEF RecovererInv, Needed
  <2>7. RecovererPlaced(r)' /\ Answered(r)'
    <3>1. CASE todo = {}
      BY <1>3, <2>1, <2>2, <3>1 DEF RecovererPlaced, Answered, Sighted, Mutating
    <3>2. CASE todo # {}
      BY <1>3, <2>1, <2>2, <2>3, <3>2 DEF RecovererPlaced, Answered, Sighted, Mutating, Undo
    <3> QED
      BY <3>1, <3>2
  <2>8. LookHolds(r)'
    BY <1>1, <1>3, SeenTrue DEF LookHolds
  <2>9. Needed(r)'
    <3>1. CASE todo = {}
      BY <2>2, <3>1 DEF Needed
    <3>2. CASE todo # {}
      <4>1. at'[r].pc = "begin"
        BY <2>2, <3>2
      <4>2. "undoTarget" \notin at'[r].todo
        <5>1. todo = {"undoSource"}
          BY <2>3, <3>2
        <5>2. "undoTarget" \notin {"undoSource"}
          OBVIOUS
        <5>3. at'[r].todo = {"undoSource"}
          BY <5>1
        <5> QED
          BY <5>2, <5>3
      <4>3. scene'.source /\ ~member'.source
        BY <1>3, <2>6, <3>2
      <4> QED
        BY <4>1, <4>2, <4>3 DEF Needed
    <3> QED
      BY <3>1, <3>2
  <2>10. Resolved(r)'
    BY <1>3, <2>2, <2>4 DEF Resolved, Decided
  <2>11. Alone(r)'
    BY <1>3, <2>1, <2>2, <2>5 DEF Alone, Undo
  <2>12. RecovererInv(r)'
    BY <2>7, <2>8, <2>9, <2>10, <2>11 DEF RecovererInv
  <2> QED
    BY <1>1, <1>5, <2>12, RecovererRests DEF Settled
<1> QED
  BY <1>4, <1>5

LEMMA LookKeeps ==
    ASSUME IInv, NEW r \in Recoverers, Look(r)
    PROVE  IInv'
<1> DEFINE s     == Current(r)
           left  == at[r].todo \ {s}
           shows(look) == IF s = "undoTarget" THEN look["target"] = "absent"
                                              ELSE look["source"] = "present"
           next(look) == IF At(r, "look") THEN [Go(r, "note") EXCEPT !.look = look]
                         ELSE IF ~shows(look) THEN End("out")
                         ELSE [Go(r, IF left = {} THEN "note" ELSE "begin") EXCEPT
                                 !.look = look, !.todo = left]
<1>1. TypeOK /\ r \in Threads /\ at[r].pc \in {"look", "look again"}
  BY Who DEF Look, IInv
<1>2. PICK look \in Answers :
        /\ Seen(r, look)
        /\ \/ Attempt(r, Extend(r), next(look), End("out"))
           \/ Local(r, Abandon(r))
  BY DEF Look
<1>3. CASE Local(r, Abandon(r))
  BY <1>1, <1>3, Abandons, LocalRests, RecovererLeaves
<1>4. CASE Attempt(r, Extend(r), next(look), End("out"))
  <2>1. CASE Put(r, End("out"))
    <3>1. Rests(r) \/ Extends(r)
      BY <1>1, <1>4, Idling, Extending DEF Attempt
    <3> QED
      BY <1>1, <2>1, <3>1, RecovererLeaves DEF Leaving
  <2>2. CASE Put(r, next(look)) /\ ~Put(r, End("out"))
    <3>1. Extends(r)
      BY <1>1, <1>4, <2>2, Extending DEF Attempt
    <3>2. at[r] \in Shape
      BY <1>1, Fields
    <3>3. look \in [Things -> Sights]
      BY DEF Answers, Things, Sights
    <3>4. CASE at[r].pc = "look"
      <4> DEFINE b == Go(r, "note")
                 c == [b EXCEPT !.look = look]
      <4>1. b = [at[r] EXCEPT !.pc = "note"] /\ "note" \in Places
        BY DEF Go, Places
      <4>2. c = [b EXCEPT !.look = look] /\ next(look) = c
        BY <3>4 DEF At
      <4> HIDE DEF b, c, next
      <4>3. /\ b \in Shape /\ b.pc = "note" /\ b.todo = at[r].todo /\ b.goal = at[r].goal
            /\ b.seen = at[r].seen
        BY <3>2, <4>1, GoFields
      <4>4. /\ c \in Shape /\ c.pc = b.pc /\ c.todo = b.todo /\ c.goal = b.goal
            /\ c.seen = b.seen /\ c.look = look
        BY <3>3, <4>2, <4>3, LookFields
      <4>5. Moved(r) /\ at'[r] = c
        BY <1>1, <2>2, <4>2, <4>4, Puts
      <4>6. at[r].todo \in SUBSET Steps
        BY <1>1, Fields
      <4> QED
        BY <1>1, <1>2, <3>1, <3>4, <4>3, <4>4, <4>5, <4>6, LookMoves DEF Onward
    <3>5. CASE at[r].pc = "look again"
      <4> DEFINE place == IF left = {} THEN "note" ELSE "begin"
                 b == Go(r, place)
                 c == [b EXCEPT !.look = look]
                 d == [c EXCEPT !.todo = left]
      <4>1. b = [at[r] EXCEPT !.pc = place] /\ place \in Places /\ place \in {"note", "begin"}
        BY DEF Go, Places
      <4>2. c = [b EXCEPT !.look = look] /\ d = [c EXCEPT !.todo = left]
        OBVIOUS
      <4>3. next(look) = d
        BY <2>2, <3>5 DEF At
      <4>4. left \in SUBSET Steps
        BY <1>1, Fields
      <4>5. place = IF left = {} THEN "note" ELSE "begin"
        OBVIOUS
      <4>6. left = at[r].todo \ {Current(r)}
        OBVIOUS
      <4> HIDE DEF b, c, d, next, place, left, s
      <4>7. /\ b \in Shape /\ b.pc = place /\ b.goal = at[r].goal /\ b.seen = at[r].seen
        BY <3>2, <4>1, GoFields
      <4>8. /\ c \in Shape /\ c.pc = b.pc /\ c.goal = b.goal /\ c.seen = b.seen /\ c.look = look
        BY <3>3, <4>2, <4>7, LookFields
      <4>12. d = [c EXCEPT !.todo = left] /\ c \in Shape /\ left \subseteq Steps
        BY <4>2, <4>4, <4>8
      <4>9. /\ d \in Shape /\ d.pc = c.pc /\ d.todo = left /\ d.goal = c.goal
            /\ d.seen = c.seen /\ d.look = c.look
        BY <4>12, TodoFields
      <4>11. Moved(r) /\ at'[r] = d
        BY <1>1, <2>2, <4>3, <4>9, Puts
      <4> QED
        BY <1>1, <1>2, <3>1, <3>5, <4>1, <4>4, <4>5, <4>6, <4>7, <4>8, <4>9, <4>11, LookMoves DEF Onward
    <3> QED
      BY <1>1, <3>4, <3>5
  <2> QED
    BY <1>4, <2>1, <2>2 DEF Attempt
<1> QED
  BY <1>2, <1>3, <1>4

\* A recoverer isolates the operation, whatever it has written in a step before.
LEMMA RecovererIsolates ==
    ASSUME IInv, NEW r \in Recoverers, at[r].pc \notin {"idle", "out"}, Put(r, Isolating),
           \/ Rests(r)
           \/ \E s \in Steps, v \in StepState : Writes(r, s, v) /\ Fits(s, v) /\ FitsRequest(s, v)
    PROVE  IInv'
<1>1. Put(r, End("isolate")) /\ "isolate" \in Leaving /\ "isolate" \in Places
  BY DEF Isolating, Leaving, Places
<1>2. CASE Rests(r)
  BY <1>1, <1>2, RecovererLeaves
<1>3. ASSUME NEW s \in Steps, NEW v \in StepState, Writes(r, s, v), Fits(s, v), FitsRequest(s, v)
      PROVE  IInv'
  <2>1. Moved(r) /\ Anew(r, "isolate")
    BY <1>1, Ends, Who DEF IInv
  <2>2. RecovererInv(r)'
    BY <2>1, OutOfIt DEF Anew
  <2>3. at'[r].pc \notin Settled
    BY <2>1 DEF Anew, Settled
  <2> QED
    BY <1>3, <2>1, <2>2, <2>3, RecovererWrites
<1> QED
  BY <1>2, <1>3

\* What remains to be settled of the way forward.
LEMMA SettleMoves ==
    ASSUME TypeOK, LeaseInv, StepInv, NEW r \in Recoverers, RecovererInv(r),
           at[r].pc = "facts", NEW left, left = at[r].todo \ {Current(r)},
           scene' = scene, member' = member, late' = late, lease' = lease,
           at'[r].todo = left, at'[r].seen = at[r].seen, at'[r].look = at[r].look,
           at'[r].pc = IF left # {} THEN "facts" ELSE IF scene.remote THEN "decide" ELSE "note",
           at'[r].goal = IF left = {} /\ ~scene.remote THEN "failed" ELSE at[r].goal,
           Current(r) \in Moves => step'[Current(r)] \notin Open,
           \A x \in Steps \ {Current(r)} : step'[x] = step[x],
           Current(r) \in Moves /\ scene.remote => at[r].look[Side(Current(r))] # "unknown"
    PROVE  RecovererInv(r)'
<1>1. /\ at[r].goal = "none" /\ at[r].todo # {} /\ at[r].todo \subseteq Moves \cup {"commit"}
      /\ ~scene.remote => at[r].todo = {"commit"}
      /\ at[r].seen.row = "source"
  BY DEF RecovererInv, RecovererPlaced, Ended, Settled, Mutating, Sighted
<1>2. Current(r) \in at[r].todo
  BY <1>1, CurrentFact
<1>3. left \subseteq Moves \cup {"commit"} /\ (~scene.remote => left = {})
  <2>1. ~scene.remote => Current(r) = "commit"
    BY <1>1, <1>2
  <2> QED
    BY <1>1, <2>1
<1>4. /\ \A s \in Moves \ at[r].todo : step[s] \notin Open
      /\ \A s \in Moves \ at[r].todo : scene.remote => at[r].look[Side(s)] # "unknown"
  BY DEF RecovererInv, Resolved
<1>5. ASSUME NEW s \in Moves \ left
      PROVE  step'[s] \notin Open /\ (scene.remote => at[r].look[Side(s)] # "unknown")
  <2>1. CASE s = Current(r)
    BY <2>1
  <2>2. CASE s # Current(r)
    <3>1. s \in Moves \ at[r].todo /\ s \in Steps
      BY <2>2 DEF Moves, Steps, Mutations
    <3> QED
      BY <1>4, <2>2, <3>1
  <2> QED
    BY <2>1, <2>2
<1>6. \A s \in Undo : step'[s] = step[s]
  <2>1. \A s \in Undo : s \in Steps /\ s # Current(r)
    BY <1>1, <1>2 DEF Undo, Moves, Steps, Mutations
  <2> QED
    BY <2>1
<1>7. RecovererPlaced(r)' /\ Answered(r)'
  <2>1. CASE left # {}
    BY <1>1, <1>3, <2>1 DEF RecovererPlaced, Answered, Sighted
  <2>2. CASE left = {} /\ scene.remote
    BY <1>1, <2>2 DEF RecovererPlaced, Answered, Sighted
  <2>3. CASE left = {} /\ ~scene.remote
    BY <1>1, <2>3 DEF RecovererPlaced, Answered, Sighted, Mutating
  <2> QED
    BY <2>1, <2>2, <2>3
<1>8. at'[r].pc \in {"facts", "decide", "note"}
  OBVIOUS
<1>9. LookHolds(r)' /\ Needed(r)'
  <2>1. r \notin late =>
          /\ at[r].look["target"] = "present" => member.target
          /\ at[r].look["target"] = "absent" => ~member.target
          /\ at[r].look["source"] = "present" => member.source
          /\ at[r].look["source"] = "absent" => scene.source /\ ~member.source
          /\ at[r].look["source"] = "none" => ~scene.source \/ at[r].seen.row = "other"
          /\ at[r].look["target"] = "none" => ~scene.remote \/ at[r].seen.row = "other"
    BY DEF RecovererInv, LookHolds, Sighted
  <2>2. LookHolds(r)'
    BY <2>1 DEF LookHolds
  <2>3. Needed(r)'
    BY <1>8 DEF Needed
  <2> QED
    BY <2>2, <2>3
<1>10. Resolved(r)'
  <2>1. at'[r].pc # "facts" => left = {}
    OBVIOUS
  <2>2. at'[r].pc = "decide" => scene.remote
    OBVIOUS
  <2>3. at'[r].pc = "facts" =>
          \A s \in Moves \ at'[r].todo :
             step'[s] \notin Open /\ (scene.remote => at'[r].look[Side(s)] # "unknown")
    BY <1>5
  <2>4. at'[r].pc # "facts" =>
          \A s \in Moves : step'[s] \notin Open /\ (scene.remote => at[r].look[Side(s)] # "unknown")
    BY <1>5, <2>1
  <2>5. Decided(r)' => at'[r].pc # "facts"
    BY DEF Decided, Mutating
  <2> QED
    BY <1>8, <2>2, <2>3, <2>4, <2>5 DEF Resolved
<1>11. Alone(r)'
  <2>1. SUFFICES ASSUME r \in lease.holders, ~lease.expired
                 PROVE  Alone(r)'
    BY DEF Alone
  <2>2. \A s \in Undo : step[s] \notin Open
    BY <2>1 DEF RecovererInv, Alone
  <2>3. scene.remote /\ Restored(at[r].look) => \A s \in Undo : step[s] = "pending"
    BY <2>1 DEF RecovererInv, Alone
  <2>4. Restored(at[r].look)' <=> Restored(at[r].look)
    BY DEF Restored
  <2> QED
    BY <1>6, <1>8, <2>2, <2>3, <2>4 DEF Alone
<1> QED
  BY <1>7, <1>9, <1>10, <1>11 DEF RecovererInv

LEMMA SettleKeeps ==
    ASSUME IInv, NEW r \in Recoverers, Settle(r)
    PROVE  IInv'
<1> DEFINE s    == Current(r)
           left == at[r].todo \ {s}
           v    == IF Happened(r, s) THEN "done" ELSE "failed"
           committed == at[r].seen.row = "target"
           next ==
             CASE left # {} -> [Go(r, "facts") EXCEPT !.todo = left]
               [] left = {} /\ ~scene.remote ->
                    [Go(r, "note") EXCEPT !.todo = left,
                       !.goal = IF committed THEN "succeeded" ELSE "failed"]
               [] left = {} /\ scene.remote /\ committed ->
                    [Go(r, "finalize") EXCEPT !.todo = left, !.goal = "succeeded"]
               [] OTHER -> [Go(r, "decide") EXCEPT !.todo = left]
<1>1. /\ TypeOK /\ LeaseInv /\ StepInv /\ MemberInv /\ RecovererInv(r)
      /\ r \in Threads /\ at[r].pc = "facts"
  BY Who DEF IInv, Settle, At
<1>2. /\ at[r].goal = "none" /\ at[r].todo # {} /\ at[r].todo \subseteq Moves \cup {"commit"}
      /\ ~scene.remote => at[r].todo = {"commit"}
      /\ at[r].seen.row = "source"
  BY <1>1 DEF RecovererInv, RecovererPlaced, Ended, Settled, Mutating, Sighted
<1>3. s \in at[r].todo
  BY <1>2, CurrentFact
<1>4. s \in Steps /\ s \notin Undo /\ s # "prepare" /\ (s \in Moves \/ s = "commit")
  BY <1>2, <1>3 DEF Moves, Undo, Steps, Mutations
<1>5. v \in {"done", "failed"}
  OBVIOUS
<1>6. CASE Unclear(r, s) /\ Local(r, Isolating)
  BY <1>1, <1>6, LocalRests, RecovererIsolates
<1>7. left \subseteq Steps
  BY <1>1, Fields
\* Where it goes on.
<1>8. ASSUME Put(r, next)
      PROVE  /\ Moved(r) /\ at'[r].todo = left /\ at'[r].seen = at[r].seen
             /\ at'[r].look = at[r].look
             /\ at'[r].pc = IF left # {} THEN "facts" ELSE IF scene.remote THEN "decide" ELSE "note"
             /\ at'[r].goal = IF left = {} /\ ~scene.remote THEN "failed" ELSE at[r].goal
  <2> DEFINE b(p) == Go(r, p)
             c(p) == [b(p) EXCEPT !.todo = left]
             d    == [c("note") EXCEPT !.goal = "failed"]
  <2>1. ASSUME NEW p \in {"facts", "decide", "note"}
        PROVE  /\ c(p) \in Shape /\ c(p).pc = p /\ c(p).todo = left /\ c(p).goal = at[r].goal
               /\ c(p).seen = at[r].seen /\ c(p).look = at[r].look
    <3>1. b(p) = [at[r] EXCEPT !.pc = p] /\ p \in Places /\ at[r] \in Shape
      BY <1>1, Fields DEF Go, Places
    <3>2. c(p) = [b(p) EXCEPT !.todo = left]
      OBVIOUS
    <3> HIDE DEF b, c, left
    <3>3. /\ b(p) \in Shape /\ b(p).pc = p /\ b(p).goal = at[r].goal /\ b(p).seen = at[r].seen
          /\ b(p).look = at[r].look
      BY <3>1, GoFields
    <3> QED
      BY <1>7, <3>2, <3>3, TodoFields
  <2>2. /\ d \in Shape /\ d.pc = "note" /\ d.todo = left /\ d.goal = "failed"
        /\ d.seen = at[r].seen /\ d.look = at[r].look
    <3>1. d = [c("note") EXCEPT !.goal = "failed"] /\ "failed" \in Goals
      BY DEF Goals, Settled
    <3> HIDE DEF c, d
    <3> QED
      BY <2>1, <3>1, GoalFields
  <2>3. next = IF left # {} THEN c("facts") ELSE IF scene.remote THEN c("decide") ELSE d
    <3>1. ~committed
      BY <1>2
    <3>2. CASE left # {}
      BY <3>2
    <3>3. CASE left = {} /\ scene.remote
      BY <3>1, <3>3
    <3>4. CASE left = {} /\ ~scene.remote
      BY <3>1, <3>4
    <3> QED
      BY <3>2, <3>3, <3>4
  <2> HIDE DEF c, d, next, left
  <2>4. next \in Shape
    BY <2>1, <2>2, <2>3
  <2>5. Moved(r) /\ at'[r] = next
    BY <1>1, <1>8, <2>4, Puts
  <2>6. CASE left # {}
    BY <2>1, <2>3, <2>5, <2>6
  <2>7. CASE left = {} /\ scene.remote
    BY <2>1, <2>3, <2>5, <2>7
  <2>8. CASE left = {} /\ ~scene.remote
    BY <2>2, <2>3, <2>5, <2>8
  <2> QED
    BY <2>6, <2>7, <2>8
<1>9. ~Unclear(r, s) => /\ s \in Moves => at[r].look[Side(s)] # "unknown"
                        /\ Happened(r, s) => step[s] \notin {"pending", "failed"}
  BY <1>4 DEF Unclear, Moves
<1>10. left = at[r].todo \ {Current(r)} /\ s = Current(r)
  OBVIOUS
<1>11. CASE ~Unclear(r, s) /\ step[s] \notin Open /\ Local(r, next)
  <2>1. Rests(r) /\ Put(r, next) /\ UNCHANGED <<scene, rows, remote, late>>
    BY <1>1, <1>11, LocalRests
  <2>2. /\ Moved(r) /\ at'[r].todo = left /\ at'[r].seen = at[r].seen
        /\ at'[r].look = at[r].look
        /\ at'[r].pc = IF left # {} THEN "facts" ELSE IF scene.remote THEN "decide" ELSE "note"
        /\ at'[r].goal = IF left = {} /\ ~scene.remote THEN "failed" ELSE at[r].goal
    BY <1>8, <2>1
  <2>3. scene' = scene /\ member' = member /\ late' = late /\ lease' = lease /\ step' = step
    BY <2>1 DEF rows, remote
  <2> HIDE DEF next, left, s
  <2>4. RecovererInv(r)'
    BY <1>1, <1>9, <1>10, <1>11, <2>2, <2>3, SettleMoves
  <2>5. at'[r].pc \notin Settled /\ at'[r].pc # "call"
    BY <2>2 DEF Settled
  <2> QED
    BY <1>1, <2>1, <2>2, <2>4, <2>5, RecovererRests
<1>12. CASE ~Unclear(r, s) /\ step[s] \in Open /\ Attempt(r, SetStep(r, s, v), next, Isolating)
  <2>1. CASE UNCHANGED rows /\ Put(r, Isolating)
    <3>1. Rests(r)
      BY <1>1, <1>12, <2>1, Idling DEF Attempt
    <3> QED
      BY <1>1, <2>1, <3>1, RecovererIsolates
  <2>2. CASE SetStep(r, s, v)
    <3>1. UNCHANGED <<scene, remote, late>>
      BY <1>12 DEF Attempt
    <3>2. v \in Good \cup Open \cup {"failed"} /\ v \in StepState /\ v \notin Open
      BY DEF Good, Open, StepState
    <3> HIDE DEF v
    <3>3. Writes(r, s, v)
      BY <1>1, <1>4, <2>2, <3>1, <3>2, Setting
    <3>4. r \notin late
      BY <1>1, <3>3, Owning DEF Writes
    <3>5. Fits(s, v)
      <4>1. step[s] # "pending"
        BY <1>12 DEF Open
      <4>2. s = "attach" /\ v = "failed" => ~member.target
        <5>1. SUFFICES ASSUME s = "attach", v = "failed" PROVE ~member.target
          OBVIOUS
        <5>2. at[r].look["target"] # "present" /\ at[r].look["target"] # "unknown"
          BY <1>9, <1>12, <5>1, Sides DEF Happened, v, Moves
        <5>3. scene.remote
          BY <1>1, <4>1, <5>1 DEF StepInv
        <5>4. at[r].look["target"] # "none"
          BY <1>1, <1>2, <3>4, <5>3 DEF RecovererInv, LookHolds, Sighted
        <5>5. at[r].look["target"] \in Sights
          BY <1>1, Fields DEF Things
        <5>6. at[r].look["target"] = "absent"
          BY <5>2, <5>4, <5>5 DEF Sights
        <5> QED
          BY <1>1, <3>4, <5>6 DEF RecovererInv, LookHolds, Sighted
      <4>3. s = "detach" /\ v = "failed" => (scene.member => member.source)
        <5>1. SUFFICES ASSUME s = "detach", v = "failed", scene.member PROVE member.source
          OBVIOUS
        <5>2. at[r].look["source"] # "absent" /\ at[r].look["source"] # "unknown"
          BY <1>9, <1>12, <5>1, Sides DEF Happened, v, Moves
        <5>3. scene.source
          BY <1>1, <5>1, Scenery
        <5>4. at[r].look["source"] # "none"
          BY <1>1, <1>2, <3>4, <5>3 DEF RecovererInv, LookHolds, Sighted
        <5>5. at[r].look["source"] \in Sights
          BY <1>1, Fields DEF Things
        <5>6. at[r].look["source"] = "present"
          BY <5>2, <5>4, <5>5 DEF Sights
        <5> QED
          BY <1>1, <3>4, <5>6 DEF RecovererInv, LookHolds, Sighted
      <4>4. s = "detach" => scene.source
        BY <1>1, <4>1 DEF StepInv
      <4>5. s = "attach" => scene.remote
        BY <1>1, <4>1 DEF StepInv
      <4>6. s # "undoTarget" /\ s # "undoSource"
        BY <1>4 DEF Undo
      <4> QED
        BY <1>4, <3>2, <4>2, <4>3, <4>4, <4>5, <4>6 DEF Fits
    <3>6. FitsRequest(s, v)
      BY <1>4, <3>2 DEF FitsRequest
    <3>7. CASE Put(r, Isolating)
      BY <1>1, <1>4, <3>2, <3>3, <3>5, <3>6, <3>7, RecovererIsolates
    <3>8. CASE Put(r, next)
      <4>1. /\ Moved(r) /\ at'[r].todo = left /\ at'[r].seen = at[r].seen
            /\ at'[r].look = at[r].look
            /\ at'[r].pc = IF left # {} THEN "facts" ELSE IF scene.remote THEN "decide" ELSE "note"
            /\ at'[r].goal = IF left = {} /\ ~scene.remote THEN "failed" ELSE at[r].goal
        BY <1>8, <3>8
      <4> HIDE DEF next, left, s
      <4>2. /\ scene' = scene /\ member' = member /\ late' = late /\ lease' = lease
            /\ step'[s] \notin Open /\ \A x \in Steps \ {s} : step'[x] = step[x]
        BY <3>2, <3>3 DEF Writes
      <4>3. RecovererInv(r)'
        BY <1>1, <1>9, <1>10, <1>12, <4>1, <4>2, SettleMoves
      <4>4. at'[r].pc \notin Settled
        BY <4>1 DEF Settled
      <4> QED
        BY <1>1, <1>4, <3>2, <3>3, <3>5, <3>6, <4>1, <4>3, <4>4, RecovererWrites
    <3> QED
      BY <1>12, <3>7, <3>8 DEF Attempt
  <2> QED
    BY <1>12, <2>1, <2>2 DEF Attempt
<1> QED
  BY <1>6, <1>11, <1>12 DEF Settle

\* A place where what was seen is only looked at.
LEMMA Sees ==
    ASSUME NEW r \in Recoverers, RecovererInv(r), at[r].pc \in Sighted, r \notin late
    PROVE  /\ at[r].look["target"] = "present" => member.target
           /\ at[r].look["target"] = "absent" => ~member.target
           /\ at[r].look["source"] = "present" => member.source
           /\ at[r].look["source"] = "absent" => scene.source /\ ~member.source
           /\ at[r].look["source"] = "none" => ~scene.source
           /\ at[r].look["target"] = "none" => ~scene.remote
<1>1. at[r].seen.row = "source"
  BY DEF RecovererInv, RecovererPlaced
<1> QED
  BY <1>1 DEF RecovererInv, LookHolds

LEMMA LookHoldsOn ==
    ASSUME NEW r \in Recoverers, RecovererInv(r), at[r].pc \in Sighted,
           scene' = scene, member' = member, late' = late,
           at'[r].look["source"] = at[r].look["source"],
           at'[r].look["target"] = at[r].look["target"]
    PROVE  LookHolds(r)'
BY Sees DEF LookHolds

LEMMA Forgets ==
    ASSUME NEW f \in [Things -> Sights]
    PROVE  /\ [f EXCEPT !["workspace"] = "none"] \in [Things -> Sights]
           /\ [f EXCEPT !["workspace"] = "none"]["source"] = f["source"]
           /\ [f EXCEPT !["workspace"] = "none"]["target"] = f["target"]
<1>1. "none" \in Sights /\ "source" \in Things /\ "target" \in Things
  BY DEF Sights, Things
<1> QED
  BY <1>1

LEMMA PreparedKeeps ==
    ASSUME IInv, NEW r \in Recoverers, Prepared(r)
    PROVE  IInv'
<1> DEFINE b    == Go(r, "target undone?")
           next == [b EXCEPT !.look["workspace"] = "none"]
<1>1. /\ TypeOK /\ LeaseInv /\ RecovererInv(r) /\ r \in Threads /\ at[r].pc = "prepared?"
  BY Who DEF IInv, Prepared, At
<1>2. /\ at[r].goal = "none" /\ at[r].todo = {} /\ scene.remote /\ at[r].seen.row = "source"
  BY <1>1 DEF RecovererInv, RecovererPlaced, Ended, Settled, Mutating, Sighted
<1>3. "prepare" \in Steps /\ "failed" \in StepState
  BY DEF Steps, StepState
<1>4. next = [Go(r, "target undone?") EXCEPT !.look["workspace"] = "none"]
  OBVIOUS
\* The place after the question of the workspace.
<1>5. ASSUME Put(r, next)
      PROVE  /\ Moved(r) /\ at'[r].pc = "target undone?" /\ at'[r].todo = {}
             /\ at'[r].goal = "none" /\ at'[r].seen = at[r].seen
             /\ at'[r].look["source"] = at[r].look["source"]
             /\ at'[r].look["target"] = at[r].look["target"]
  <2>1. b = [at[r] EXCEPT !.pc = "target undone?"] /\ "target undone?" \in Places /\ at[r] \in Shape
    BY <1>1, Fields DEF Go, Places
  <2> HIDE DEF b
  <2>2. /\ b \in Shape /\ b.pc = "target undone?" /\ b.todo = at[r].todo
        /\ b.goal = at[r].goal /\ b.seen = at[r].seen /\ b.look = at[r].look
    BY <1>1, GoIs, <2>1 DEF b
  <2> DEFINE look == [b.look EXCEPT !["workspace"] = "none"]
  <2>3. b.look \in [Things -> Sights]
    BY <2>2 DEF Shape
  <2>4. /\ look \in [Things -> Sights] /\ look["source"] = at[r].look["source"]
        /\ look["target"] = at[r].look["target"]
    BY <2>2, <2>3, Forgets
  <2>5. next = [b EXCEPT !.look = look]
    OBVIOUS
  <2> HIDE DEF next, look
  <2>8. next = [b EXCEPT !.look = look] /\ b \in Shape /\ look \in [Things -> Sights]
    BY <2>2, <2>4, <2>5
  <2>6. /\ next \in Shape /\ next.pc = b.pc /\ next.todo = b.todo /\ next.goal = b.goal
        /\ next.seen = b.seen /\ next.look = look
    BY <2>8, LookFields
  <2>7. Moved(r) /\ at'[r] = next
    BY <1>1, <1>5, <2>6, Puts
  <2> QED
    BY <1>2, <2>2, <2>4, <2>6, <2>7
<1> HIDE DEF next
<1>6. ASSUME Put(r, next), scene' = scene, member' = member, late' = late
      PROVE  RecovererInv(r)' /\ Moved(r) /\ at'[r].pc = "target undone?"
  <2>1. RecovererPlaced(r)' /\ Answered(r)'
    BY <1>2, <1>5, <1>6 DEF RecovererPlaced, Answered
  <2>2. LookHolds(r)'
    BY <1>1, <1>5, <1>6, LookHoldsOn DEF Sighted
  <2>3. Needed(r)' /\ Resolved(r)' /\ Alone(r)'
    BY <1>5, <1>6 DEF Needed, Resolved, Alone, Decided, Mutating
  <2> QED
    BY <1>5, <1>6, <2>1, <2>2, <2>3 DEF RecovererInv
<1>7. ASSUME Rests(r), Put(r, next)
      PROVE  IInv'
  <2>1. scene' = scene /\ member' = member /\ late' = late
    BY <1>7 DEF Rests
  <2>2. RecovererInv(r)' /\ Moved(r) /\ at'[r].pc = "target undone?"
    BY <1>6, <1>7, <2>1
  <2> QED
    BY <1>1, <1>7, <2>2, RecovererRests DEF Settled
<1>8. ASSUME Rests(r), Put(r, Isolating)
      PROVE  IInv'
  BY <1>1, <1>8, RecovererIsolates
<1>9. ASSUME Attempt(r, SetStep(r, "prepare", "failed"), next, Isolating)
      PROVE  IInv'
  <2>1. CASE UNCHANGED rows /\ Put(r, Isolating)
    BY <1>1, <1>8, <1>9, <2>1, Idling DEF Attempt
  <2>2. CASE SetStep(r, "prepare", "failed")
    <3>1. Writes(r, "prepare", "failed")
      BY <1>1, <1>3, <1>9, <2>2, Setting DEF Attempt
    <3>2. Fits("prepare", "failed") /\ FitsRequest("prepare", "failed")
      BY DEF Fits, FitsRequest, Undo, Moves, Open
    <3>3. CASE Put(r, Isolating)
      BY <1>1, <1>3, <3>1, <3>2, <3>3, RecovererIsolates
    <3>4. CASE Put(r, next)
      <4>1. scene' = scene /\ member' = member /\ late' = late
        BY <3>1 DEF Writes
      <4>2. RecovererInv(r)' /\ Moved(r) /\ at'[r].pc = "target undone?"
        BY <1>6, <3>4, <4>1
      <4> QED
        BY <1>1, <1>3, <3>1, <3>2, <4>2, RecovererWrites DEF Settled
    <3> QED
      BY <1>9, <3>3, <3>4 DEF Attempt
  <2> QED
    BY <1>9, <2>1, <2>2 DEF Attempt
<1>10. ASSUME Attempt(r, RecordFact(r, "unowned"), next, Isolating)
       PROVE  IInv'
  <2>1. Rests(r)
    BY <1>1, <1>10, Idling, Facts DEF Attempt, Ownership
  <2> QED
    BY <1>7, <1>8, <1>10, <2>1 DEF Attempt
<1>11. ASSUME Local(r, next)
       PROVE  IInv'
  BY <1>1, <1>7, <1>11, LocalRests
<1>12. ASSUME Local(r, Isolating)
       PROVE  IInv'
  BY <1>1, <1>8, <1>12, LocalRests
<1> QED
  BY <1>4, <1>9, <1>10, <1>11, <1>12 DEF Prepared

\* What comes of a step of the way back that may have been left open.
LEMMA UndoneCases ==
    ASSUME IInv, NEW r \in Recoverers, at[r].pc \notin {"idle", "out"}, NEW s \in Undo,
           NEW place, NEW showsIt, NEW next, Undone(r, s, place, showsIt, next)
    PROVE  \/ IInv'
           \/ Put(r, next) /\ Rests(r) /\ step[s] \notin Open
           \/ /\ Put(r, next) /\ step[s] \in Open
              /\ Writes(r, s, "done") /\ Fits(s, "done") /\ FitsRequest(s, "done")
<1>1. TypeOK /\ StepInv /\ r \in Threads /\ s \in Steps
  BY Who DEF IInv, Undo, Steps, Mutations
<1>2. ASSUME step[s] \in Open, NEW v \in StepState
      PROVE  Fits(s, v) /\ FitsRequest(s, v)
  BY <1>1, <1>2 DEF Fits, FitsRequest, StepInv, Undo, Moves, Open
<1>3. {"done", "unknown"} \subseteq StepState /\ "done" \in Good /\ "unknown" \in Open
  BY DEF StepState, Good, Open
<1>4. CASE step[s] \notin Open /\ Local(r, next)
  BY <1>1, <1>4, LocalRests
<1>5. CASE step[s] \in Open /\ showsIt /\ Attempt(r, SetStep(r, s, "done"), next, Isolating)
  <2>1. CASE UNCHANGED rows /\ Put(r, Isolating)
    BY <1>1, <1>5, <2>1, Idling, RecovererIsolates DEF Attempt
  <2>2. CASE SetStep(r, s, "done")
    <3>1. Writes(r, s, "done")
      BY <1>1, <1>3, <1>5, <2>2, Setting DEF Attempt
    <3>2. Fits(s, "done") /\ FitsRequest(s, "done")
      BY <1>2, <1>3, <1>5
    <3>3. CASE Put(r, Isolating)
      BY <1>1, <1>3, <3>1, <3>2, <3>3, RecovererIsolates
    <3> QED
      BY <1>5, <3>1, <3>2, <3>3 DEF Attempt
  <2> QED
    BY <1>5, <2>1, <2>2 DEF Attempt
<1>6. CASE step[s] = "started" /\ ~showsIt /\ Attempt(r, SetStep(r, s, "unknown"), Isolating, Isolating)
  <2>1. CASE UNCHANGED rows
    BY <1>1, <1>6, <2>1, Idling, RecovererIsolates DEF Attempt
  <2>2. CASE SetStep(r, s, "unknown")
    <3>1. Writes(r, s, "unknown")
      BY <1>1, <1>3, <1>6, <2>2, Setting DEF Attempt
    <3>2. Fits(s, "unknown") /\ FitsRequest(s, "unknown")
      BY <1>2, <1>3, <1>6 DEF Open
    <3> QED
      BY <1>1, <1>3, <1>6, <3>1, <3>2, RecovererIsolates DEF Attempt
  <2> QED
    BY <1>6, <2>1, <2>2 DEF Attempt
<1>7. CASE step[s] = "unknown" /\ ~showsIt /\ Local(r, Isolating)
  BY <1>1, <1>7, LocalRests, RecovererIsolates
<1> QED
  BY <1>4, <1>5, <1>6, <1>7 DEF Undone

LEMMA TargetUndoneKeeps ==
    ASSUME IInv, NEW r \in Recoverers, TargetUndone(r)
    PROVE  IInv'
<1>1. /\ TypeOK /\ LeaseInv /\ RecovererInv(r) /\ r \in Threads /\ at[r].pc = "target undone?"
  BY Who DEF IInv, TargetUndone, Undone, At
<1>2. /\ at[r].goal = "none" /\ at[r].todo = {} /\ scene.remote /\ at[r].seen.row = "source"
  BY <1>1 DEF RecovererInv, RecovererPlaced, Ended, Settled, Mutating, Sighted
<1>3. ASSUME Put(r, Go(r, "source undone?")), scene' = scene, member' = member, late' = late,
             step'["undoTarget"] \notin Open
      PROVE  RecovererInv(r)' /\ Moved(r) /\ at'[r].pc = "source undone?"
  <2>1. Moved(r) /\ Going(r, "source undone?")
    BY <1>1, <1>3, Goes DEF Places
  <2>2. RecovererPlaced(r)' /\ Answered(r)'
    BY <1>2, <1>3, <2>1 DEF RecovererPlaced, Answered, Going
  <2>3. LookHolds(r)'
    BY <1>1, <1>3, <2>1, LookHoldsOn DEF Sighted, Going
  <2>4. Needed(r)' /\ Resolved(r)' /\ Alone(r)'
    BY <1>3, <2>1 DEF Needed, Resolved, Alone, Decided, Mutating, Going
  <2> QED
    BY <2>1, <2>2, <2>3, <2>4 DEF RecovererInv, Going
<1>4. CASE Put(r, Go(r, "source undone?")) /\ Rests(r) /\ step["undoTarget"] \notin Open
  <2>1. RecovererInv(r)' /\ Moved(r) /\ at'[r].pc = "source undone?"
    BY <1>3, <1>4 DEF Rests
  <2> QED
    BY <1>1, <1>4, <2>1, RecovererRests DEF Settled
<1>5. CASE /\ Put(r, Go(r, "source undone?"))
           /\ Writes(r, "undoTarget", "done") /\ Fits("undoTarget", "done")
           /\ FitsRequest("undoTarget", "done")
  <2>1. RecovererInv(r)' /\ Moved(r) /\ at'[r].pc = "source undone?"
    BY <1>3, <1>5 DEF Writes, Open
  <2>2. "undoTarget" \in Steps /\ "done" \in StepState
    BY DEF Steps, Mutations, StepState, Good
  <2> QED
    BY <1>1, <1>5, <2>1, <2>2, RecovererWrites DEF Settled
<1> QED
  BY <1>1, <1>4, <1>5, UndoneCases DEF TargetUndone, Undo


LEMMA SourceUndoneMoves ==
    ASSUME IInv, NEW r \in Recoverers, at[r].pc = "source undone?", Moved(r),
           at'[r].todo \in {{}, {"detach", "attach", "commit"}},
           at'[r].seen = at[r].seen, at'[r].look = at[r].look,
           NEW far \in BOOLEAN,
           far = (Restored(at[r].look) /\ \E s \in Undo : step[s] # "pending"),
           far => at'[r].pc = "enter" /\ at'[r].goal = "compensated" /\ at'[r].todo = {},
           ~far => /\ at'[r].pc = "facts" /\ at'[r].goal = "none"
                   /\ at'[r].todo = {"detach", "attach", "commit"},
           scene' = scene, member' = member, late' = late, lease' = lease,
           step'["undoSource"] \notin Open,
           \A x \in Steps \ {"undoSource"} : step'[x] = step[x],
           step["undoSource"] = "pending" => step'["undoSource"] = "pending"
    PROVE  RecovererInv(r)'
<1>1. TypeOK /\ LeaseInv /\ StepInv /\ RecovererInv(r)
  BY DEF IInv
<1>2. scene.remote /\ at[r].seen.row = "source"
  BY <1>1 DEF RecovererInv, RecovererPlaced, Ended, Settled, Mutating, Sighted
<1>3. \A m \in Moves : step'[m] = step[m]
  BY DEF Moves, Steps, Mutations
<1>4. step'["undoTarget"] = step["undoTarget"]
  BY DEF Steps, Mutations
<1>5. RecovererPlaced(r)' /\ Answered(r)'
  <2>1. CASE far
    BY <1>2, <2>1 DEF RecovererPlaced, Answered
  <2>2. CASE ~far
    BY <1>2, <2>2 DEF RecovererPlaced, Answered, Moves
  <2> QED
    BY <2>1, <2>2
<1>6. LookHolds(r)'
  BY <1>1, LookHoldsOn DEF Sighted
<1>7. Needed(r)'
  BY DEF Needed
<1>8. Resolved(r)'
  <2>1. CASE far
    <3>1. \A m \in Moves : step[m] \notin Open
      BY <1>1, <2>1 DEF StepInv
    <3> QED
      BY <1>3, <2>1, <3>1 DEF Resolved
  <2>2. CASE ~far
    BY <2>2 DEF Resolved, Decided, Mutating, Moves
  <2> QED
    BY <2>1, <2>2
<1>9. Alone(r)'
  <2>1. SUFFICES ASSUME r \in lease.holders, ~lease.expired
                 PROVE  Alone(r)'
    BY DEF Alone
  <2>2. \A s \in Undo : step'[s] \notin Open
    BY <1>1, <1>4, <2>1 DEF RecovererInv, Alone, Undo
  <2>3. ~far /\ Restored(at[r].look) => \A s \in Undo : step'[s] = "pending"
    BY <1>4 DEF Undo
  <2>4. Restored(at[r].look)' <=> Restored(at[r].look)
    BY DEF Restored
  <2>5. at'[r].pc \in {"enter", "facts"} /\ (at'[r].pc = "facts" => ~far)
    OBVIOUS
  <2> QED
    BY <2>2, <2>3, <2>4, <2>5 DEF Alone
<1> QED
  BY <1>5, <1>6, <1>7, <1>8, <1>9 DEF RecovererInv

LEMMA SourceUndoneKeeps ==
    ASSUME IInv, NEW r \in Recoverers, SourceUndone(r)
    PROVE  IInv'
<1> DEFINE look == at[r].look
           far  == Restored(look) /\ \E s \in {"undoTarget", "undoSource"} : step[s] # "pending"
           near == [Go(r, "facts") EXCEPT !.todo = {"detach", "attach", "commit"}]
           back == [Go(r, "enter") EXCEPT !.goal = "compensated"]
           next == IF far THEN back ELSE near
           shows == look["target"] = "absent" /\ look["source"] = "present"
<1>1. /\ TypeOK /\ LeaseInv /\ RecovererInv(r) /\ r \in Threads /\ at[r].pc = "source undone?"
  BY Who DEF IInv, SourceUndone, Undone, At
<1>2. /\ at[r].goal = "none" /\ at[r].todo = {} /\ scene.remote /\ at[r].seen.row = "source"
  BY <1>1 DEF RecovererInv, RecovererPlaced, Ended, Settled, Mutating, Sighted
<1>3. Undone(r, "undoSource", "source undone?", shows, next)
  BY DEF SourceUndone
<1>4. far \in BOOLEAN /\ far = (Restored(at[r].look) /\ \E s \in Undo : step[s] # "pending")
  BY DEF Undo
<1> HIDE DEF far
<1>5. ASSUME Put(r, next)
      PROVE  /\ Moved(r) /\ at'[r].todo \in {{}, {"detach", "attach", "commit"}}
             /\ at'[r].seen = at[r].seen /\ at'[r].look = at[r].look
             /\ far => at'[r].pc = "enter" /\ at'[r].goal = "compensated" /\ at'[r].todo = {}
             /\ ~far => /\ at'[r].pc = "facts" /\ at'[r].goal = "none"
                        /\ at'[r].todo = {"detach", "attach", "commit"}
  <2>1. CASE far
    <3> DEFINE b == Go(r, "enter")
    <3>1. /\ b \in Shape /\ b.pc = "enter" /\ b.todo = at[r].todo
          /\ b.seen = at[r].seen /\ b.look = at[r].look
      BY <1>1, GoIs DEF Places
    <3>2. back = [b EXCEPT !.goal = "compensated"] /\ "compensated" \in Goals
      BY DEF Goals, Settled
    <3>3. next = back
      BY <2>1
    <3> HIDE DEF b, back, next
    <3>4. back = [b EXCEPT !.goal = "compensated"] /\ b \in Shape /\ "compensated" \in Goals
      BY <3>1, <3>2
    <3>5. /\ back \in Shape /\ back.pc = b.pc /\ back.todo = b.todo /\ back.goal = "compensated"
          /\ back.seen = b.seen /\ back.look = b.look
      BY <3>4, GoalFields
    <3>6. Moved(r) /\ at'[r] = back
      BY <1>1, <1>5, <3>3, <3>5, Puts
    <3> QED
      BY <1>2, <2>1, <3>1, <3>5, <3>6
  <2>2. CASE ~far
    <3> DEFINE b == Go(r, "facts")
    <3>1. /\ b \in Shape /\ b.pc = "facts" /\ b.goal = at[r].goal
          /\ b.seen = at[r].seen /\ b.look = at[r].look
      BY <1>1, GoIs DEF Places
    <3>2. /\ near = [b EXCEPT !.todo = {"detach", "attach", "commit"}]
          /\ {"detach", "attach", "commit"} \subseteq Steps
      BY DEF Steps, Mutations
    <3>3. next = near
      BY <2>2
    <3> HIDE DEF b, near, next
    <3>4. /\ near = [b EXCEPT !.todo = {"detach", "attach", "commit"}] /\ b \in Shape
          /\ {"detach", "attach", "commit"} \subseteq Steps
      BY <3>1, <3>2
    <3>5. /\ near \in Shape /\ near.pc = b.pc /\ near.todo = {"detach", "attach", "commit"}
          /\ near.goal = b.goal /\ near.seen = b.seen /\ near.look = b.look
      BY <3>4, TodoFields
    <3>6. Moved(r) /\ at'[r] = near
      BY <1>1, <1>5, <3>3, <3>5, Puts
    <3> QED
      BY <1>2, <2>2, <3>1, <3>5, <3>6
  <2> QED
    BY <2>1, <2>2
<1> HIDE DEF next
<1>6. CASE Put(r, next) /\ Rests(r) /\ step["undoSource"] \notin Open
  <2>1. /\ scene' = scene /\ member' = member /\ late' = late /\ lease' = lease /\ step' = step
    BY <1>6 DEF Rests
  <2>2. RecovererInv(r)'
    BY <1>1, <1>4, <1>5, <1>6, <2>1, SourceUndoneMoves
  <2>3. Moved(r) /\ at'[r].pc \in {"enter", "facts"}
    BY <1>5, <1>6
  <2> QED
    BY <1>1, <1>6, <2>2, <2>3, RecovererRests DEF Settled
<1>7. CASE /\ Put(r, next) /\ step["undoSource"] \in Open
           /\ Writes(r, "undoSource", "done") /\ Fits("undoSource", "done")
           /\ FitsRequest("undoSource", "done")
  <2>1. /\ scene' = scene /\ member' = member /\ late' = late /\ lease' = lease
        /\ \A x \in Steps \ {"undoSource"} : step'[x] = step[x]
    BY <1>7 DEF Writes
  <2>2. step'["undoSource"] \notin Open /\ step["undoSource"] # "pending"
    BY <1>7 DEF Writes, Open
  <2>3. RecovererInv(r)'
    BY <1>1, <1>4, <1>5, <1>7, <2>1, <2>2, SourceUndoneMoves
  <2>4. Moved(r) /\ at'[r].pc \in {"enter", "facts"}
    BY <1>5, <1>7
  <2>5. "undoSource" \in Steps /\ "done" \in StepState
    BY DEF Steps, Mutations, StepState, Good
  <2> QED
    BY <1>1, <1>7, <2>3, <2>4, <2>5, RecovererWrites DEF Settled
<1> QED
  BY <1>1, <1>3, <1>6, <1>7, UndoneCases DEF Undo

\* A recoverer that writes with the lease is in time.
LEMMA Holding ==
    ASSUME TypeOK, LeaseInv, NEW r \in Recoverers, r \in lease.holders, ~lease.expired
    PROVE  lease.owner = r /\ r \notin late
<1>1. lease.owner = r
  BY Who DEF LeaseInv
<1> QED
  BY <1>1, Who DEF LeaseInv

LEMMA DecideMoves ==
    ASSUME IInv, NEW r \in Recoverers, at[r].pc = "decide", Moved(r),
           scene' = scene, member' = member, late' = late, lease' = lease, step' = step,
           at'[r].seen = at[r].seen, at'[r].look = at[r].look,
           NEW acts,
           acts \subseteq Undo, "undoTarget" \in acts <=> at[r].look["target"] = "present",
           "undoSource" \in acts <=> at[r].look["source"] = "absent",
           at'[r].pc \in {"enter", "finalize"},
           at'[r].pc = "enter" => at'[r].goal = "compensated" /\ at'[r].todo = acts,
           at'[r].pc = "finalize" => at'[r].goal = "failed" /\ at'[r].todo = {} /\ acts = {}
    PROVE  RecovererInv(r)'
<1>1. TypeOK /\ LeaseInv /\ RecovererInv(r) /\ r \in Threads
  BY Who DEF IInv
<1>2. scene.remote /\ at[r].seen.row = "source"
  BY <1>1 DEF RecovererInv, RecovererPlaced, Ended, Settled, Mutating, Sighted
<1>3. /\ \A m \in Moves : step[m] \notin Open
      /\ at[r].look["target"] # "unknown" /\ at[r].look["source"] # "unknown"
  BY <1>1, Sides DEF RecovererInv, Resolved, Decided, Moves
<1>4. RecovererPlaced(r)' /\ Answered(r)'
  BY <1>2 DEF RecovererPlaced, Answered
<1>5. LookHolds(r)'
  BY <1>1, LookHoldsOn DEF Sighted
<1>6. Needed(r)'
  <2>1. SUFFICES ASSUME r \notin late PROVE Needed(r)'
    BY DEF Needed
  <2>2. /\ at[r].look["target"] = "present" => member.target
        /\ at[r].look["source"] = "absent" => scene.source /\ ~member.source
    BY <1>1, <2>1, Sees DEF Sighted
  <2> QED
    BY <2>2 DEF Needed
<1>7. Resolved(r)'
  BY <1>3 DEF Resolved
<1>8. Alone(r)'
  <2>1. SUFFICES ASSUME r \in lease.holders, ~lease.expired
                 PROVE  Alone(r)'
    BY DEF Alone
  <2>2. /\ \A s \in Undo : step[s] \notin Open
        /\ Restored(at[r].look) => \A s \in Undo : step[s] = "pending"
    BY <1>1, <1>2, <2>1 DEF RecovererInv, Alone, Decided
  <2>3. at'[r].pc = "finalize" => Restored(at[r].look)
    <3>1. SUFFICES ASSUME at'[r].pc = "finalize" PROVE Restored(at[r].look)
      OBVIOUS
    <3>2. at[r].look["target"] # "none"
      BY <1>1, <1>2, <2>1, Holding, Sees DEF Sighted
    <3>3. at[r].look["target"] \in Sights /\ at[r].look["source"] \in Sights
      BY <1>1, Fields DEF Things
    <3>4. at[r].look["target"] # "present" /\ at[r].look["source"] # "absent"
      BY <3>1
    <3> QED
      BY <1>3, <3>2, <3>3, <3>4 DEF Restored, Sights
  <2> QED
    BY <2>2, <2>3 DEF Alone
<1> QED
  BY <1>4, <1>5, <1>6, <1>7, <1>8 DEF RecovererInv

LEMMA DecideKeeps ==
    ASSUME IInv, NEW r \in Recoverers, Decide(r)
    PROVE  IInv'
<1> DEFINE acts == {s \in {"undoTarget", "undoSource"} :
                      Happened(r, IF s = "undoTarget" THEN "attach" ELSE "detach")}
           back == [Go(r, "enter") EXCEPT !.goal = "compensated", !.todo = acts]
           fail == [Go(r, "finalize") EXCEPT !.goal = "failed"]
<1>1. /\ TypeOK /\ LeaseInv /\ RecovererInv(r) /\ r \in Threads /\ at[r].pc = "decide"
  BY Who DEF IInv, Decide, At
<1>2. at[r].todo = {}
  BY <1>1 DEF RecovererInv, RecovererPlaced, Ended, Settled, Mutating, Sighted
<1>3. CASE Local(r, Isolating)
  BY <1>1, <1>3, LocalRests, RecovererIsolates
<1>4. /\ acts \subseteq Undo
      /\ "undoTarget" \in acts <=> at[r].look["target"] = "present"
      /\ "undoSource" \in acts <=> at[r].look["source"] = "absent"
  BY DEF Undo, Happened
<1>5. acts \subseteq Steps
  BY <1>4 DEF Undo, Steps, Mutations
<1> HIDE DEF acts
<1>6. ASSUME NEW to, Local(r, to)
      PROVE  /\ Rests(r) /\ Put(r, to) /\ scene' = scene /\ member' = member /\ late' = late
             /\ lease' = lease /\ step' = step
  BY <1>1, <1>6, LocalRests DEF rows, remote
<1>7. CASE Local(r, back)
  <2> DEFINE b == Go(r, "enter")
             c == [b EXCEPT !.goal = "compensated"]
  <2>1. /\ b \in Shape /\ b.pc = "enter" /\ b.seen = at[r].seen /\ b.look = at[r].look
    BY <1>1, GoIs DEF Places
  <2>2. c = [b EXCEPT !.goal = "compensated"] /\ back = [c EXCEPT !.todo = acts]
        /\ "compensated" \in Goals
    BY DEF Goals, Settled
  <2> HIDE DEF b, c, back
  <2>3. c = [b EXCEPT !.goal = "compensated"] /\ b \in Shape /\ "compensated" \in Goals
    BY <2>1, <2>2
  <2>4. /\ c \in Shape /\ c.pc = b.pc /\ c.goal = "compensated" /\ c.seen = b.seen /\ c.look = b.look
    BY <2>3, GoalFields
  <2>5. back = [c EXCEPT !.todo = acts] /\ c \in Shape /\ acts \subseteq Steps
    BY <1>5, <2>2, <2>4
  <2>6. /\ back \in Shape /\ back.pc = c.pc /\ back.todo = acts /\ back.goal = c.goal
        /\ back.seen = c.seen /\ back.look = c.look
    BY <2>5, TodoFields
  <2>7. Moved(r) /\ at'[r] = back
    BY <1>1, <1>6, <1>7, <2>6, Puts
  <2>8. /\ at'[r].pc = "enter" /\ at'[r].todo = acts /\ at'[r].goal = "compensated"
        /\ at'[r].seen = at[r].seen /\ at'[r].look = at[r].look
    BY <2>1, <2>4, <2>6, <2>7
  <2>9. RecovererInv(r)'
    BY <1>1, <1>4, <1>6, <1>7, <2>7, <2>8, DecideMoves
  <2> QED
    BY <1>1, <1>6, <1>7, <2>7, <2>8, <2>9, RecovererRests DEF Settled
<1>8. CASE Local(r, fail) /\ acts = {}
  <2> DEFINE b == Go(r, "finalize")
  <2>1. /\ b \in Shape /\ b.pc = "finalize" /\ b.todo = {} /\ b.seen = at[r].seen
        /\ b.look = at[r].look
    BY <1>1, <1>2, GoIs DEF Places
  <2>2. fail = [b EXCEPT !.goal = "failed"] /\ "failed" \in Goals
    BY DEF Goals, Settled
  <2> HIDE DEF b, fail
  <2>3. fail = [b EXCEPT !.goal = "failed"] /\ b \in Shape /\ "failed" \in Goals
    BY <2>1, <2>2
  <2>4. /\ fail \in Shape /\ fail.pc = b.pc /\ fail.todo = b.todo /\ fail.goal = "failed"
        /\ fail.seen = b.seen /\ fail.look = b.look
    BY <2>3, GoalFields
  <2>5. Moved(r) /\ at'[r] = fail
    BY <1>1, <1>6, <1>8, <2>4, Puts
  <2>6. /\ at'[r].pc = "finalize" /\ at'[r].todo = {} /\ at'[r].goal = "failed"
        /\ at'[r].seen = at[r].seen /\ at'[r].look = at[r].look
    BY <2>1, <2>4, <2>5
  <2>7. RecovererInv(r)'
    BY <1>1, <1>4, <1>6, <1>8, <2>5, <2>6, DecideMoves
  <2> QED
    BY <1>1, <1>6, <1>8, <2>5, <2>6, <2>7, RecovererRests DEF Settled
<1>9. \/ Local(r, IF acts # {} \/ History(r) THEN back ELSE fail)
      \/ Local(r, Isolating)
  BY DEF Decide, acts
<1> QED
  BY <1>3, <1>7, <1>8, <1>9

LEMMA EnterKeeps ==
    ASSUME IInv, NEW r \in Recoverers, Enter(r)
    PROVE  IInv'
<1> DEFINE place == IF at[r].todo = {} THEN "finalize" ELSE "begin"
<1>1. /\ TypeOK /\ LeaseInv /\ RecovererInv(r) /\ r \in Threads /\ at[r].pc = "enter"
  BY Who DEF IInv, Enter, At
<1>2. /\ at[r].goal = "compensated" /\ at[r].todo \subseteq Undo /\ scene.remote
      /\ at[r].seen.row = "source"
  BY <1>1 DEF RecovererInv, RecovererPlaced, Ended, Settled, Mutating, Sighted
<1>3. place \in {"finalize", "begin"} /\ (place = "finalize" <=> at[r].todo = {})
      /\ place \in Places
  BY DEF Places
<1>4. \/ Put(r, Go(r, place)) /\ Rests(r)
      \/ Put(r, Isolating) /\ Rests(r)
  <2>1. ASSUME NEW to, Local(r, to)
        PROVE  Rests(r) /\ Put(r, to)
    BY <1>1, <2>1, LocalRests
  <2>2. ASSUME Attempt(r, Transition(r, "compensating"), Go(r, place), Isolating)
        PROVE  Rests(r) /\ (Put(r, Go(r, place)) \/ Put(r, Isolating))
    <3>1. Rests(r)
      BY <1>1, <2>2, Transitions, Idling DEF Attempt, Protecting
    <3> QED
      BY <2>2, <3>1 DEF Attempt
  <2> QED
    BY <2>1, <2>2 DEF Enter
<1> HIDE DEF place
<1>5. CASE Put(r, Isolating) /\ Rests(r)
  BY <1>1, <1>5, RecovererIsolates
<1>6. CASE Put(r, Go(r, place)) /\ Rests(r)
  <2>1. Moved(r) /\ Going(r, place)
    BY <1>1, <1>3, <1>6, Goes
  <2>2. scene' = scene /\ member' = member /\ late' = late /\ lease' = lease /\ step' = step
    BY <1>6 DEF Rests
  <2>3. RecovererPlaced(r)' /\ Answered(r)'
    BY <1>2, <1>3, <2>1, <2>2 DEF RecovererPlaced, Answered, Mutating, Going
  <2>4. LookHolds(r)'
    BY <1>1, <2>1, <2>2, LookHoldsOn DEF Sighted, Going
  <2>5. Needed(r)'
    BY <1>1, <1>3, <2>1, <2>2 DEF RecovererInv, Needed, Going
  <2>6. Resolved(r)'
    BY <1>1, <1>3, <2>1, <2>2 DEF RecovererInv, Resolved, Decided, Going
  <2>7. Alone(r)'
    <3>1. r \in lease.holders /\ ~lease.expired => \A s \in Undo : step[s] \notin Open
      BY <1>1 DEF RecovererInv, Alone, Decided
    <3> QED
      BY <1>2, <1>3, <2>1, <2>2, <3>1 DEF Alone, Going
  <2>8. RecovererInv(r)'
    BY <2>3, <2>4, <2>5, <2>6, <2>7 DEF RecovererInv
  <2>9. at'[r].pc \notin Settled /\ at'[r].pc # "call"
    BY <1>3, <2>1 DEF Going, Settled
  <2> QED
    BY <1>1, <1>6, <2>1, <2>8, <2>9, RecovererRests
<1> QED
  BY <1>4, <1>5, <1>6

LEMMA VerifyKeeps ==
    ASSUME IInv, NEW r \in Recoverers, Verify(r)
    PROVE  IInv'
<1>1. /\ TypeOK /\ LeaseInv /\ RecovererInv(r) /\ r \in Threads /\ at[r].pc = "verify"
  BY Who DEF IInv, Verify, At
<1>2. at[r].goal \in {"compensated", "failed"}
  BY <1>1 DEF RecovererInv, RecovererPlaced, Ended, Settled, Mutating
<1>3. CASE Local(r, Isolating)
  BY <1>1, <1>3, LocalRests, RecovererIsolates
<1>4. CASE op.status = at[r].goal /\ Local(r, End(at[r].goal))
  <2>1. at[r].goal \in Places /\ at[r].goal \in Settled /\ at[r].goal # "call"
    BY <1>2 DEF Places, Settled
  <2>2. Moved(r) /\ Anew(r, at[r].goal) /\ Rests(r) /\ op' = op
    BY <1>1, <1>4, <2>1, LocalRests, Ends DEF rows
  <2>3. RecovererInv(r)'
    BY <2>1, <2>2, OutOfIt DEF Anew
  <2> QED
    BY <1>1, <1>4, <2>1, <2>2, <2>3, RecovererRests DEF Anew
<1> QED
  BY <1>3, <1>4 DEF Verify

-------------------------------------------------------------------------------
(***************************************************************************)
(* What a recoverer shares with the request.                               *)
(***************************************************************************)
LEMMA Mutates ==
    ASSUME IInv, NEW r \in Recoverers, at[r].pc \in Mutating
    PROVE  /\ at[r].goal = "compensated" /\ at[r].todo \subseteq Undo /\ at[r].todo # {}
           /\ scene.remote /\ at[r].seen.row = "source"
           /\ Current(r) \in at[r].todo /\ Current(r) \in Undo /\ Current(r) \in Steps
           /\ Current(r) \in Mutations
           /\ \A m \in Moves : step[m] \notin Open
           /\ Undo \subseteq at[r].todo => Current(r) = "undoTarget"
<1>1. RecovererInv(r)
  BY DEF IInv
<1>2. /\ at[r].goal = "compensated" /\ at[r].todo \subseteq Undo /\ at[r].todo # {}
      /\ scene.remote /\ at[r].seen.row = "source"
  BY <1>1 DEF RecovererInv, RecovererPlaced, Ended, Settled, Mutating
<1>3. /\ Current(r) \in at[r].todo
      /\ Current(r) = "undoTarget" \/ (Current(r) = "undoSource" /\ at[r].todo = {"undoSource"})
  BY <1>2, CurrentUndo
<1>4. Undo \subseteq at[r].todo => Current(r) = "undoTarget"
  BY <1>3 DEF Undo
<1>5. \A m \in Moves : step[m] \notin Open
  BY <1>1 DEF RecovererInv, Resolved, Decided
<1> QED
  BY <1>2, <1>3, <1>4, <1>5 DEF Undo, Steps, Mutations

\* What keeps of a recoverer that goes from one place of a mutation to another.
LEMMA MutatesOn ==
    ASSUME IInv, NEW r \in Recoverers, at[r].pc \in Mutating, at'[r].pc \in Mutating,
           at'[r].todo = at[r].todo, at'[r].goal = at[r].goal, at'[r].seen = at[r].seen,
           scene' = scene, late' = late,
           at'[r].pc = "complete" => at'[r].got \in Good \cup {"failed", "unknown"},
           Needed(r)', \A m \in Moves : step'[m] \notin Open,
           at'[r].pc \in {"begun", "call"} => step'[Current(r)] # "pending",
           r \in lease'.holders /\ ~lease'.expired =>
              \A s \in Undo : step'[s] \in Open =>
                 at'[r].pc \in {"begun", "call", "complete"} /\ s = Current(r)
    PROVE  RecovererInv(r)'
<1>1. /\ at[r].goal = "compensated" /\ at[r].todo \subseteq Undo /\ at[r].todo # {}
      /\ scene.remote /\ at[r].seen.row = "source"
  BY Mutates
<1>2. Current(r)' = Current(r)
  BY CurrentSame
<1>3. RecovererPlaced(r)' /\ Answered(r)'
  BY <1>1 DEF RecovererPlaced, Answered
<1>4. LookHolds(r)'
  BY DEF LookHolds, Sighted, Mutating
<1>5. Resolved(r)'
  BY <1>2 DEF Resolved, Mutating
<1>6. Alone(r)'
  BY <1>2 DEF Alone, Mutating
<1> QED
  BY <1>3, <1>4, <1>5, <1>6 DEF RecovererInv

\* Where it is alone, no step of the way back is open but its own.
LEMMA OpenIsCurrent ==
    ASSUME IInv, NEW r \in Recoverers, at[r].pc \in Mutating, r \in lease.holders, ~lease.expired,
           NEW s \in Undo, step[s] \in Open
    PROVE  at[r].pc \in {"begun", "call", "complete"} /\ s = Current(r)
BY DEF IInv, RecovererInv, Alone, Decided

LEMMA RecovererRenews ==
    ASSUME IInv, NEW r \in Recoverers, Renew(r)
    PROVE  IInv'
<1>1. /\ TypeOK /\ LeaseInv /\ RecovererInv(r) /\ r \in Threads /\ r # Request
      /\ at[r].pc \in {"renewing", "begun"}
  BY Who DEF IInv, Renew
<1>2. at[r].pc = "begun"
  BY <1>1 DEF RecovererInv, RecovererPlaced, Ended, Settled, Mutating
<1>3. \/ Attempt(r, Extend(r), Go(r, "call"), End("out"))
      \/ Local(r, Abandon(r))
  BY <1>1, <1>2 DEF Renew, At
<1>4. CASE Local(r, Abandon(r))
  BY <1>1, <1>4, Abandons, LocalRests, RecovererLeaves
<1>5. CASE Attempt(r, Extend(r), Go(r, "call"), End("out"))
  <2>1. CASE Put(r, End("out"))
    <3>1. Rests(r) \/ Extends(r)
      BY <1>1, <1>5, Idling, Extending DEF Attempt
    <3> QED
      BY <1>1, <2>1, <3>1, RecovererLeaves DEF Leaving
  <2>2. CASE Extend(r) /\ Put(r, Go(r, "call"))
    <3>1. Extends(r)
      BY <1>1, <1>5, <2>2, Extending DEF Attempt
    <3>2. Moved(r) /\ Going(r, "call")
      BY <1>1, <2>2, Goes DEF Places
    <3>3. /\ scene' = scene /\ step' = step /\ member' = member /\ late' = late /\ op' = op
          /\ Owns(r)
      BY <3>1 DEF Extends, Leases
    <3>4. at[r].pc \in Mutating /\ at'[r].pc \in Mutating /\ at'[r].pc = "call"
      BY <1>2, <3>2 DEF Mutating, Going
    <3>5. Needed(r)'
      BY <1>1, <1>2, <3>2, <3>3 DEF RecovererInv, Needed, Going
    <3>6. step[Current(r)] # "pending"
      BY <1>1, <1>2 DEF RecovererInv, Resolved
    <3>7. \A s \in Undo : step'[s] \in Open => s = Current(r)
      BY <3>3, <3>4, OpenIsCurrent DEF Owns
    <3>8. \A m \in Moves : step'[m] \notin Open
      BY <3>3, <3>4, Mutates
    <3>9. RecovererInv(r)'
      BY <3>2, <3>3, <3>4, <3>5, <3>6, <3>7, <3>8, MutatesOn DEF Going
    <3>10. op'.status \notin Settled
      BY <3>3, OwningProtects
    <3> QED
      BY <1>1, <1>2, <3>1, <3>2, <3>4, <3>9, <3>10, RecovererRests DEF Settled
  <2> QED
    BY <1>5, <2>1, <2>2 DEF Attempt
<1> QED
  BY <1>3, <1>4, <1>5

\* A recoverer leaves, whatever it has written in a step before.
LEMMA RecovererQuits ==
    ASSUME IInv, NEW r \in Recoverers, at[r].pc \notin {"idle", "out"}, NEW place \in Leaving,
           Put(r, End(place)), NEW s \in Steps, NEW v \in StepState,
           Writes(r, s, v), Fits(s, v), FitsRequest(s, v)
    PROVE  IInv'
<1>1. Moved(r) /\ Anew(r, place)
  BY Ends, Who DEF IInv, Leaving, Places
<1>2. RecovererInv(r)' /\ at'[r].pc \notin Settled
  BY <1>1, OutOfIt DEF Anew, Leaving, Settled
<1> QED
  BY <1>1, <1>2, RecovererWrites

LEMMA RecovererBegins ==
    ASSUME IInv, NEW r \in Recoverers, Begin(r)
    PROVE  IInv'
<1> DEFINE s == Current(r)
<1>1. /\ TypeOK /\ LeaseInv /\ StepInv /\ MemberInv /\ RecovererInv(r) /\ r \in Threads
      /\ r # Request /\ at[r].pc = "begin" /\ at[r].pc \in Mutating
  BY Who DEF IInv, Begin, At, Mutating
<1>2. s \in Undo /\ s \in Steps /\ s \in at[r].todo /\ \A m \in Moves : step[m] \notin Open
  BY <1>1, Mutates
<1>3. Attempt(r, StartStep(r, s), Go(r, "begun"), Abandon(r))
  BY <1>1, <1>2 DEF Begin, Undo
<1> HIDE DEF s
<1>4. CASE UNCHANGED rows /\ Put(r, Abandon(r))
  BY <1>1, <1>3, <1>4, Idling, Abandons, RecovererLeaves DEF Attempt
<1>5. CASE StartStep(r, s)
  <2>1. Writes(r, s, "started") /\ step[s] \in {"pending", "failed"}
    BY <1>1, <1>2, <1>3, <1>5, Starting DEF Attempt
  <2>2. r \notin late
    BY <1>1, <2>1, Owning DEF Writes
  <2>3. /\ s = "undoTarget" => member.target
        /\ s = "undoSource" => scene.source /\ ~member.source
    BY <1>1, <1>2, <2>2 DEF RecovererInv, Needed
  <2>4. Fits(s, "started")
    <3>1. s = "undoTarget" => step["attach"] \in Good
      BY <1>1, <1>2, <2>3 DEF MemberInv, EffectKnown, Moves
    <3> QED
      BY <1>2, <2>3, <3>1 DEF Fits, Undo, Moves
  <2>5. FitsRequest(s, "started")
    BY <1>2, <2>3 DEF FitsRequest, Undo, Moves
  <2>6. "started" \in StepState /\ "started" # "pending"
    BY DEF StepState, Open
  <2>7. CASE Put(r, Abandon(r))
    BY <1>1, <1>2, <2>1, <2>4, <2>5, <2>6, <2>7, Abandons, RecovererQuits
  <2>8. CASE Put(r, Go(r, "begun"))
    <3>1. Moved(r) /\ Going(r, "begun")
      BY <1>1, <2>8, Goes DEF Places
    <3>2. /\ scene' = scene /\ member' = member /\ late' = late /\ lease' = lease
          /\ step'[s] = "started" /\ \A x \in Steps \ {s} : step'[x] = step[x]
      BY <2>1 DEF Writes
    <3>3. at'[r].pc \in Mutating /\ at'[r].pc = "begun"
      BY <3>1 DEF Mutating, Going
    <3>4. Needed(r)'
      BY <1>1, <3>1, <3>2 DEF RecovererInv, Needed, Going
    <3>5. \A x \in Undo \cup Moves : x \in Steps
      BY DEF Undo, Moves, Steps, Mutations
    <3>6. \A m \in Moves : step'[m] \notin Open
      BY <1>2, <3>2, <3>5 DEF Undo, Moves
    <3>7. ASSUME r \in lease.holders, ~lease.expired, NEW u \in Undo, step'[u] \in Open
          PROVE  u = s
      BY <1>1, <3>2, <3>5, <3>7, OpenIsCurrent
    <3>8. s = Current(r)
      BY DEF s
    <3>9. RecovererInv(r)'
      BY <1>1, <3>1, <3>2, <3>3, <3>4, <3>6, <3>7, <3>8, MutatesOn DEF Going
    <3> QED
      BY <1>1, <1>2, <2>1, <2>4, <2>5, <2>6, <3>1, <3>3, <3>9, RecovererWrites DEF Settled
  <2> QED
    BY <1>3, <2>7, <2>8 DEF Attempt
<1> QED
  BY <1>3, <1>4, <1>5 DEF Attempt

\* What it has been answered, at another place.
LEMMA GoesWith ==
    ASSUME TypeOK, NEW t \in Threads, NEW place \in Places, NEW got \in GotKinds,
           Put(t, [Go(t, place) EXCEPT !.got = got])
    PROVE  /\ Moved(t) /\ at'[t].pc = place /\ at'[t].got = got
           /\ at'[t].todo = at[t].todo /\ at'[t].goal = at[t].goal
           /\ at'[t].seen = at[t].seen /\ at'[t].look = at[t].look
<1> DEFINE b == Go(t, place)
           c == [b EXCEPT !.got = got]
<1>1. /\ b \in Shape /\ b.pc = place /\ b.todo = at[t].todo /\ b.goal = at[t].goal
      /\ b.seen = at[t].seen /\ b.look = at[t].look
  BY GoIs
<1>2. c = [b EXCEPT !.got = got] /\ Put(t, c)
  OBVIOUS
<1> HIDE DEF b, c
<1>3. c = [b EXCEPT !.got = got] /\ b \in Shape
  BY <1>1, <1>2
<1>4. /\ c \in Shape /\ c.pc = b.pc /\ c.todo = b.todo /\ c.got = got
      /\ c.goal = b.goal /\ c.seen = b.seen /\ c.look = b.look
  BY <1>3, GotFields
<1>5. Moved(t) /\ at'[t] = c
  BY <1>2, <1>4, Puts
<1> QED
  BY <1>1, <1>4, <1>5

LEMMA CallCases ==
    ASSUME TypeOK, NEW t \in Threads, Call(t), Current(t) \in Mutations
    PROVE  \E got \in Good \cup {"failed", "unknown"} :
              /\ Moved(t) /\ at'[t].pc = "complete" /\ at'[t].got = got
              /\ at'[t].todo = at[t].todo /\ at'[t].goal = at[t].goal
              /\ at'[t].seen = at[t].seen /\ at'[t].look = at[t].look
              /\ \/ Effects(t, Current(t)) /\ got \in Good \cup {"unknown"}
                 \/ /\ UNCHANGED <<scene, rows, remote, late>>
                    /\ got = "failed" => member[Side(Current(t))] # Desired(Current(t))
                    /\ got \in {"failed", "unknown"}
<1> DEFINE s == Current(t)
<1>1. Good \cup {"failed", "unknown"} \subseteq GotKinds /\ "complete" \in Places
  BY DEF GotKinds, Open, Places
<1>2. UNCHANGED <<scene, rows, workspace, late>>
  BY DEF Call
<1>3. member \in [source : BOOLEAN, target : BOOLEAN]
  BY Types
<1>4. CASE /\ t \notin late
           /\ member' = [member EXCEPT ![Side(s)] = Desired(s)]
           /\ \E got \in Good \cup {"unknown"} : Put(t, [Go(t, "complete") EXCEPT !.got = got])
  <2>1. PICK got \in Good \cup {"unknown"} : Put(t, [Go(t, "complete") EXCEPT !.got = got])
    BY <1>4
  <2>2. Effects(t, s)
    <3>1. s \in Mutations
      OBVIOUS
    <3> HIDE DEF s
    <3>2. CASE s = "detach"
      BY <1>2, <1>3, <1>4, <3>2, Sides DEF Effects
    <3>3. CASE s = "attach"
      BY <1>2, <1>3, <1>4, <3>3, Sides DEF Effects
    <3>4. CASE s = "undoTarget"
      BY <1>2, <1>3, <1>4, <3>4, Sides DEF Effects
    <3>5. CASE s = "undoSource"
      BY <1>2, <1>3, <1>4, <3>5, Sides DEF Effects
    <3> QED
      BY <3>1, <3>2, <3>3, <3>4, <3>5 DEF Mutations
  <2>3. got \in GotKinds /\ got \in Good \cup {"failed", "unknown"}
    BY <1>1
  <2> QED
    BY <1>1, <2>1, <2>2, <2>3, GoesWith
<1>5. CASE /\ member[Side(s)] # Desired(s) /\ UNCHANGED member
           /\ Put(t, [Go(t, "complete") EXCEPT !.got = "failed"])
  <2>1. "failed" \in GotKinds /\ UNCHANGED <<scene, rows, remote, late>>
    BY <1>1, <1>2, <1>5 DEF remote
  <2> QED
    BY <1>1, <1>5, <2>1, GoesWith
<1>6. CASE UNCHANGED member /\ Put(t, [Go(t, "complete") EXCEPT !.got = "unknown"])
  <2>1. "unknown" \in GotKinds /\ UNCHANGED <<scene, rows, remote, late>>
    BY <1>1, <1>2, <1>6 DEF remote
  <2> QED
    BY <1>1, <1>6, <2>1, GoesWith
<1> QED
  BY <1>4, <1>5, <1>6 DEF Call

LEMMA RecovererCallKeeps ==
    ASSUME IInv, NEW r \in Recoverers, Call(r)
    PROVE  IInv'
<1> DEFINE s == Current(r)
<1>1. /\ TypeOK /\ LeaseInv /\ StepInv /\ RecovererInv(r) /\ r \in Threads
      /\ at[r].pc = "call" /\ at[r].pc \in Mutating
  BY Who DEF IInv, Call, At, Mutating
<1>2. /\ s \in Undo /\ s \in Mutations /\ s \in Steps /\ \A m \in Moves : step[m] \notin Open
      /\ Undo \subseteq at[r].todo => s = "undoTarget"
  BY <1>1, Mutates
<1>3. PICK got \in Good \cup {"failed", "unknown"} :
              /\ Moved(r) /\ at'[r].pc = "complete" /\ at'[r].got = got
              /\ at'[r].todo = at[r].todo /\ at'[r].goal = at[r].goal
              /\ at'[r].seen = at[r].seen
              /\ \/ Effects(r, s)
                 \/ UNCHANGED <<scene, rows, remote, late>>
  BY <1>1, <1>2, CallCases
<1>4. s = Current(r)
  OBVIOUS
<1> HIDE DEF s
<1>5. /\ scene' = scene /\ late' = late /\ step' = step /\ lease' = lease
  BY <1>3 DEF Effects, rows
<1>6. step[s] # "pending"
  BY <1>1, <1>4 DEF RecovererInv, Resolved
<1>7. Needed(r)'
  <2>1. SUFFICES ASSUME r \notin late, Undo \subseteq at[r].todo
                 PROVE  scene.source /\ ~member'.source
    BY <1>3, <1>5 DEF Needed
  <2>2. scene.source /\ ~member.source
    BY <1>1, <2>1 DEF RecovererInv, Needed, Undo
  <2>3. CASE Effects(r, s)
    BY <1>2, <2>1, <2>2, <2>3 DEF Effects
  <2>4. CASE UNCHANGED <<scene, rows, remote, late>>
    BY <2>2, <2>4 DEF remote
  <2> QED
    BY <1>3, <2>3, <2>4
<1>8. RecovererInv(r)'
  <2>1. r \in lease.holders /\ ~lease.expired => \A u \in Undo : step[u] \in Open => u = s
    BY <1>1, <1>4, OpenIsCurrent
  <2>2. at'[r].pc \in Mutating
    BY <1>3 DEF Mutating
  <2> QED
    BY <1>1, <1>2, <1>3, <1>4, <1>5, <1>7, <2>1, <2>2, MutatesOn
<1>9. CASE Effects(r, s)
  <2>1. s = "undoSource" => scene.source
    BY <1>1, <1>6 DEF StepInv
  <2> QED
    BY <1>1, <1>2, <1>3, <1>6, <1>8, <1>9, <2>1, RecovererCalls
<1>10. CASE UNCHANGED <<scene, rows, remote, late>>
  <2>1. Rests(r)
    BY <1>1, <1>10, Idling
  <2> QED
    BY <1>1, <1>3, <1>8, <2>1, RecovererRests DEF Settled
<1> QED
  BY <1>3, <1>9, <1>10

LEMMA RecovererCompletes ==
    ASSUME IInv, NEW r \in Recoverers, Complete(r)
    PROVE  IInv'
<1> DEFINE s   == Current(r)
           got == at[r].got
           again == [Go(r, "look again") EXCEPT !.got = "done"]
<1>1. /\ TypeOK /\ LeaseInv /\ StepInv /\ RecovererInv(r) /\ r \in Threads /\ r # Request
      /\ at[r].pc = "complete" /\ at[r].pc \in Mutating
  BY Who DEF IInv, Complete, At, Mutating
<1>2. /\ s \in Undo /\ s \in Steps /\ \A m \in Moves : step[m] \notin Open
  BY <1>1, Mutates
<1>3. got \in Good \cup {"failed", "unknown"}
  BY <1>1 DEF RecovererInv, Answered
<1>4. \/ got \in Good /\ Attempt(r, SetStep(r, s, got), again, Abandon(r))
      \/ got \notin Good /\ Attempt(r, SetStep(r, s, got), Abandon(r), Abandon(r))
  <2>1. CASE got \in Good
    BY <1>1, <1>2, <2>1 DEF Complete, Undo, Good
  <2>2. CASE got \notin Good
    BY <1>1, <1>2, <1>3, <2>2 DEF Complete, Undo
  <2> QED
    BY <2>1, <2>2
<1>5. s = Current(r)
  OBVIOUS
<1>6. /\ again \in Shape /\ again.pc = "look again" /\ again.todo = at[r].todo
      /\ again.goal = at[r].goal /\ again.seen = at[r].seen
  <2> DEFINE b == Go(r, "look again")
  <2>1. /\ b \in Shape /\ b.pc = "look again" /\ b.todo = at[r].todo
        /\ b.goal = at[r].goal /\ b.seen = at[r].seen
    BY <1>1, GoIs DEF Places
  <2>2. again = [b EXCEPT !.got = "done"] /\ "done" \in GotKinds
    BY DEF GotKinds, Good
  <2> HIDE DEF b, again
  <2>3. again = [b EXCEPT !.got = "done"] /\ b \in Shape /\ "done" \in GotKinds
    BY <2>1, <2>2
  <2>4. /\ again \in Shape /\ again.pc = b.pc /\ again.todo = b.todo
        /\ again.goal = b.goal /\ again.seen = b.seen
    BY <2>3, GotFields
  <2> QED
    BY <2>1, <2>4
<1> HIDE DEF s, got, again
<1>7. CASE UNCHANGED rows /\ Put(r, Abandon(r))
  <2>1. Rests(r)
    BY <1>1, <1>4, <1>7, Idling DEF Attempt
  <2> QED
    BY <1>1, <1>7, <2>1, Abandons, RecovererLeaves
<1>8. CASE SetStep(r, s, got)
  <2>1. UNCHANGED <<scene, remote, late>>
    BY <1>4 DEF Attempt
  <2>2. got \in Good \cup Open \cup {"failed"} /\ got \in StepState
    BY <1>3 DEF Open, StepState
  <2>3. Writes(r, s, got) /\ step[s] \in Open
    BY <1>1, <1>2, <1>8, <2>1, <2>2, Setting
  <2>4. Fits(s, got) /\ FitsRequest(s, got)
    <3>1. step[s] # "pending"
      BY <2>3 DEF Open
    <3>2. Fits(s, got)
      BY <1>1, <1>2, <3>1 DEF Fits, StepInv, Undo, Moves
    <3>3. FitsRequest(s, got)
      BY <1>2, <2>3 DEF FitsRequest, Undo, Moves
    <3> QED
      BY <3>2, <3>3
  <2>5. CASE Put(r, Abandon(r))
    BY <1>1, <1>2, <2>2, <2>3, <2>4, <2>5, Abandons, RecovererQuits
  <2>6. CASE got \in Good /\ Put(r, again)
    <3>1. Moved(r) /\ at'[r] = again
      BY <1>1, <1>6, <2>6, Puts
    <3>2. /\ scene' = scene /\ member' = member /\ late' = late /\ lease' = lease
          /\ step'[s] = got /\ \A x \in Steps \ {s} : step'[x] = step[x]
      BY <2>3 DEF Writes
    <3>3. at'[r].pc \in Mutating /\ at'[r].pc = "look again"
      BY <1>6, <3>1 DEF Mutating
    <3>4. Needed(r)'
      BY <1>1, <1>6, <3>1, <3>2 DEF RecovererInv, Needed
    <3>5. \A x \in Undo \cup Moves : x \in Steps
      BY DEF Undo, Moves, Steps, Mutations
    <3>6. \A m \in Moves : step'[m] \notin Open
      BY <1>2, <3>2, <3>5 DEF Undo, Moves
    <3>7. ASSUME r \in lease.holders, ~lease.expired, NEW u \in Undo
          PROVE  step'[u] \notin Open
      <4>1. CASE u = s
        BY <2>6, <3>2, <4>1 DEF Good, Open
      <4>2. CASE u # s
        BY <1>1, <1>5, <3>2, <3>5, <3>7, <4>2, OpenIsCurrent
      <4> QED
        BY <4>1, <4>2
    <3>8. RecovererInv(r)'
      BY <1>1, <1>6, <3>1, <3>2, <3>3, <3>4, <3>6, <3>7, MutatesOn
    <3> QED
      BY <1>1, <1>2, <2>2, <2>3, <2>4, <3>1, <3>3, <3>8, RecovererWrites DEF Settled
  <2> QED
    BY <1>4, <2>5, <2>6 DEF Attempt
<1> QED
  BY <1>4, <1>7, <1>8 DEF Attempt

LEMMA RecovererNotes ==
    ASSUME IInv, NEW r \in Recoverers, Note(r)
    PROVE  IInv'
<1>1. /\ TypeOK /\ LeaseInv /\ StepInv /\ RecovererInv(r) /\ r \in Threads /\ at[r].pc = "note"
  BY Who DEF IInv, Note, At
<1>2. /\ at[r].seen.row \in {"source", "other"} /\ at[r].todo = {}
      /\ \/ at[r].goal = "none" /\ (at[r].seen.row = "other" \/ scene.remote)
         \/ at[r].goal = "compensated" /\ scene.remote
         \/ at[r].goal = "failed" /\ ~scene.remote
  <2>1. at[r].seen.row \in Rows /\ at[r].seen.row # "target"
    BY <1>1, Fields DEF SeenRow, RecovererInv, RecovererPlaced
  <2> QED
    BY <1>1, <2>1 DEF RecovererInv, RecovererPlaced, Ended, Settled, Mutating, Rows
<1>3. Rests(r)
  BY <1>1, Observing, Idling DEF Note, Attempt
<1>4. \/ Put(r, Isolating)
      \/ at[r].seen.row = "source" /\ at[r].goal # "none" /\ Put(r, Go(r, "finalize"))
      \/ at[r].seen.row = "source" /\ at[r].goal = "none" /\ Put(r, Go(r, "prepared?"))
  <2>1. CASE at[r].seen.row = "other"
    BY <2>1 DEF Note, Attempt
  <2>2. CASE at[r].seen.row = "source" /\ at[r].goal # "none"
    BY <2>2 DEF Note, Attempt
  <2>3. CASE at[r].seen.row = "source" /\ at[r].goal = "none"
    BY <2>3 DEF Note, Attempt
  <2> QED
    BY <1>2, <2>1, <2>2, <2>3
<1>5. CASE Put(r, Isolating)
  BY <1>1, <1>3, <1>5, RecovererIsolates
<1>6. ASSUME NEW place \in {"finalize", "prepared?"}, Put(r, Go(r, place)),
             at[r].seen.row = "source",
             place = "finalize" <=> at[r].goal # "none"
      PROVE  IInv'
  <2>1. place \in Places
    BY DEF Places
  <2>2. Moved(r) /\ Going(r, place)
    BY <1>1, <1>6, <2>1, Goes
  <2>3. scene' = scene /\ member' = member /\ late' = late /\ lease' = lease /\ step' = step
    BY <1>3 DEF Rests
  <2>4. RecovererPlaced(r)' /\ Answered(r)'
    <3>1. CASE place = "finalize"
      BY <1>2, <1>6, <2>2, <2>3, <3>1 DEF RecovererPlaced, Answered, Going
    <3>2. CASE place = "prepared?"
      BY <1>2, <1>6, <2>2, <2>3, <3>2 DEF RecovererPlaced, Answered, Going
    <3> QED
      BY <3>1, <3>2
  <2>5. LookHolds(r)'
    BY <1>1, <2>2, <2>3 DEF RecovererInv, LookHolds, Going
  <2>6. Needed(r)'
    BY <2>2 DEF Needed, Going
  <2>7. Resolved(r)'
    BY <1>1, <1>6, <2>2, <2>3 DEF RecovererInv, Resolved, Decided, Going, Mutating
  <2>8. Alone(r)'
    <3>1. SUFFICES ASSUME r \in lease.holders, ~lease.expired, place = "finalize"
                   PROVE  Alone(r)'
      BY <2>2, <2>3 DEF Alone, Decided, Going, Mutating
    <3>2. \A s \in Undo : step[s] \notin Open
      BY <1>1, <1>6, <3>1 DEF RecovererInv, Alone, Decided
    <3>3. at[r].goal = "failed" => \A s \in Undo : step[s] = "pending"
      BY <1>1, <1>2, UnmovedSteps
    <3> QED
      BY <2>2, <2>3, <3>1, <3>2, <3>3 DEF Alone, Going
  <2>9. RecovererInv(r)'
    BY <2>4, <2>5, <2>6, <2>7, <2>8 DEF RecovererInv
  <2>10. at'[r].pc \notin Settled /\ at'[r].pc # "call"
    BY <2>2 DEF Going, Settled
  <2> QED
    BY <1>1, <1>3, <2>2, <2>9, <2>10, RecovererRests
<1> QED
  BY <1>4, <1>5, <1>6

\* What the observation says of the document is so.
LEMMA CompensatedSo ==
    ASSUME IInv, NEW r \in Recoverers, at[r].pc = "finalize", Finish(r, "compensated"),
           UNCHANGED <<scene, remote>>
    PROVE  VerdictTrue'
<1>1. /\ TypeOK /\ LeaseInv /\ RecovererInv(r) /\ Owns(r)
  BY DEF IInv, Finish
<1>2. r \notin late
  BY <1>1, Owning
<1>3. Agrees("compensated", at[r].seen, at[r].look) /\ row = at[r].seen.row
  BY DEF Finish, Fresh
<1>4. at[r].seen.row = "source" /\ at[r].look["target"] = "absent"
      /\ at[r].look["source"] \in {"present", "none"}
  BY <1>3 DEF Agrees
<1>5. ~member.target /\ (scene.source => member.source)
  BY <1>1, <1>2, <1>4, Sees DEF Sighted
<1>6. op'.status = "compensated" /\ row' = row /\ scene' = scene /\ member' = member
  BY <1>1, Types DEF Finish, remote, OpRow
<1> QED
  BY <1>3, <1>4, <1>5, <1>6 DEF VerdictTrue

\* An operation fails that has left the document where it was.
LEMMA Unmoved ==
    ASSUME TypeOK, StepInv, MemberInv, ~member.target, \A s \in Undo : step[s] = "pending",
           scene.member => member.source
    PROVE  member = [source |-> scene.member, target |-> FALSE]
<1>1. member \in [source : BOOLEAN, target : BOOLEAN]
  BY Types
<1>2. scene.member \in BOOLEAN
  BY Scenery
<1>3. member.source => scene.member
  BY DEF MemberInv, Undo
<1> QED
  BY <1>1, <1>2, <1>3

LEMMA FailedSo ==
    ASSUME IInv, NEW r \in Recoverers, at[r].pc = "finalize", at[r].goal = "failed",
           Finish(r, "failed"), UNCHANGED <<scene, remote>>
    PROVE  VerdictTrue'
<1>1. /\ TypeOK /\ LeaseInv /\ StepInv /\ MemberInv /\ RecovererInv(r) /\ Owns(r)
  BY DEF IInv, Finish
<1>2. r \notin late /\ r \in lease.holders /\ ~lease.expired
  BY <1>1, Owning
<1>3. scene.remote => /\ at[r].look["target"] = "absent"
                      /\ at[r].look["source"] \in {"present", "none"}
  BY DEF Finish, Agrees
<1>4. \A s \in Undo : step[s] = "pending"
  BY <1>1, <1>2 DEF RecovererInv, Alone
<1>5. ~member.target
  <2>1. CASE scene.remote
    BY <1>1, <1>2, <1>3, <2>1, Sees DEF Sighted
  <2>2. CASE ~scene.remote
    <3>1. step["attach"] = "pending"
      BY <1>1, <2>2 DEF StepInv
    <3> QED
      BY <1>1, <3>1 DEF MemberInv, EffectKnown, Open, Good
  <2> QED
    BY <2>1, <2>2
<1>6. scene.member => member.source
  <2>1. scene.member => scene.source
    BY <1>1, Scenery
  <2>2. scene.source => scene.remote
    BY <1>1, Scenery
  <2>3. scene.remote /\ scene.source => member.source
    BY <1>1, <1>2, <1>3, Sees DEF Sighted
  <2> QED
    BY <2>1, <2>2, <2>3
<1>7. member = [source |-> scene.member, target |-> FALSE]
  BY <1>1, <1>4, <1>5, <1>6, Unmoved
<1>8. op'.status = "failed" /\ row' = row /\ scene' = scene /\ member' = member
  BY <1>1, Types DEF Finish, remote, OpRow
<1> QED
  BY <1>7, <1>8 DEF VerdictTrue

LEMMA RecovererFinalizes ==
    ASSUME IInv, NEW r \in Recoverers, Finalize(r)
    PROVE  IInv'
<1> DEFINE goal   == at[r].goal
           verify == [End("verify") EXCEPT !.goal = goal]
<1>1. /\ TypeOK /\ LeaseInv /\ StepInv /\ MemberInv /\ RecovererInv(r) /\ r \in Threads
      /\ r # Request /\ at[r].pc = "finalize"
  BY Who DEF IInv, Finalize, At
<1>2. goal \in {"compensated", "failed"}
  BY <1>1 DEF RecovererInv, RecovererPlaced, Ended, Settled, Mutating
<1>3. Attempt(r, Finish(r, goal), End(goal), verify)
  BY <1>1 DEF Finalize
<1>4. goal \in Places /\ goal \in Settled /\ goal \in Goals
  BY <1>2 DEF Places, Settled, Goals
<1>5. /\ verify \in Shape /\ verify.pc = "verify" /\ verify.goal = goal
      /\ verify.seen.row = "source"
  <2> DEFINE b == End("verify")
  <2>1. b \in Shape /\ b.pc = "verify" /\ b.seen.row = "source"
    BY EndShape DEF Places
  <2>2. verify = [b EXCEPT !.goal = goal]
    OBVIOUS
  <2> HIDE DEF b, verify
  <2>3. verify = [b EXCEPT !.goal = goal] /\ b \in Shape /\ goal \in Goals
    BY <1>4, <2>1, <2>2
  <2>4. verify \in Shape /\ verify.pc = b.pc /\ verify.goal = goal /\ verify.seen = b.seen
    BY <2>3, GoalFields
  <2> QED
    BY <2>1, <2>4
<1> HIDE DEF verify, goal
<1>6. ASSUME Put(r, verify)
      PROVE  Moved(r) /\ at'[r].pc = "verify" /\ RecovererInv(r)'
  <2>1. Moved(r) /\ at'[r] = verify
    BY <1>1, <1>5, <1>6, Puts
  <2>2. RecovererPlaced(r)' /\ Answered(r)'
    BY <1>2, <1>5, <2>1 DEF RecovererPlaced, Answered, Sighted, Mutating
  <2>3. LookHolds(r)' /\ Needed(r)'
    BY <1>5, <2>1 DEF LookHolds, Needed, Sighted
  <2>4. Resolved(r)' /\ Alone(r)'
    BY <1>5, <2>1 DEF Resolved, Alone, Decided, Mutating
  <2> QED
    BY <1>5, <2>1, <2>2, <2>3, <2>4 DEF RecovererInv
<1>7. ASSUME Put(r, End(goal))
      PROVE  Moved(r) /\ at'[r].pc = goal /\ RecovererInv(r)'
  <2>1. Moved(r) /\ Anew(r, goal)
    BY <1>1, <1>4, <1>7, Ends
  <2> QED
    BY <1>4, <2>1, OutOfIt DEF Anew
<1>8. CASE UNCHANGED rows /\ Put(r, verify)
  <2>1. Rests(r)
    BY <1>1, <1>3, <1>8, Idling DEF Attempt
  <2> QED
    BY <1>1, <1>6, <1>8, <2>1, RecovererRests DEF Settled
<1>9. CASE Finish(r, goal)
  <2>1. UNCHANGED <<scene, remote, late>>
    BY <1>3 DEF Attempt
  <2>2. Settles(r, goal) /\ row' = row /\ step' = step
    BY <1>1, <1>4, <1>9, <2>1, Finishing
  <2>3. VerdictTrue'
    <3>1. CASE goal = "compensated"
      BY <1>1, <1>9, <2>1, <3>1, CompensatedSo
    <3>2. CASE goal = "failed"
      BY <1>1, <1>9, <2>1, <3>2, FailedSo DEF goal
    <3> QED
      BY <1>2, <3>1, <3>2
  <2>4. \A s \in Mutations : step[s] \notin Open
    <3>1. Decided(r)
      BY <1>1, <1>2 DEF Decided, goal
    <3>2. r \in lease.holders /\ ~lease.expired
      BY <1>9 DEF Finish, Owns
    <3>3. \A s \in Moves : step[s] \notin Open
      BY <1>1, <3>1 DEF RecovererInv, Resolved
    <3>4. \A s \in Undo : step[s] \notin Open
      BY <1>1, <3>1, <3>2 DEF RecovererInv, Alone
    <3> QED
      BY <3>3, <3>4 DEF Mutations, Moves, Undo
  <2>5. CASE Put(r, verify)
    BY <1>1, <1>2, <1>6, <2>2, <2>3, <2>4, <2>5, RecovererSettles DEF Settled
  <2>6. CASE Put(r, End(goal))
    BY <1>1, <1>2, <1>7, <2>2, <2>3, <2>4, <2>6, RecovererSettles
  <2> QED
    BY <1>3, <2>5, <2>6 DEF Attempt
<1> QED
  BY <1>3, <1>8, <1>9 DEF Attempt

\* Whatever a recoverer does keeps the invariant.
LEMMA RecovererKeeps ==
    ASSUME IInv, NEW r \in Recoverers, RecovererStep(r) \/ ThreadStep(r) \/ Die(r)
    PROVE  IInv'
<1>1. r \in Threads
  BY Who
<1>2. CASE RecovererStep(r)
  BY <1>2, TakeOverKeeps, ReadKeeps, LookKeeps, SettleKeeps, PreparedKeeps, TargetUndoneKeeps,
     SourceUndoneKeeps, DecideKeeps, EnterKeeps, VerifyKeeps DEF RecovererStep
<1>3. CASE ThreadStep(r)
  BY <1>1, <1>3, RecovererRenews, RecovererBegins, RecovererCallKeeps, RecovererCompletes,
     RecovererNotes, RecovererFinalizes, IsolateKeeps DEF ThreadStep
<1> QED
  BY <1>1, <1>2, <1>3, DieKeeps

-------------------------------------------------------------------------------
(***************************************************************************)
(* The steps of the request on its way forward.                            *)
(***************************************************************************)

\* What it still knows of the steps and the memberships.
LEMMA ForwardInv ==
    ASSUME IInv, Forward, Forward', scene' = scene, lease'.owner = lease.owner,
           Request \in lease'.holders => Request \in lease.holders,
           RequestPlaced', Answered(Request)', RequestCalledFor', RequestOpens',
           lease.owner = Request =>
              /\ \A s \in Undo : step'[s] = step[s]
              /\ step'["attach"] \in Good => member'.target
              /\ step'["detach"] \in Good => ~member'.source
              /\ Early' => \A s \in Moves : step'[s] \notin Good
              /\ \A s \in Moves : at'[Request].todo = {s} =>
                    /\ at'[Request].pc = "call" => step'[s] = "started"
                    /\ at'[Request].pc = "complete" /\ at'[Request].got \in Good =>
                          member'[Side(s)] = Desired(s)
                    /\ at'[Request].pc = "complete" /\ at'[Request].got = "failed" =>
                          member'[Side(s)] # Desired(s)
    PROVE  RequestInv'
<1>1. RequestHolds /\ RequestForward
  BY DEF IInv, RequestInv
<1>2. at'[Request].goal = "none" /\ ~Undoing'
  BY DEF Forward, Undoing
<1>3. RequestHolds'
  BY <1>1, <1>2 DEF RequestHolds
<1>4. RequestForward'
  BY <1>1 DEF RequestForward
<1>5. RequestBack'
  BY <1>2 DEF RequestBack
<1> QED
  BY <1>3, <1>4, <1>5 DEF RequestInv

\* It moves on and leaves the document and its moves as they are.
LEMMA ForwardOn ==
    ASSUME IInv, Forward, Forward', at[Request].pc # "give up",
           scene' = scene, lease'.owner = lease.owner,
           Request \in lease'.holders => Request \in lease.holders,
           \A s \in Mutations : step'[s] = step[s], member' = member,
           RequestPlaced', Answered(Request)', RequestCalledFor',
           at'[Request].todo = at[Request].todo \/ at[Request].todo \cap Moves = {},
           Early' => Early \/ ~scene.remote,
           at'[Request].pc \notin {"call", "complete"}
    PROVE  RequestInv'
<1>1. TypeOK /\ StepInv /\ RequestForward /\ RequestOpens
  BY DEF IInv, RequestInv
<1>2. /\ step'["attach"] = step["attach"] /\ step'["detach"] = step["detach"]
      /\ \A s \in Undo \cup Moves : step'[s] = step[s]
  BY DEF Undo, Moves, Mutations
<1>3. at[Request].pc \notin Ended
  BY DEF Forward, Ended, Settled
<1>5. RequestOpens'
  <2>1. at[Request].todo \cap Moves = {} =>
           at[Request].todo # {"attach"} /\ at[Request].todo # {"detach"}
    BY DEF Moves
  <2>2. CASE at'[Request].todo = at[Request].todo
    BY <1>1, <1>2, <1>3, <2>2 DEF RequestOpens
  <2>3. CASE at[Request].todo \cap Moves = {}
    BY <1>1, <1>2, <1>3, <2>1, <2>3 DEF RequestOpens
  <2> QED
    BY <2>2, <2>3
<1>6. ASSUME lease.owner = Request, Early', NEW s \in Moves
      PROVE  step'[s] \notin Good
  <2>1. CASE Early
    BY <1>1, <1>2, <1>6, <2>1 DEF RequestForward
  <2>2. CASE ~scene.remote
    BY <1>1, <1>2, <2>2, UnmovedSteps DEF Good
  <2> QED
    BY <1>6, <2>1, <2>2
<1>7. lease.owner = Request =>
         /\ step["attach"] \in Good => member.target
         /\ step["detach"] \in Good => ~member.source
  BY <1>1 DEF RequestForward
<1> QED
  BY <1>2, <1>5, <1>6, <1>7, ForwardInv

\* It goes back to undo what it has done, or to see what that was.
LEMMA CompensateInv ==
    ASSUME Anew(Request, "compensate"), step'["attach"] \notin Open, step'["detach"] \notin Open
    PROVE  RequestInv'
<1>1. RequestPlaced' /\ Answered(Request)' /\ RequestCalledFor'
  BY DEF Anew, RequestPlaced, Answered, RequestCalledFor
<1>2. RequestHolds' /\ RequestForward' /\ RequestBack'
  BY DEF Anew, RequestHolds, RequestForward, RequestBack, Forward, Undoing
<1>3. RequestOpens'
  BY DEF RequestOpens
<1> QED
  BY <1>1, <1>2, <1>3 DEF RequestInv

LEMMA ReserveKeeps ==
    ASSUME IInv, ReserveOp
    PROVE  IInv'
<1> USE DEF IInv, SettledInv
<1>1. /\ TypeOK /\ LeaseInv /\ at[Request].pc = "idle" /\ Request \in Threads
      /\ scene' = scene /\ member' = member /\ workspace' = workspace /\ late' = late
  BY Who DEF ReserveOp, At, Attempt, remote
<1>2. PICK place \in {"reserved", "out"} :
         /\ Put(Request, End(place))
         /\ \/ Reserve(Request)
            \/ UNCHANGED rows /\ place = "out"
  BY DEF ReserveOp, Attempt
<1>3. Moved(Request) /\ Anew(Request, place)
  BY <1>1, <1>2, Ends DEF Places
<1>4. at'[Request].pc = place /\ place \notin Settled /\ place # "call"
  BY <1>3 DEF Anew, Settled
<1>5. CASE Reserve(Request)
  <2>1. /\ op.status = "none" /\ op'.status = "reserved" /\ op' \in OpRow
        /\ lease' = [owner |-> Request, holders |-> {Request}, expired |-> FALSE]
        /\ step' = step /\ tried' = tried /\ observer' = observer /\ row' = row
    BY <1>1, <1>5, Types DEF Reserve, OpRow, Statuses, Protecting
  <2>2. /\ lease'.owner = Request /\ lease'.holders = {Request} /\ lease'.expired = FALSE
        /\ lease' \in LeaseRow
    BY <1>1, <2>1 DEF LeaseRow
  <2>3. /\ lease.owner = None /\ ~lease.expired /\ \A s \in Steps : step[s] = "pending"
        /\ \A r \in Recoverers : at[r].pc = "out"
    BY <1>1, <2>1, Who DEF LeaseInv
  <2>4. TypeOK'
    BY <1>1, <1>3, <2>1, <2>2, Types, TypesNext DEF Moved
  <2>5. LeaseInv'
    <3>1. late = {}
      BY <1>1, <2>3, Who DEF LeaseInv
    <3>2. \A r \in Recoverers : at'[r].pc = "out"
      BY <1>3, <2>3, Who DEF Moved
    <3> QED
      BY <1>1, <2>1, <2>2, <3>1, <3>2, Who DEF LeaseInv
  <2>6. Spares
    BY <1>1, <2>1 DEF Spares, Settled
  <2>7. Document'
    BY <2>6, DocumentSpared DEF Document
  <2>8. AnswerIsVerdict' /\ Calm'
    BY <1>1, <1>3, <1>4, <2>6, VerdictsSpared
  <2>9. Answering'
    BY <2>1 DEF Answering, Settled
  <2>10. \A r \in Recoverers : Undisturbed(r)
    BY <1>1, <1>3, <2>3, Who DEF Undisturbed, Moved
  <2>11. RequestInv'
    <3>1. CASE place = "out"
      BY <1>3, <3>1, RequestOut DEF Anew, Ended
    <3>2. CASE place = "reserved"
      <4>1. RequestPlaced' /\ Answered(Request)' /\ RequestCalledFor'
        BY <1>3, <3>2 DEF Anew, RequestPlaced, Answered, RequestCalledFor
      <4>2. RequestHolds' /\ RequestBack'
        BY <1>3, <2>2, <3>2 DEF Anew, RequestHolds, RequestBack, Undoing
      <4>3. \A s \in Undo \cup Moves : step'[s] = "pending"
        BY <2>1, <2>3 DEF Undo, Moves, Steps, Mutations
      <4>4. RequestOpens'
        BY <4>3 DEF RequestOpens, Moves, Open
      <4>5. RequestForward'
        BY <1>3, <4>3 DEF Anew, RequestForward, Moves, Undo, Good
      <4> QED
        BY <4>1, <4>2, <4>4, <4>5 DEF RequestInv
    <3> QED
      BY <3>1, <3>2
  <2>12. Assembly
    BY <2>4, <2>5, <2>7, <2>8, <2>9 DEF Assembly
  <2> QED
    BY <2>10, <2>11, <2>12, RequestAssembles
<1>6. CASE UNCHANGED rows /\ place = "out"
  <2>1. /\ op' = op /\ lease' = lease /\ step' = step /\ tried' = tried
        /\ observer' = observer /\ row' = row
    BY <1>6 DEF rows
  <2>2. TypeOK'
    BY <1>1, <1>3, <2>1, Types, TypesNext DEF Moved
  <2>3. LeaseInv'
    <3>1. lease.owner \notin Recoverers => \A r \in Recoverers : at'[r].pc = "out"
      BY <1>1, <1>3, Who DEF LeaseInv, Moved
    <3> QED
      BY <1>1, <1>4, <1>6, <2>1, <3>1 DEF LeaseInv
  <2>4. Spares
    BY <1>1, <2>1 DEF Spares
  <2>5. Document'
    BY <2>4, DocumentSpared DEF Document
  <2>6. AnswerIsVerdict' /\ Calm'
    BY <1>1, <1>3, <1>4, <2>4, VerdictsSpared
  <2>7. Answering'
    BY <1>4, <1>6, EndedAnswers DEF Ended
  <2>8. \A r \in Recoverers : Undisturbed(r)
    BY <1>1, <1>3, <2>1, Who DEF Undisturbed, Moved
  <2>9. RequestInv'
    BY <1>3, <1>6, RequestOut DEF Anew, Ended
  <2>10. Assembly
    BY <2>2, <2>3, <2>5, <2>6, <2>7 DEF Assembly
  <2> QED
    BY <2>8, <2>9, <2>10, RequestAssembles
<1> QED
  BY <1>2, <1>5, <1>6

\* What it has to do next, and nothing else.
LEMMA TodoOnly ==
    ASSUME TypeOK, NEW place \in Places, NEW todo, todo \subseteq Steps,
           Put(Request, [End(place) EXCEPT !.todo = todo])
    PROVE  /\ Moved(Request) /\ at'[Request].pc = place /\ at'[Request].todo = todo
           /\ at'[Request].got = "none" /\ at'[Request].goal = "none"
           /\ at'[Request].seen.row = "source"
<1> DEFINE b == End(place)
           c == [b EXCEPT !.todo = todo]
<1>1. /\ b \in Shape /\ b.pc = place /\ b.got = "none" /\ b.goal = "none"
      /\ b.seen.row = "source"
  BY EndShape
<1>2. c = [b EXCEPT !.todo = todo] /\ Put(Request, c)
  OBVIOUS
<1> HIDE DEF b, c
<1>3. c = [b EXCEPT !.todo = todo] /\ b \in Shape /\ todo \subseteq Steps
  BY <1>1, <1>2
<1>4. /\ c \in Shape /\ c.pc = b.pc /\ c.todo = todo /\ c.got = b.got
      /\ c.goal = b.goal /\ c.seen = b.seen
  BY <1>3, TodoFields
<1>5. Moved(Request) /\ at'[Request] = c
  BY <1>2, <1>4, Puts, Who
<1> QED
  BY <1>1, <1>4, <1>5

LEMMA Adopting ==
    ASSUME TypeOK, NEW to, Adopt(to)
    PROVE  Adopts /\ Put(Request, to) /\ scene' = scene /\ step' = step /\ member' = member
<1>1. lease \in LeaseRow /\ Request \in Threads
  BY Types, Who
<1>2. lease' = [lease EXCEPT !.holders = @ \cup {Request}]
  BY DEF Adopt
<1>3. /\ lease' \in LeaseRow /\ lease'.owner = lease.owner /\ lease'.expired = lease.expired
      /\ lease'.holders = lease.holders \cup {Request}
  BY <1>1, <1>2 DEF LeaseRow
<1> QED
  BY <1>3 DEF Adopt, Adopts, Leases, remote

\* It writes nothing that has to do with the document.
QuietWrite ==
    \/ Rests(Request) \/ Extends(Request)
    \/ \E s \in {"prepare", "commit"}, v \in StepState : Writes(Request, s, v)

LEMMA Quietly ==
    ASSUME QuietWrite
    PROVE  /\ scene' = scene /\ lease'.owner = lease.owner
           /\ Request \in lease'.holders => Request \in lease.holders
           /\ \A s \in Mutations : step'[s] = step[s]
           /\ step'["attach"] = step["attach"] /\ step'["detach"] = step["detach"]
           /\ member' = member /\ workspace' = workspace
<1>1. CASE Rests(Request) \/ Extends(Request)
  BY <1>1 DEF Rests, Extends, Leases, Owns
<1>2. ASSUME NEW s \in {"prepare", "commit"}, NEW v \in StepState, Writes(Request, s, v)
      PROVE  /\ scene' = scene /\ lease' = lease /\ \A x \in Mutations : step'[x] = step[x]
             /\ member' = member /\ workspace' = workspace
  <2>1. \A x \in Mutations : x \in Steps \ {s}
    BY DEF Mutations, Steps
  <2> QED
    BY <1>2, <2>1 DEF Writes
<1> QED
  BY <1>1, <1>2 DEF QuietWrite, Mutations

LEMMA Forwarding ==
    ASSUME IInv, Forward
    PROVE  /\ at[Request].pc \notin Ended \cup {"idle", "compensate"} /\ Request \in Threads
           /\ TypeOK /\ LeaseInv /\ StepInv /\ MemberInv /\ RequestInv
           /\ at[Request].goal = "none" /\ at[Request].seen.row = "source"
BY Who DEF IInv, RequestInv, RequestPlaced, Forward, Ended, Settled

LEMMA QuietKeeps ==
    ASSUME IInv, Forward, Moved(Request), QuietWrite, RequestInv',
           at'[Request].pc \notin Settled, at'[Request].pc # "call",
           at[Request].pc # "reconcile" \/ at'[Request].pc \in Ended
    PROVE  IInv'
<1>1. at[Request].pc \notin Ended \cup {"idle", "compensate"}
  BY Forwarding
<1>2. at[Request].pc \notin {"idle", "out"}
  BY <1>1 DEF Ended
<1>3. CASE Rests(Request) \/ Extends(Request)
  <2>1. \/ at[Request].pc \notin {"reconcile", "compensate"} \cup Ended
        \/ at'[Request].pc \in Ended
    BY <1>1
  <2> QED
    BY <1>2, <1>3, <2>1, RequestRests
<1>4. ASSUME NEW s \in {"prepare", "commit"}, NEW v \in StepState, Writes(Request, s, v)
      PROVE  IInv'
  <2>1. s \in Steps
    BY DEF Steps
  <2>2. Fits(s, v)
    BY DEF Fits, Undo, Moves
  <2> QED
    BY <1>2, <1>4, <2>1, <2>2, RequestWrites
<1> QED
  BY <1>3, <1>4 DEF QuietWrite

LEMMA QuietLeaves ==
    ASSUME IInv, Forward, QuietWrite, NEW place \in Leaving, Put(Request, End(place))
    PROVE  IInv'
<1>1. Moved(Request) /\ Anew(Request, place)
  BY Ends, Forwarding DEF Leaving, Places
<1>2. RequestInv' /\ at'[Request].pc \in Ended /\ at'[Request].pc \notin Settled
      /\ at'[Request].pc # "call"
  BY <1>1, RequestOut DEF Anew, Leaving, Ended, Settled
<1> QED
  BY <1>1, <1>2, QuietKeeps

LEMMA QuietIsolates ==
    ASSUME IInv, Forward, QuietWrite, Put(Request, Isolating)
    PROVE  IInv'
BY QuietLeaves DEF Isolating, Leaving

\* It goes back, or gives up where nothing has been done.
LEMMA QuietCompensates ==
    ASSUME IInv, Forward, QuietWrite, Put(Request, End("compensate")),
           at[Request].todo \cap Moves = {}, at[Request].pc \notin {"give up", "reconcile"}
    PROVE  IInv'
<1>1. Moved(Request) /\ Anew(Request, "compensate")
  BY Ends, Forwarding DEF Places
<1>2. step["attach"] \notin Open /\ step["detach"] \notin Open
  <2>1. at[Request].todo # {"attach"} /\ at[Request].todo # {"detach"}
    BY DEF Moves
  <2> QED
    BY <2>1, Forwarding DEF RequestInv, RequestOpens
<1>3. RequestInv'
  BY <1>1, <1>2, Quietly, CompensateInv
<1> QED
  BY <1>1, <1>3, QuietKeeps DEF Anew, Settled

LEMMA QuietGivesUp ==
    ASSUME IInv, Forward, QuietWrite, Put(Request, End("give up")),
           at[Request].todo \cap Moves = {}, at[Request].pc \notin {"give up", "reconcile"},
           Early \/ ~scene.remote
    PROVE  IInv'
<1>1. Moved(Request) /\ Anew(Request, "give up")
  BY Ends, Forwarding DEF Places
<1>2. RequestPlaced' /\ Answered(Request)' /\ RequestCalledFor' /\ Forward'
  BY <1>1 DEF Anew, RequestPlaced, Answered, RequestCalledFor, Forward
<1>3. RequestInv'
  BY <1>1, <1>2, Quietly, ForwardOn DEF Anew
<1> QED
  BY <1>1, <1>3, QuietKeeps DEF Anew, Settled

LEMMA PromoteKeeps ==
    ASSUME IInv, Promote
    PROVE  IInv'
<1> DEFINE commit == [End("begin") EXCEPT !.todo = {"commit"}]
<1>1. at[Request].pc = "reserved" /\ TypeOK /\ Request \in Threads
  BY Who DEF Promote, At, IInv
<1>2. at[Request].todo = {} /\ at[Request].goal = "none"
  BY <1>1 DEF IInv, RequestInv, RequestPlaced, Ended, Settled
<1>3. Forward /\ Early
  BY <1>1, <1>2 DEF Forward, Early
<1>4. QuietWrite
  <2>1. Rests(Request)
    BY <1>1, Transitions, Idling DEF Promote, Attempt, Protecting
  <2> QED
    BY <2>1 DEF QuietWrite
<1>5. CASE Put(Request, End("give up"))
  BY <1>1, <1>2, <1>3, <1>4, <1>5, QuietGivesUp
<1>6. CASE scene.remote /\ Put(Request, End("claiming"))
  <2>1. Moved(Request) /\ Anew(Request, "claiming")
    BY <1>1, <1>6, Ends DEF Places
  <2>2. RequestPlaced' /\ Answered(Request)' /\ RequestCalledFor' /\ Forward'
    BY <1>4, <1>6, <2>1, Quietly DEF Anew, RequestPlaced, Answered, RequestCalledFor, Forward
  <2>3. RequestInv'
    BY <1>1, <1>2, <1>3, <1>4, <2>1, <2>2, Quietly, ForwardOn DEF Anew
  <2> QED
    BY <1>1, <1>3, <1>4, <2>1, <2>3, QuietKeeps DEF Anew, Settled
<1>7. CASE ~scene.remote /\ Put(Request, commit)
  <2> DEFINE todo == {"commit"}
  <2>1. "begin" \in Places /\ todo \subseteq Steps /\ todo = {"commit"}
        /\ Put(Request, [End("begin") EXCEPT !.todo = todo])
    BY <1>7 DEF Places, Steps
  <2> HIDE DEF todo
  <2>2. /\ Moved(Request) /\ at'[Request].pc = "begin" /\ at'[Request].todo = {"commit"}
        /\ at'[Request].goal = "none" /\ at'[Request].seen.row = "source"
    BY <1>1, <1>7, <2>1, TodoOnly
  <2>3. Forward' /\ RequestPlaced' /\ Answered(Request)'
    BY <2>2 DEF RequestPlaced, Answered, Forward
  <2>4. RequestCalledFor'
    BY <2>2 DEF RequestCalledFor
  <2>5. at[Request].todo \cap Moves = {}
    BY <1>2
  <2>6. RequestInv'
    BY <1>1, <1>3, <1>4, <2>2, <2>3, <2>4, <2>5, Quietly, ForwardOn
  <2> QED
    BY <1>1, <1>3, <1>4, <2>2, <2>6, QuietKeeps DEF Settled
<1> QED
  BY <1>5, <1>6, <1>7 DEF Promote, Attempt

LEMMA ClaimKeeps ==
    ASSUME IInv, Claim
    PROVE  IInv'
<1> DEFINE todo == IF scene.source THEN {"detach"} ELSE {"prepare"}
           next == [End("renewing") EXCEPT !.todo = todo]
<1>1. at[Request].pc = "claiming" /\ TypeOK /\ Request \in Threads
  BY Who DEF Claim, At, IInv
<1>2. at[Request].todo = {} /\ at[Request].goal = "none" /\ scene.remote
  BY <1>1 DEF IInv, RequestInv, RequestPlaced, RequestCalledFor, Ended, Settled
<1>3. Forward /\ Early
  BY <1>1, <1>2 DEF Forward, Early
<1>4. ASSUME NEW to, Local(Request, to)
      PROVE  Put(Request, to) /\ QuietWrite
  BY <1>1, <1>4, LocalRests DEF QuietWrite
<1>5. CASE Local(Request, End("give up"))
  BY <1>1, <1>2, <1>3, <1>4, <1>5, QuietGivesUp
<1>6. CASE Local(Request, next)
  <2>1. "renewing" \in Places /\ todo \subseteq Steps
    BY DEF Places, Steps, Mutations
  <2>2. Put(Request, next) /\ QuietWrite
    BY <1>4, <1>6
  <2>3. (todo = {"detach"} /\ scene.source) \/ todo = {"prepare"}
    OBVIOUS
  <2> HIDE DEF todo
  <2>4. /\ Moved(Request) /\ at'[Request].pc = "renewing" /\ at'[Request].todo = todo
        /\ at'[Request].goal = "none" /\ at'[Request].seen.row = "source"
    BY <1>1, <2>1, <2>2, TodoOnly
  <2>5. Forward' /\ RequestPlaced' /\ Answered(Request)'
    BY <2>3, <2>4 DEF RequestPlaced, Answered, Forward
  <2>6. RequestCalledFor'
    <3>1. "attach" \notin todo /\ "undoSource" \notin todo /\ ("detach" \in todo => scene.source)
      BY <2>3
    <3>2. scene' = scene
      BY <2>2, Quietly
    <3> QED
      BY <1>2, <2>4, <3>1, <3>2 DEF RequestCalledFor
  <2>7. at[Request].todo \cap Moves = {}
    BY <1>2
  <2>8. RequestInv'
    BY <1>1, <1>3, <2>2, <2>4, <2>5, <2>6, <2>7, Quietly, ForwardOn
  <2> QED
    BY <1>1, <1>3, <2>2, <2>4, <2>8, QuietKeeps DEF Settled
<1> QED
  BY <1>5, <1>6 DEF Claim

LEMMA GiveUpKeeps ==
    ASSUME IInv, GiveUp
    PROVE  IInv'
<1>1. at[Request].pc = "give up" /\ TypeOK /\ Request \in Threads
  BY Who DEF GiveUp, At, IInv
<1>2. at[Request].goal = "none"
  BY <1>1 DEF IInv, RequestInv, RequestPlaced, Ended, Settled
<1>3. Forward /\ Early
  BY <1>1, <1>2 DEF Forward, Early
<1>4. CASE UNCHANGED rows /\ Put(Request, Isolating)
  <2>1. QuietWrite
    BY <1>1, <1>4, Idling DEF GiveUp, Attempt, QuietWrite
  <2> QED
    BY <1>3, <1>4, <2>1, QuietIsolates
<1>5. CASE FailCleanly(Request)
  <2>1. UNCHANGED <<scene, remote, late>>
    BY DEF GiveUp, Attempt
  <2>2. Settles(Request, "failed") /\ row' = row /\ step' = step
    BY <1>1, <1>5, <2>1, Failing
  <2>3. lease.owner = Request
    BY <1>3, <1>5, Forwarding, RequestOwning DEF FailCleanly, RequestInv
  <2>4. /\ \A s \in Undo : step[s] = "pending"
        /\ \A s \in Moves : step[s] \notin Good
    BY <1>3, <2>3, Forwarding DEF RequestInv, RequestForward
  <2>5. \A s \in Mutations : step[s] \notin Open
    BY <1>5 DEF FailCleanly, NoSideEffect, Steps
  <2>6. \A s \in Moves : step[s] \notin Open \cup Good
    BY <2>4, <2>5 DEF Moves, Mutations
  <2>7. ~member.target /\ (scene.member => member.source)
    BY <2>6, Forwarding, <1>3 DEF MemberInv, EffectKnown, Moves
  <2>8. member = [source |-> scene.member, target |-> FALSE]
    BY <1>3, <2>4, <2>7, Forwarding, Unmoved
  <2>9. VerdictTrue'
    BY <2>2, <2>8 DEF Settles, VerdictTrue
  <2>10. PICK place \in {"isolate", "failed"} : Put(Request, End(place))
    BY DEF GiveUp, Attempt, Isolating
  <2>11. Moved(Request) /\ Anew(Request, place)
    BY <1>1, <2>10, Ends DEF Places, Settled
  <2>12. RequestInv'
    BY <2>11, RequestOut DEF Anew, Ended, Settled
  <2>13. "failed" \in Settled /\ at'[Request].pc \in {"isolate", "failed"}
    BY <2>11 DEF Settled, Anew
  <2> QED
    BY <1>1, <1>3, <2>2, <2>5, <2>9, <2>11, <2>12, <2>13, RequestSettles
<1> QED
  BY <1>4, <1>5 DEF GiveUp, Attempt

LEMMA CreateKeeps ==
    ASSUME IInv, Create
    PROVE  IInv'
<1> DEFINE Answer(exists, got) ==
              /\ workspace' = exists
              /\ Put(Request, [Go(Request, IF got \in {"failed", "unknown"} THEN "unprepared"
                                                                             ELSE "mapping")
                                 EXCEPT !.got = got])
<1>1. at[Request].pc = "create" /\ TypeOK /\ Request \in Threads
  BY Who DEF Create, At, IInv
<1>2. /\ at[Request].todo = {"prepare"} /\ at[Request].goal = "none" /\ scene.remote
      /\ at[Request].seen.row = "source"
  BY <1>1 DEF IInv, RequestInv, RequestPlaced, RequestCalledFor, Ended, Settled
<1>3. Forward
  BY <1>1, <1>2 DEF Forward
<1>4. workspace \in BOOLEAN
  BY <1>1, Types
<1>5. UNCHANGED <<scene, rows, member, late>>
  BY DEF Create
<1>6. \E exists \in BOOLEAN, got \in {"preexisting", "created", "unowned", "failed", "unknown"} :
         /\ Answer(exists, got)
         /\ workspace => exists
         /\ got \notin {"failed", "unknown"} => exists
  <2>1. CASE workspace /\ Answer(TRUE, "preexisting")
    BY <2>1
  <2>2. CASE Answer(workspace, "failed")
    BY <1>4, <2>2
  <2>3. CASE Answer(workspace, "unknown")
    BY <1>4, <2>3
  <2>4. ASSUME ~workspace, NEW got \in {"created", "unowned", "unknown"}, Answer(TRUE, got)
        PROVE  \E exists \in BOOLEAN, g \in {"preexisting", "created", "unowned", "failed", "unknown"} :
                 /\ Answer(exists, g)
                 /\ workspace => exists
                 /\ g \notin {"failed", "unknown"} => exists
    BY <2>4
  <2>5. CASE ~workspace /\ Answer(FALSE, "failed")
    BY <2>5
  <2> HIDE DEF Answer
  <2>6. \/ workspace /\ Answer(TRUE, "preexisting")
        \/ Answer(workspace, "failed")
        \/ Answer(workspace, "unknown")
        \/ ~workspace /\ \E got \in {"created", "unowned", "unknown"} : Answer(TRUE, got)
        \/ ~workspace /\ Answer(FALSE, "failed")
    BY DEF Create, Answer
  <2> QED
    BY <2>1, <2>2, <2>3, <2>4, <2>5, <2>6
<1>7. PICK exists \in BOOLEAN, got \in {"preexisting", "created", "unowned", "failed", "unknown"} :
         /\ Answer(exists, got)
         /\ workspace => exists
         /\ got \notin {"failed", "unknown"} => exists
  BY <1>6
<1> DEFINE place == IF got \in {"failed", "unknown"} THEN "unprepared" ELSE "mapping"
<1>8. place \in Places /\ got \in GotKinds
  BY DEF Places, GotKinds, Open
<1>9. Put(Request, [Go(Request, place) EXCEPT !.got = got]) /\ workspace' = exists
  BY <1>7
<1>10. \/ place = "unprepared" /\ got \in {"failed", "unknown"}
       \/ place = "mapping" /\ got \in {"created", "preexisting", "unowned"} /\ exists
  BY <1>7
<1> HIDE DEF place, Answer
<1>11. /\ Moved(Request) /\ at'[Request].pc = place /\ at'[Request].got = got
       /\ at'[Request].todo = {"prepare"} /\ at'[Request].goal = "none"
       /\ at'[Request].seen.row = "source"
  BY <1>1, <1>2, <1>8, <1>9, GoesWith
<1>12. RequestPlaced' /\ Answered(Request)' /\ Forward'
  BY <1>10, <1>11 DEF RequestPlaced, Answered, Forward
<1>13. RequestCalledFor'
  BY <1>2, <1>5, <1>9, <1>10, <1>11 DEF RequestCalledFor
<1>14. RequestInv'
  <2>1. scene' = scene /\ lease' = lease /\ member' = member /\ step' = step
    BY <1>5 DEF rows
  <2>2. at'[Request].pc \notin {"call", "complete"} /\ (Early' <=> Early)
    BY <1>1, <1>2, <1>10, <1>11 DEF Early
  <2> QED
    BY <1>1, <1>2, <1>3, <1>11, <1>12, <1>13, <2>1, <2>2, ForwardOn
<1>15. at'[Request].pc \in {"mapping", "unprepared"}
  BY <1>10, <1>11
<1> QED
  BY <1>1, <1>5, <1>7, <1>9, <1>11, <1>14, <1>15, RequestCreates

LEMMA MappingKeeps ==
    ASSUME IInv, Mapping
    PROVE  IInv'
<1> DEFINE todo == {"attach"}
           next == [End("renewing") EXCEPT !.todo = todo]
<1>1. at[Request].pc = "mapping" /\ TypeOK /\ Request \in Threads
  BY Who DEF Mapping, At, IInv
<1>2. /\ at[Request].todo = {"prepare"} /\ at[Request].goal = "none" /\ scene.remote /\ workspace
      /\ at[Request].seen.row = "source"
      /\ at[Request].got \in {"created", "preexisting", "unowned"}
  BY <1>1 DEF IInv, RequestInv, RequestPlaced, RequestCalledFor, Ended, Settled
<1>3. Forward /\ at[Request].todo \cap Moves = {}
  BY <1>1, <1>2 DEF Forward, Moves
<1>4. QuietWrite
  <2>1. CASE UNCHANGED rows
    BY <1>1, <2>1, Idling DEF Mapping, Attempt, QuietWrite
  <2>2. CASE RecordMapping(Request, at[Request].got)
    <3>1. at[Request].got \in Ownership
      BY <1>2 DEF Ownership
    <3>2. \E v \in Good : Writes(Request, "prepare", v)
      BY <1>1, <2>2, <3>1, RecordingMapping DEF Mapping, Attempt
    <3> QED
      BY <3>2 DEF QuietWrite, StepState
  <2> QED
    BY <2>1, <2>2 DEF Mapping, Attempt
<1>5. CASE Put(Request, Isolating)
  BY <1>3, <1>4, <1>5, QuietIsolates
<1>6. CASE Put(Request, Go(Request, "fact"))
  <2>1. Moved(Request) /\ Going(Request, "fact")
    BY <1>1, <1>6, Goes DEF Places
  <2>2. RequestPlaced' /\ Answered(Request)' /\ Forward'
    BY <1>2, <2>1 DEF RequestPlaced, Answered, Forward, Going
  <2>3. RequestCalledFor'
    BY <1>2, <1>4, <2>1, Quietly DEF RequestCalledFor, Going
  <2>4. Early' <=> Early
    BY <1>1, <1>2, <2>1 DEF Early, Going
  <2>5. RequestInv'
    BY <1>1, <1>3, <1>4, <2>1, <2>2, <2>3, <2>4, Quietly, ForwardOn DEF Going
  <2> QED
    BY <1>1, <1>3, <1>4, <2>1, <2>5, QuietKeeps DEF Going, Settled
<1>7. CASE Put(Request, next)
  <2>1. "renewing" \in Places /\ todo \subseteq Steps /\ todo = {"attach"}
    BY DEF Places, Steps, Mutations
  <2> HIDE DEF todo
  <2>2. /\ Moved(Request) /\ at'[Request].pc = "renewing" /\ at'[Request].todo = todo
        /\ at'[Request].goal = "none" /\ at'[Request].seen.row = "source"
    BY <1>1, <1>7, <2>1, TodoOnly
  <2>3. RequestPlaced' /\ Answered(Request)' /\ Forward'
    BY <2>1, <2>2 DEF RequestPlaced, Answered, Forward
  <2>4. RequestCalledFor'
    BY <1>2, <1>4, <2>1, <2>2, Quietly DEF RequestCalledFor
  <2>5. ~Early'
    BY <2>1, <2>2 DEF Early
  <2>6. RequestInv'
    BY <1>1, <1>3, <1>4, <2>2, <2>3, <2>4, <2>5, Quietly, ForwardOn
  <2> QED
    BY <1>1, <1>3, <1>4, <2>2, <2>6, QuietKeeps DEF Settled
<1> QED
  BY <1>5, <1>6, <1>7 DEF Mapping, Attempt

LEMMA FactKeeps ==
    ASSUME IInv, Fact
    PROVE  IInv'
<1>1. at[Request].pc = "fact" /\ TypeOK /\ Request \in Threads
  BY Who DEF Fact, At, IInv
<1>2. at[Request].goal = "none" /\ at[Request].got \in Ownership
  BY <1>1 DEF IInv, RequestInv, RequestPlaced, Ended, Settled, Ownership
<1>3. Forward
  BY <1>1, <1>2 DEF Forward
<1>4. QuietWrite
  BY <1>1, <1>2, Facts, Idling DEF Fact, Attempt, QuietWrite
<1> QED
  BY <1>3, <1>4, QuietIsolates DEF Fact, Attempt

LEMMA UnpreparedKeeps ==
    ASSUME IInv, Unprepared
    PROVE  IInv'
<1>1. at[Request].pc = "unprepared" /\ TypeOK /\ Request \in Threads
  BY Who DEF Unprepared, At, IInv
<1>2. /\ at[Request].todo = {"prepare"} /\ at[Request].goal = "none"
      /\ at[Request].got \in {"failed", "unknown"}
  BY <1>1 DEF IInv, RequestInv, RequestPlaced, Ended, Settled
<1>3. Forward /\ at[Request].todo \cap Moves = {}
  BY <1>1, <1>2 DEF Forward, Moves
<1>4. QuietWrite
  <2>1. CASE UNCHANGED rows
    BY <1>1, <2>1, Idling DEF Unprepared, Attempt, QuietWrite
  <2>2. CASE SetStep(Request, "prepare", at[Request].got)
    <3>1. "prepare" \in Steps /\ at[Request].got \in Good \cup Open \cup {"failed"}
          /\ at[Request].got \in StepState
      BY <1>2 DEF Steps, Open, StepState
    <3>2. Writes(Request, "prepare", at[Request].got)
      BY <1>1, <2>2, <3>1, Setting DEF Unprepared, Attempt
    <3> QED
      BY <3>1, <3>2 DEF QuietWrite
  <2> QED
    BY <2>1, <2>2 DEF Unprepared, Attempt
<1>5. CASE Put(Request, Isolating)
  BY <1>3, <1>4, <1>5, QuietIsolates
<1>6. CASE Put(Request, End("compensate"))
  BY <1>1, <1>3, <1>4, <1>6, QuietCompensates
<1> QED
  BY <1>5, <1>6 DEF Unprepared, Attempt

\* The steps of the two workspaces when there is nothing left but to commit.
LEMMA CommitSo ==
    ASSUME IInv, at[Request].pc = "commit", CommitRow(Request), UNCHANGED <<scene, remote, late>>
    PROVE  /\ VerdictTrue' /\ lease.owner = Request
           /\ \A s \in Mutations : step[s] \notin Open
<1>1. /\ at[Request].todo = {"commit"} /\ Forward
  BY DEF IInv, RequestInv, RequestPlaced, Ended, Settled, Forward
<1>2. lease.owner = Request
  BY <1>1, Forwarding, RequestOwning DEF CommitRow, RequestInv
<1>3. /\ \A s \in Undo : step[s] = "pending"
      /\ step["attach"] \in Good => member.target
      /\ step["detach"] \in Good => ~member.source
  BY <1>1, <1>2, Forwarding DEF RequestInv, RequestForward
<1>4. step["attach"] \notin Open /\ step["detach"] \notin Open
  <2>1. {"commit"} # {"attach"} /\ {"commit"} # {"detach"}
    OBVIOUS
  <2> QED
    BY <1>1, <2>1, Forwarding DEF RequestInv, RequestOpens, Ended, Settled
<1>5. \A s \in Mutations : step[s] \notin Open
  BY <1>3, <1>4 DEF Mutations, Undo, Open
<1>6. scene.remote => member.target /\ (scene.source => ~member.source)
  BY <1>3 DEF CommitRow, ForwardDone
<1>7. op'.status = "succeeded" /\ row' = "target" /\ scene' = scene /\ member' = member
  BY <1>1, Forwarding, Types DEF CommitRow, remote, OpRow
<1> QED
  BY <1>2, <1>5, <1>6, <1>7 DEF VerdictTrue

LEMMA CommitKeeps ==
    ASSUME IInv, Commit
    PROVE  IInv'
<1> DEFINE conflict == [End("reconcile") EXCEPT !.got = "conflict"]
<1>1. at[Request].pc = "commit" /\ TypeOK /\ Request \in Threads
  BY Who DEF Commit, At, IInv
<1>2. /\ at[Request].todo = {"commit"} /\ at[Request].goal = "none"
  BY <1>1 DEF IInv, RequestInv, RequestPlaced, Ended, Settled
<1>3. Forward /\ at[Request].todo \cap Moves = {} /\ ~Early
  BY <1>1, <1>2 DEF Forward, Moves, Early
<1>4. UNCHANGED <<scene, remote, late>>
  BY DEF Commit, Attempt
\* Where it asks itself what has become of its commit.
<1>5. ASSUME Put(Request, End("reconcile")) \/ Put(Request, conflict)
      PROVE  /\ Moved(Request) /\ at'[Request].pc = "reconcile" /\ at'[Request].todo = {}
             /\ at'[Request].goal = "none" /\ at'[Request].seen.row = "source"
             /\ Put(Request, End("reconcile")) => at'[Request].got = "none"
  <2>1. CASE Put(Request, End("reconcile"))
    BY <1>1, <2>1, Ends DEF Anew, Places
  <2>2. CASE Put(Request, conflict) /\ ~Put(Request, End("reconcile"))
    <3> DEFINE b == End("reconcile")
    <3>1. /\ b \in Shape /\ b.pc = "reconcile" /\ b.todo = {} /\ b.goal = "none"
          /\ b.seen.row = "source"
      BY EndShape DEF Places
    <3>2. conflict = [b EXCEPT !.got = "conflict"]
      OBVIOUS
    <3> HIDE DEF b, conflict
    <3>3. conflict = [b EXCEPT !.got = "conflict"] /\ b \in Shape /\ "conflict" \in GotKinds
      BY <3>1, <3>2 DEF GotKinds
    <3>4. /\ conflict \in Shape /\ conflict.pc = b.pc /\ conflict.todo = b.todo
          /\ conflict.goal = b.goal /\ conflict.seen = b.seen
      BY <3>3, GotFields
    <3>5. Moved(Request) /\ at'[Request] = conflict
      BY <1>1, <2>2, <3>4, Puts
    <3> QED
      BY <2>2, <3>1, <3>4, <3>5
  <2> QED
    BY <1>5, <2>1, <2>2
<1> HIDE DEF conflict
<1>6. ASSUME Put(Request, End("reconcile")) \/ Put(Request, conflict),
             scene' = scene, lease' = lease, member' = member,
             \A s \in Mutations : step'[s] = step[s]
      PROVE  RequestInv'
  <2>1. RequestPlaced' /\ Answered(Request)' /\ Forward' /\ ~Early'
    BY <1>5, <1>6 DEF RequestPlaced, Answered, Forward, Early
  <2>2. RequestCalledFor'
    BY <1>5, <1>6 DEF RequestCalledFor
  <2> QED
    BY <1>1, <1>3, <1>5, <1>6, <2>1, <2>2, ForwardOn
<1>7. ASSUME QuietWrite, Put(Request, End("reconcile")) \/ Put(Request, conflict),
             lease' = lease
      PROVE  IInv'
  <2>1. RequestInv'
    BY <1>6, <1>7, Quietly
  <2> QED
    BY <1>1, <1>3, <1>5, <1>7, <2>1, QuietKeeps DEF Settled
<1>8. CASE UNCHANGED rows /\ Put(Request, End("reconcile"))
  <2>1. QuietWrite /\ lease' = lease
    BY <1>1, <1>4, <1>8, Idling DEF QuietWrite, rows
  <2> QED
    BY <1>7, <1>8, <2>1
<1>9. CASE CommitConflict(Request) /\ (Put(Request, End("reconcile")) \/ Put(Request, conflict))
  <2>1. Writes(Request, "commit", "failed")
    BY <1>1, <1>4, <1>9, Conflicting
  <2>2. QuietWrite /\ lease' = lease
    BY <2>1 DEF QuietWrite, Writes, StepState
  <2> QED
    BY <1>7, <1>9, <2>2
<1>10. CASE CommitRow(Request) /\ (Put(Request, End("succeeded")) \/ Put(Request, End("reconcile")))
  <2>1. Settles(Request, "succeeded")
    BY <1>1, <1>4, <1>10, Committing
  <2>2. VerdictTrue' /\ lease.owner = Request /\ \A s \in Mutations : step[s] \notin Open
    BY <1>1, <1>4, <1>10, CommitSo
  <2>3. CASE Put(Request, End("succeeded"))
    <3>1. Moved(Request) /\ Anew(Request, "succeeded")
      BY <1>1, <2>3, Ends DEF Places, Settled
    <3>2. RequestInv'
      BY <3>1, RequestOut DEF Anew, Ended, Settled
    <3> QED
      BY <1>1, <1>3, <2>1, <2>2, <3>1, <3>2, RequestSettles DEF Anew, Settled
  <2>4. CASE Put(Request, End("reconcile"))
    <3>1. /\ scene' = scene /\ lease' = lease /\ member' = member
          /\ \A s \in Mutations : step'[s] = step[s]
      BY <2>1 DEF Settles, Steps, Mutations
    <3>2. RequestInv'
      BY <1>6, <2>4, <3>1
    <3>3. Moved(Request) /\ at'[Request].pc = "reconcile" /\ at'[Request].got = "none"
      BY <1>5, <2>4
    <3> QED
      BY <1>1, <1>3, <2>1, <2>2, <3>2, <3>3, RequestSettles DEF Settled
  <2> QED
    BY <1>10, <2>3, <2>4
<1> QED
  BY <1>8, <1>9, <1>10 DEF Commit, Attempt, conflict

LEMMA ReconcileKeeps ==
    ASSUME IInv, Reconcile
    PROVE  IInv'
<1>1. at[Request].pc = "reconcile" /\ TypeOK /\ Request \in Threads /\ Answering /\ VerdictTrue
  BY Who DEF Reconcile, At, IInv, SettledInv
<1>2. /\ at[Request].todo = {} /\ at[Request].goal = "none"
  BY <1>1 DEF IInv, RequestInv, RequestPlaced, Ended, Settled
<1>3. Forward /\ at[Request].todo \cap Moves = {}
  BY <1>1, <1>2 DEF Forward
<1>4. ASSUME NEW to, Local(Request, to)
      PROVE  /\ Put(Request, to) /\ Rests(Request) /\ QuietWrite /\ lease' = lease
             /\ op' = op /\ row' = row
  BY <1>1, <1>4, LocalRests DEF QuietWrite, rows
<1>5. CASE Local(Request, Isolating)
  BY <1>3, <1>4, <1>5, QuietIsolates
<1>6. CASE op.status = "succeeded" /\ Local(Request, End("succeeded"))
  <2>1. Moved(Request) /\ Anew(Request, "succeeded")
    BY <1>1, <1>4, <1>6, Ends DEF Places, Settled
  <2>2. RequestInv' /\ at'[Request].pc \in Ended
    BY <2>1, RequestOut DEF Anew, Ended, Settled
  <2> QED
    BY <1>1, <1>4, <1>6, <2>1, <2>2, RequestRests DEF Anew
<1>7. CASE Local(Request, End("compensate"))
  <2>1. Moved(Request) /\ Anew(Request, "compensate")
    BY <1>1, <1>4, <1>7, Ends DEF Places
  <2>2. step["attach"] \notin Open /\ step["detach"] \notin Open
    <3>1. at[Request].todo # {"attach"} /\ at[Request].todo # {"detach"}
      BY <1>2
    <3> QED
      BY <1>1, <1>3, <3>1, Forwarding DEF RequestInv, RequestOpens, Ended, Settled
  <2>3. RequestInv'
    BY <1>4, <1>7, <2>1, <2>2, Quietly, CompensateInv
  <2>4. Answering'
    <3>1. SUFFICES ASSUME op.status \in Settled, lease.owner = Request
                   PROVE  row = "target"
      BY <1>4, <1>7, <2>1 DEF Answering, Anew
    <3> QED
      BY <1>1, <3>1 DEF Answering, VerdictTrue
  <2> QED
    BY <1>1, <1>4, <1>7, <2>1, <2>3, <2>4, RequestRests DEF Anew, Settled
<1>8. CASE ~scene.remote /\ at[Request].got = "conflict" /\ Local(Request, End("give up"))
  <2>1. Moved(Request) /\ Anew(Request, "give up")
    BY <1>1, <1>4, <1>8, Ends DEF Places
  <2>2. RequestPlaced' /\ Answered(Request)' /\ RequestCalledFor' /\ Forward'
    BY <2>1 DEF Anew, RequestPlaced, Answered, RequestCalledFor, Forward
  <2>3. RequestInv'
    BY <1>1, <1>3, <1>4, <1>8, <2>1, <2>2, Quietly, ForwardOn DEF Anew
  <2>4. Answering'
    BY <1>1, <1>4, <1>8 DEF Answering
  <2> QED
    BY <1>1, <1>4, <1>8, <2>1, <2>3, <2>4, RequestRests DEF Anew, Settled
<1> QED
  BY <1>5, <1>6, <1>7, <1>8 DEF Reconcile

-------------------------------------------------------------------------------
(***************************************************************************)
(* The steps of the request on its way back.                               *)
(***************************************************************************)
LEMMA BackInv ==
    ASSUME at'[Request].goal = "compensated",
           RequestPlaced', Answered(Request)', RequestHolds', RequestBack',
           scene' = scene, "undoSource" \in at'[Request].todo => scene.source,
           step'["attach"] \notin Open, step'["detach"] \notin Open
    PROVE  RequestInv'
<1>1. at'[Request].todo \subseteq Undo /\ at'[Request].pc # "claiming" /\ at'[Request].pc # "mapping"
  BY DEF RequestPlaced
<1>2. RequestCalledFor'
  BY <1>1 DEF RequestCalledFor, Undo
<1>3. RequestForward'
  BY DEF RequestForward, Forward
<1>4. RequestOpens'
  BY DEF RequestOpens
<1> QED
  BY <1>2, <1>3, <1>4 DEF RequestInv

\* What it goes back with.
LEMMA Backing ==
    ASSUME IInv, at[Request].goal = "compensated"
    PROVE  /\ TypeOK /\ LeaseInv /\ StepInv /\ MemberInv /\ Request \in Threads
           /\ at[Request].pc \notin {"idle", "out", "reconcile", "compensate"} \cup Ended
           /\ at[Request].todo \subseteq Undo /\ at[Request].seen.row = "source"
           /\ step["attach"] \notin Open /\ step["detach"] \notin Open
           /\ \A m \in Moves : step[m] \notin Open
           /\ "undoSource" \in at[Request].todo => scene.source
           /\ RequestBack /\ RequestHolds /\ RequestPlaced /\ Answered(Request)
<1>1. RequestInv
  BY DEF IInv
<1>2. /\ at[Request].todo \subseteq Undo /\ at[Request].seen.row = "source"
      /\ at[Request].pc \in {"entering", "reread", "renewing", "begin", "call", "complete",
                             "recheck", "note", "finalize"}
  BY <1>1 DEF RequestInv, RequestPlaced
<1>3. at[Request].todo # {"attach"} /\ at[Request].todo # {"detach"}
  BY <1>2 DEF Undo
<1>4. step["attach"] \notin Open /\ step["detach"] \notin Open
  BY <1>1, <1>2, <1>3 DEF RequestInv, RequestOpens, Ended, Settled
<1> QED
  BY <1>1, <1>2, <1>4, Who DEF RequestInv, RequestCalledFor, IInv, Ended, Settled, Moves

\* It goes on with what it remembers, and leaves the document as it is.
LEMMA BackOn ==
    ASSUME IInv, at[Request].goal = "compensated", Moved(Request),
           Rests(Request) \/ Extends(Request) \/ Adopts,
           at'[Request].todo = at[Request].todo, at'[Request].goal = at[Request].goal,
           at'[Request].seen = at[Request].seen,
           at'[Request].pc \in {"begin", "renewing", "recheck", "note", "finalize"},
           at'[Request].pc \in {"begin", "renewing"} <=> at[Request].todo # {},
           at'[Request].pc = "begin" => Extends(Request)
    PROVE  IInv'
<1>1. /\ RequestBack /\ at[Request].todo \subseteq Undo /\ at[Request].seen.row = "source"
      /\ step["attach"] \notin Open /\ step["detach"] \notin Open
      /\ "undoSource" \in at[Request].todo => scene.source
  BY Backing
<1>2. scene' = scene /\ step' = step /\ member' = member
  BY DEF Rests, Extends, Adopts, Leases
<1>3. RequestPlaced' /\ Answered(Request)'
  BY <1>1 DEF RequestPlaced, Answered
<1>4. RequestHolds'
  BY DEF RequestHolds, Forward, Undoing, Extends
<1>5. RequestBack'
  BY <1>1, <1>2 DEF RequestBack, Undoing
<1>6. RequestInv'
  BY <1>1, <1>2, <1>3, <1>4, <1>5, BackInv
<1> QED
  BY <1>6, Backing, RequestRests DEF Settled, Ended

LEMMA CompensateKeeps ==
    ASSUME IInv, Compensate
    PROVE  IInv'
<1> DEFINE todo == {s \in {"undoTarget", "undoSource"} :
                      IF s = "undoTarget" THEN step["attach"] \in Good ELSE scene.source}
           b    == [End("entering") EXCEPT !.todo = todo]
           next == [b EXCEPT !.goal = "compensated"]
<1>1. at[Request].pc = "compensate" /\ TypeOK /\ Request \in Threads /\ StepInv /\ MemberInv
      /\ RequestInv /\ Answering
  BY Who DEF Compensate, At, IInv, SettledInv
<1>2. at[Request].todo = {} /\ at[Request].goal = "none"
  BY <1>1 DEF RequestInv, RequestPlaced, Ended, Settled
<1>3. CASE Local(Request, End("out"))
  BY <1>1, <1>3, LocalRests, RequestLeaves DEF Leaving
<1>4. ASSUME NEW to, Adopt(to)
      PROVE  Adopts /\ Put(Request, to) /\ scene' = scene /\ step' = step /\ member' = member
  BY <1>1, <1>4, Adopting, Who
<1>5. CASE Adopt(Isolating)
  BY <1>1, <1>4, <1>5, RequestLeaves DEF Leaving, Isolating
<1>6. CASE row = "source" /\ Adopt(next)
  <2>1. /\ todo \subseteq Undo
        /\ "undoTarget" \in todo <=> step["attach"] \in Good
        /\ "undoSource" \in todo <=> scene.source
    BY DEF Undo
  <2>2. todo \subseteq Steps
    BY DEF Steps, Mutations
  <2> HIDE DEF todo
  <2>3. /\ End("entering") \in Shape /\ End("entering").pc = "entering"
        /\ End("entering").seen.row = "source"
    BY EndShape DEF Places
  <2>4. b = [End("entering") EXCEPT !.todo = todo] /\ next = [b EXCEPT !.goal = "compensated"]
    OBVIOUS
  <2> HIDE DEF b, next
  <2>5. b = [End("entering") EXCEPT !.todo = todo] /\ End("entering") \in Shape /\ todo \subseteq Steps
    BY <2>2, <2>3, <2>4
  <2>6. /\ b \in Shape /\ b.pc = End("entering").pc /\ b.todo = todo
        /\ b.seen = End("entering").seen
    BY <2>5, TodoFields
  <2>7. next = [b EXCEPT !.goal = "compensated"] /\ b \in Shape /\ "compensated" \in Goals
    BY <2>4, <2>6 DEF Goals, Settled
  <2>8. /\ next \in Shape /\ next.pc = b.pc /\ next.todo = b.todo /\ next.goal = "compensated"
        /\ next.seen = b.seen
    BY <2>7, GoalFields
  <2>9. Moved(Request) /\ at'[Request] = next
    BY <1>1, <1>4, <1>6, <2>8, Puts
  <2>10. /\ at'[Request].pc = "entering" /\ at'[Request].todo = todo
         /\ at'[Request].goal = "compensated" /\ at'[Request].seen.row = "source"
    BY <2>3, <2>6, <2>8, <2>9
  <2>11. Adopts /\ scene' = scene /\ step' = step /\ member' = member
    BY <1>4, <1>6
  <2>12. step["attach"] \notin Open /\ step["detach"] \notin Open
    <3>1. at[Request].todo # {"attach"} /\ at[Request].todo # {"detach"}
      BY <1>2
    <3> QED
      BY <1>1, <3>1 DEF RequestInv, RequestOpens, Ended, Settled
  <2>13. RequestPlaced' /\ Answered(Request)'
    BY <2>1, <2>10 DEF RequestPlaced, Answered
  <2>14. RequestHolds'
    BY <2>10 DEF RequestHolds, Forward, Undoing
  <2>15. RequestBack'
    <3>1. "undoTarget" \notin todo => ~member.target
      BY <1>1, <2>1, <2>12 DEF MemberInv, EffectKnown
    <3>2. \A s \in Undo \ todo : step[s] \notin Open
      BY <1>1, <2>1 DEF StepInv, Undo, Open
    <3> QED
      BY <2>1, <2>10, <2>11, <3>1, <3>2 DEF RequestBack
  <2>16. RequestInv'
    BY <2>1, <2>10, <2>11, <2>12, <2>13, <2>14, <2>15, BackInv
  <2>17. Answering'
    <3>1. row' = row /\ op' = op /\ lease'.owner = lease.owner
      BY <2>11 DEF Adopts, Leases
    <3>2. ~(op.status \in Settled /\ lease.owner = Request)
      BY <1>1, <1>6 DEF Answering
    <3> QED
      BY <3>1, <3>2 DEF Answering
  <2> QED
    BY <1>1, <2>9, <2>10, <2>11, <2>16, <2>17, RequestRests DEF Settled
<1> QED
  BY <1>3, <1>5, <1>6 DEF Compensate

LEMMA EnteringKeeps ==
    ASSUME IInv, Entering
    PROVE  IInv'
<1> DEFINE place == IF at[Request].todo = {} THEN "recheck" ELSE "renewing"
<1>1. at[Request].pc = "entering" /\ TypeOK /\ Request \in Threads
  BY Who DEF Entering, At, IInv
<1>2. at[Request].goal = "compensated"
  BY <1>1 DEF IInv, RequestInv, RequestPlaced, Ended, Settled
<1>3. Rests(Request)
  BY <1>1, Transitions, Idling DEF Entering, Attempt, Protecting
<1>4. CASE Put(Request, Isolating)
  BY <1>1, <1>3, <1>4, RequestLeaves DEF Leaving, Isolating
<1>5. CASE Put(Request, Go(Request, place))
  <2>1. /\ place \in Places /\ place \in {"recheck", "renewing"}
        /\ place = "renewing" <=> at[Request].todo # {}
    BY DEF Places
  <2> HIDE DEF place
  <2>2. Moved(Request) /\ Going(Request, place)
    BY <1>1, <1>5, <2>1, Goes
  <2> QED
    BY <1>2, <1>3, <2>1, <2>2, BackOn DEF Going
<1> QED
  BY <1>4, <1>5 DEF Entering, Attempt

LEMMA RereadKeeps ==
    ASSUME IInv, Reread
    PROVE  IInv'
<1> DEFINE place == IF at[Request].todo = {} THEN "recheck" ELSE "renewing"
<1>1. at[Request].pc = "reread" /\ TypeOK /\ Request \in Threads
  BY Who DEF Reread, At, IInv
<1>2. at[Request].goal = "compensated"
  BY <1>1 DEF IInv, RequestInv, RequestPlaced, Ended, Settled
<1>3. CASE Local(Request, End("out"))
  BY <1>1, <1>3, LocalRests, RequestLeaves DEF Leaving
<1>4. CASE Adopt(Go(Request, place))
  <2>1. /\ place \in Places /\ place \in {"recheck", "renewing"}
        /\ place = "renewing" <=> at[Request].todo # {}
    BY DEF Places
  <2> HIDE DEF place
  <2>2. Adopts /\ Put(Request, Go(Request, place))
    BY <1>1, <1>4, Adopting
  <2>3. Moved(Request) /\ Going(Request, place)
    BY <1>1, <2>1, <2>2, Goes
  <2> QED
    BY <1>2, <2>1, <2>2, <2>3, BackOn DEF Going
<1> QED
  BY <1>3, <1>4 DEF Reread

LEMMA RecheckKeeps ==
    ASSUME IInv, Recheck
    PROVE  IInv'
<1> DEFINE look == [workspace |-> "none", target |-> "absent",
                    source |-> IF scene.source THEN "present" ELSE "none"]
           b    == Go(Request, "note")
           next == [b EXCEPT !.look = look]
<1>1. at[Request].pc = "recheck" /\ TypeOK /\ Request \in Threads
  BY Who DEF Recheck, At, IInv
<1>2. at[Request].goal = "compensated" /\ at[Request].todo = {}
  BY <1>1 DEF IInv, RequestInv, RequestPlaced, Ended, Settled
<1>3. CASE Local(Request, Isolating)
  BY <1>1, <1>3, LocalRests, RequestLeaves DEF Leaving, Isolating
<1>4. CASE Local(Request, next)
  <2>1. look \in [Things -> Sights]
    BY DEF Things, Sights
  <2>2. /\ b \in Shape /\ b.pc = "note" /\ b.todo = at[Request].todo
        /\ b.goal = at[Request].goal /\ b.seen = at[Request].seen
    BY <1>1, GoIs DEF Places
  <2>3. next = [b EXCEPT !.look = look]
    OBVIOUS
  <2> HIDE DEF look, b, next
  <2>4. next = [b EXCEPT !.look = look] /\ b \in Shape /\ look \in [Things -> Sights]
    BY <2>1, <2>2, <2>3
  <2>5. /\ next \in Shape /\ next.pc = b.pc /\ next.todo = b.todo
        /\ next.goal = b.goal /\ next.seen = b.seen
    BY <2>4, LookFields
  <2>6. Rests(Request) /\ Put(Request, next)
    BY <1>1, <1>4, LocalRests
  <2>7. Moved(Request) /\ at'[Request] = next
    BY <1>1, <2>5, <2>6, Puts
  <2> QED
    BY <1>2, <2>2, <2>5, <2>6, <2>7, BackOn
<1> QED
  BY <1>3, <1>4 DEF Recheck

-------------------------------------------------------------------------------
(***************************************************************************)
(* The request's renewals, intents, mutations and their results.           *)
(***************************************************************************)

\* What it may have to do, and where: on its way forward one step at a time.
LEMMA Tasks ==
    ASSUME IInv, at[Request].pc \in {"renewing", "begin", "call", "complete"}
    PROVE  /\ TypeOK /\ LeaseInv /\ StepInv /\ MemberInv /\ RequestInv /\ Request \in Threads
           /\ at[Request].seen.row = "source"
           /\ \/ /\ Forward /\ at[Request].pc \in {"renewing", "begin"}
                 /\ \E s \in Moves \cup {"prepare", "commit"} : at[Request].todo = {s}
              \/ Forward /\ \E s \in Moves : at[Request].todo = {s}
              \/ /\ at[Request].goal = "compensated"
                 /\ at[Request].todo \subseteq Undo /\ at[Request].todo # {}
<1>1. TypeOK /\ LeaseInv /\ StepInv /\ MemberInv /\ RequestInv /\ Request \in Threads
  BY Who DEF IInv
<1>2. \/ /\ at[Request].goal = "none" /\ at[Request].pc \in {"renewing", "begin"}
         /\ at[Request].todo \in {{"detach"}, {"prepare"}, {"attach"}, {"commit"}}
      \/ at[Request].goal = "none" /\ at[Request].todo \in {{"detach"}, {"attach"}}
      \/ /\ at[Request].goal = "compensated"
         /\ at[Request].todo \subseteq Undo /\ at[Request].todo # {}
  BY <1>1 DEF RequestInv, RequestPlaced, Ended, Settled
<1>3. at[Request].seen.row = "source"
  BY <1>1 DEF RequestInv, RequestPlaced
<1> QED
  BY <1>1, <1>2, <1>3 DEF Forward, Moves

LEMMA RequestRenews ==
    ASSUME IInv, Renew(Request)
    PROVE  IInv'
<1>1. at[Request].pc = "renewing"
  BY DEF Renew, IInv, RequestInv, RequestPlaced, Ended, Settled
<1>2. /\ TypeOK /\ LeaseInv /\ StepInv /\ MemberInv /\ RequestInv /\ Request \in Threads
      /\ at[Request].seen.row = "source"
  BY <1>1, Tasks
<1>3. \/ Attempt(Request, Extend(Request), Isolating, End("out"))
      \/ Attempt(Request, Extend(Request), Go(Request, "begin"), End("out"))
      \/ Local(Request, Abandon(Request))
  BY <1>1, <1>2 DEF Renew, At
<1>4. Rests(Request) \/ Extends(Request)
  BY <1>2, <1>3, LocalRests, Idling, Extending DEF Attempt
<1>5. CASE Local(Request, Abandon(Request))
  BY <1>1, <1>2, <1>5, Abandons, LocalRests, RequestLeaves
<1>6. CASE Put(Request, Isolating) \/ Put(Request, End("out"))
  BY <1>1, <1>4, <1>6, RequestLeaves DEF Leaving, Isolating
<1>7. CASE Extend(Request) /\ Put(Request, Go(Request, "begin")) /\ UNCHANGED <<scene, remote, late>>
  <2>1. Extends(Request)
    BY <1>2, <1>7, Extending
  <2>2. Moved(Request) /\ Going(Request, "begin")
    BY <1>2, <1>7, Goes DEF Places
  <2>3. CASE at[Request].goal = "compensated"
    <3>1. at[Request].todo # {}
      BY <1>1, <2>3, Tasks DEF Forward
    <3> QED
      BY <2>1, <2>2, <2>3, <3>1, BackOn DEF Going
  <2>4. CASE Forward /\ \E s \in Moves \cup {"prepare", "commit"} : at[Request].todo = {s}
    <3>1. QuietWrite
      BY <2>1 DEF QuietWrite
    <3>2. Forward' /\ Answered(Request)'
      BY <2>2, <2>4 DEF Forward, Answered, Going
    <3>3. RequestPlaced'
      BY <1>2, <2>2, <2>4 DEF RequestPlaced, Going, Forward, Moves
    <3>4. RequestCalledFor'
      BY <1>1, <1>2, <2>2, <3>1, Quietly DEF RequestInv, RequestCalledFor, Going
    <3>5. Early' => Early
      BY <2>2 DEF Early, Going
    <3>6. RequestInv'
      BY <1>1, <2>2, <2>4, <3>1, <3>2, <3>3, <3>4, <3>5, Quietly, ForwardOn DEF Going
    <3> QED
      BY <1>1, <2>2, <2>4, <3>1, <3>6, QuietKeeps DEF Going, Settled
  <2> QED
    BY <1>1, <2>3, <2>4, Tasks
<1> QED
  BY <1>3, <1>5, <1>6, <1>7 DEF Attempt

\* It leaves, whatever it has written in a step before.
LEMMA RequestQuits ==
    ASSUME IInv, at[Request].pc \notin {"idle", "out"}, NEW place \in Leaving,
           Put(Request, End(place)), NEW s \in Steps, NEW v \in StepState,
           Writes(Request, s, v), Fits(s, v),
           Forward \/ (s \in Undo /\ lease.holders = {Request})
    PROVE  IInv'
<1>1. Moved(Request) /\ Anew(Request, place)
  BY Ends, Who DEF Leaving, Places, IInv
<1>2. RequestInv' /\ at'[Request].pc \notin Settled
  BY <1>1, RequestOut DEF Anew, Leaving, Ended, Settled
<1> QED
  BY <1>1, <1>2, RequestWrites

\* On its way forward it begins to prepare or to commit.
LEMMA RequestBeginsQuietly ==
    ASSUME IInv, Begin(Request), Forward, NEW s \in {"prepare", "commit"}, at[Request].todo = {s}
    PROVE  IInv'
<1> DEFINE place == IF s = "prepare" THEN "create" ELSE "commit"
<1>1. at[Request].pc = "begin"
  BY DEF Begin, At
<1>2. TypeOK /\ RequestInv /\ Request \in Threads /\ at[Request].seen.row = "source"
  BY <1>1, Tasks
<1>3. s \in Steps /\ Current(Request) = s
  BY CurrentOne DEF Steps
<1>4. \/ /\ s = "commit" /\ ~scene.remote
         /\ Attempt(Request, StartStep(Request, s), Go(Request, place), End("give up"))
      \/ /\ s = "commit"
         /\ Attempt(Request, StartStep(Request, s), Go(Request, place), End("compensate"))
      \/ Attempt(Request, StartStep(Request, s), Go(Request, place), Isolating)
  BY <1>3 DEF Begin, Abandon
<1> HIDE DEF place
<1>5. QuietWrite
  <2>1. CASE UNCHANGED rows
    BY <1>2, <1>4, <2>1, Idling DEF Attempt, QuietWrite
  <2>2. CASE StartStep(Request, s)
    <3>1. Writes(Request, s, "started")
      BY <1>2, <1>3, <1>4, <2>2, Starting DEF Attempt
    <3> QED
      BY <3>1 DEF QuietWrite, StepState, Open
  <2> QED
    BY <1>4, <2>1, <2>2 DEF Attempt
<1>6. at[Request].todo \cap Moves = {}
  BY DEF Moves
<1>7. CASE Put(Request, Isolating)
  BY <1>5, <1>7, QuietIsolates
<1>8. CASE Put(Request, End("compensate"))
  BY <1>1, <1>5, <1>6, <1>8, QuietCompensates
<1>9. CASE ~scene.remote /\ Put(Request, End("give up"))
  BY <1>1, <1>5, <1>6, <1>9, QuietGivesUp
<1>10. CASE Put(Request, Go(Request, place))
  <2>1. place \in Places
    BY DEF place, Places
  <2>2. Moved(Request) /\ Going(Request, place)
    BY <1>2, <1>10, <2>1, Goes
  <2>3. Forward' /\ Answered(Request)'
    BY <2>2 DEF Forward, Answered, Going, place
  <2>4. RequestPlaced'
    BY <1>2, <2>2 DEF RequestPlaced, Going, Forward, place
  <2>5. RequestCalledFor'
    BY <1>2, <1>5, <2>2, Quietly DEF RequestInv, RequestCalledFor, Going, place
  <2>6. ~Early'
    BY <2>2 DEF Early, Going, place
  <2>7. at'[Request].pc \notin {"call", "complete"} \cup Settled
    BY <2>2 DEF Going, place, Settled
  <2>8. RequestInv'
    BY <1>1, <1>5, <2>2, <2>3, <2>4, <2>5, <2>6, <2>7, Quietly, ForwardOn DEF Going
  <2> QED
    BY <1>1, <1>5, <2>2, <2>7, <2>8, QuietKeeps
<1> QED
  BY <1>4, <1>7, <1>8, <1>9, <1>10 DEF Attempt

\* On its way forward it begins to mutate the document.
LEMMA RequestBeginsToMove ==
    ASSUME IInv, Begin(Request), Forward, NEW s \in Moves, at[Request].todo = {s}
    PROVE  IInv'
<1>1. at[Request].pc = "begin"
  BY DEF Begin, At
<1>2. /\ TypeOK /\ LeaseInv /\ StepInv /\ RequestInv /\ Request \in Threads
      /\ at[Request].seen.row = "source"
  BY <1>1, Tasks
<1>3. s \in Steps /\ Current(Request) = s /\ Undo \cup Moves \subseteq Steps
  BY CurrentOne DEF Moves, Undo, Steps, Mutations
<1>4. \/ /\ s = "detach"
         /\ Attempt(Request, StartStep(Request, s), Go(Request, "call"), End("give up"))
      \/ Attempt(Request, StartStep(Request, s), Go(Request, "call"), Isolating)
  BY <1>3 DEF Begin, Abandon, Moves
<1>5. \A m \in Moves \ {s} : step[m] \notin Open
  <2>1. s = "detach" => at[Request].todo # {"attach"}
    OBVIOUS
  <2>2. s = "attach" => at[Request].todo # {"detach"}
    OBVIOUS
  <2> QED
    BY <1>1, <1>2, <2>1, <2>2 DEF RequestInv, RequestOpens, Moves, Ended, Settled
<1>6. /\ s = "detach" => scene.source
      /\ s = "attach" => scene.remote /\ workspace
  BY <1>2 DEF RequestInv, RequestCalledFor
<1>7. ASSUME Moved(Request), Anew(Request, "give up"), s = "detach",
             scene' = scene, lease' = lease, member' = member,
             \A x \in Steps \ {s} : step'[x] = step[x],
             step'[s] = "started" \/ step'[s] = step[s]
      PROVE  RequestInv'
  <2>1. RequestPlaced' /\ Answered(Request)' /\ RequestCalledFor' /\ Forward'
    BY <1>7 DEF Anew, RequestPlaced, Answered, RequestCalledFor, Forward
  <2>2. RequestOpens'
    BY <1>3, <1>5, <1>7 DEF RequestOpens, Anew, Moves
  <2>3. "started" \notin Good
    BY DEF Good
  <2>4. ASSUME lease.owner = Request
        PROVE  /\ \A x \in Undo : step'[x] = step[x]
               /\ \A x \in Moves : step'[x] \notin Good
    <3>1. \A x \in Moves : step[x] \notin Good
      BY <1>2, <1>7, <2>4 DEF RequestInv, RequestForward, Early
    <3>2. \A x \in Undo : x \in Steps \ {s}
      BY <1>3 DEF Undo, Moves
    <3> QED
      BY <1>3, <1>7, <2>3, <3>1, <3>2
  <2>5. \A x \in Moves : at'[Request].todo # {x}
    BY <1>7 DEF Anew
  <2> QED
    BY <1>7, <2>1, <2>2, <2>4, <2>5, ForwardInv DEF Moves
<1>8. CASE UNCHANGED rows /\ Put(Request, Isolating)
  BY <1>2, <1>4, <1>8, Idling, QuietIsolates DEF Attempt, QuietWrite
<1>9. CASE s = "detach" /\ UNCHANGED rows /\ Put(Request, End("give up"))
  <2>1. Rests(Request)
    BY <1>2, <1>4, <1>9, Idling DEF Attempt
  <2>2. Moved(Request) /\ Anew(Request, "give up")
    BY <1>2, <1>9, Ends DEF Places
  <2>3. RequestInv'
    BY <1>7, <1>9, <2>1, <2>2 DEF Rests
  <2> QED
    BY <1>1, <2>1, <2>2, <2>3, QuietKeeps DEF Anew, Settled, QuietWrite
<1>10. CASE StartStep(Request, s)
  <2>1. Writes(Request, s, "started") /\ step[s] \in {"pending", "failed"}
    BY <1>2, <1>3, <1>4, <1>10, Starting DEF Attempt
  <2>2. lease.owner = Request
    BY <1>2, <2>1, RequestOwning DEF Writes, RequestInv
  <2>3. Fits(s, "started")
    <3>1. \A x \in Undo : step[x] = "pending"
      BY <1>2, <2>2 DEF RequestInv, RequestForward
    <3> QED
      BY <1>6, <3>1 DEF Fits, Undo, Moves
  <2>4. "started" \in StepState
    BY DEF StepState, Open
  <2>5. /\ scene' = scene /\ lease' = lease /\ member' = member /\ workspace' = workspace
        /\ step'[s] = "started" /\ \A x \in Steps \ {s} : step'[x] = step[x]
    BY <2>1 DEF Writes
  <2>6. CASE Put(Request, Isolating)
    BY <1>1, <1>3, <2>1, <2>3, <2>4, <2>6, RequestQuits DEF Leaving, Isolating
  <2>7. CASE s = "detach" /\ Put(Request, End("give up"))
    <3>1. Moved(Request) /\ Anew(Request, "give up")
      BY <1>2, <2>7, Ends DEF Places
    <3>2. RequestInv'
      BY <1>7, <2>5, <2>7, <3>1
    <3> QED
      BY <1>1, <1>3, <2>1, <2>3, <2>4, <3>1, <3>2, RequestWrites DEF Anew, Settled
  <2>8. CASE Put(Request, Go(Request, "call"))
    <3>1. Moved(Request) /\ Going(Request, "call")
      BY <1>2, <2>8, Goes DEF Places
    <3>2. Forward' /\ Answered(Request)'
      BY <3>1 DEF Forward, Answered, Going
    <3>3. RequestPlaced'
      BY <1>2, <3>1 DEF RequestPlaced, Going, Forward, Moves
    <3>4. RequestCalledFor'
      BY <1>2, <2>5, <3>1 DEF RequestInv, RequestCalledFor, Going
    <3>5. RequestOpens'
      <4>1. CASE s = "detach"
        BY <1>3, <1>5, <2>5, <3>1, <4>1 DEF RequestOpens, Going, Moves
      <4>2. CASE s = "attach"
        BY <1>3, <1>5, <2>5, <3>1, <4>2 DEF RequestOpens, Going, Moves
      <4> QED
        BY <4>1, <4>2 DEF Moves
    <3>6. "started" \notin Good
      BY DEF Good
    <3>7. \A x \in Undo : x \in Steps \ {s}
      BY <1>3 DEF Undo, Moves
    <3>8. \A x \in Undo : step'[x] = step[x]
      BY <2>5, <3>7
    <3>9. /\ step'["attach"] \in Good => member'.target
          /\ step'["detach"] \in Good => ~member'.source
      <4>1. /\ step["attach"] \in Good => member.target
            /\ step["detach"] \in Good => ~member.source
        BY <1>2, <2>2 DEF RequestInv, RequestForward
      <4>2. "attach" \in Steps /\ "detach" \in Steps
        BY <1>3 DEF Moves
      <4> QED
        BY <2>5, <3>6, <4>1, <4>2
    <3>10. Early' => \A x \in Moves : step'[x] \notin Good
      <4>1. SUFFICES ASSUME Early'
                     PROVE  \A x \in Moves : step'[x] \notin Good
        OBVIOUS
      <4>2. Early
        BY <3>1, <4>1 DEF Early, Going
      <4>3. \A x \in Moves : step[x] \notin Good
        BY <1>2, <2>2, <4>2 DEF RequestInv, RequestForward
      <4> QED
        BY <1>3, <2>5, <3>6, <4>3
    <3>11. \A x \in Moves : at'[Request].todo = {x} => step'[x] = "started"
      BY <2>5, <3>1 DEF Going
    <3>12. at'[Request].pc = "call"
      BY <3>1 DEF Going
    <3>13. RequestInv'
      BY <2>5, <3>2, <3>3, <3>4, <3>5, <3>8, <3>9, <3>10, <3>11, <3>12, ForwardInv
    <3> QED
      BY <1>1, <1>3, <2>1, <2>3, <2>4, <3>1, <3>12, <3>13, RequestWrites DEF Settled
  <2> QED
    BY <1>4, <2>6, <2>7, <2>8 DEF Attempt
<1> QED
  BY <1>4, <1>8, <1>9, <1>10 DEF Attempt

\* On its way back it begins to undo a mutation.
LEMMA RequestBeginsToUndo ==
    ASSUME IInv, Begin(Request), at[Request].goal = "compensated"
    PROVE  IInv'
<1> DEFINE s == Current(Request)
<1>1. at[Request].pc = "begin"
  BY DEF Begin, At
<1>2. /\ TypeOK /\ RequestHolds /\ RequestBack /\ Request \in Threads
      /\ at[Request].todo \subseteq Undo /\ at[Request].seen.row = "source"
      /\ step["attach"] \notin Open /\ step["detach"] \notin Open
      /\ \A m \in Moves : step[m] \notin Open
      /\ "undoSource" \in at[Request].todo => scene.source
  BY Backing
<1>3. at[Request].todo # {}
  BY <1>1, Tasks DEF Forward
<1>4. s \in Undo /\ s \in at[Request].todo /\ Undo \cup Moves \subseteq Steps /\ s \in Steps
  BY <1>2, <1>3, CurrentUndo DEF Undo, Moves, Steps, Mutations
<1>5. Attempt(Request, StartStep(Request, s), Go(Request, "call"), Isolating)
  BY <1>4 DEF Begin, Abandon, Undo
<1>6. s = Current(Request)
  OBVIOUS
<1> HIDE DEF s
<1>7. CASE UNCHANGED rows /\ Put(Request, Isolating)
  BY <1>1, <1>2, <1>5, <1>7, Idling, RequestLeaves DEF Attempt, Leaving, Isolating
<1>8. CASE StartStep(Request, s)
  <2>1. Writes(Request, s, "started") /\ step[s] \in {"pending", "failed"}
    BY <1>2, <1>4, <1>5, <1>8, Starting DEF Attempt
  <2>2. lease.holders = {Request}
    BY <1>1, <1>2, <2>1 DEF RequestHolds, Undoing, Writes, Owns
  <2>3. Fits(s, "started")
    BY <1>2, <1>4 DEF Fits, RequestBack, Undoing, Undo, Moves
  <2>4. "started" \in StepState /\ "started" # "pending"
    BY DEF StepState, Open
  <2>5. /\ scene' = scene /\ lease' = lease /\ member' = member
        /\ step'[s] = "started" /\ \A x \in Steps \ {s} : step'[x] = step[x]
    BY <2>1 DEF Writes
  <2>6. CASE Put(Request, Isolating)
    BY <1>1, <1>4, <2>1, <2>2, <2>3, <2>4, <2>6, RequestQuits DEF Leaving, Isolating
  <2>7. CASE Put(Request, Go(Request, "call"))
    <3>1. Moved(Request) /\ Going(Request, "call")
      BY <1>2, <2>7, Goes DEF Places
    <3>2. RequestPlaced' /\ Answered(Request)'
      BY <1>2, <1>3, <3>1 DEF RequestPlaced, Answered, Going
    <3>3. RequestHolds'
      BY <2>2, <2>5, <3>1 DEF RequestHolds, Forward, Undoing, Going
    <3>4. \A x \in Moves : x \in Steps \ {s}
      BY <1>4 DEF Undo, Moves
    <3>5. step'["attach"] \notin Open /\ step'["detach"] \notin Open
          /\ step'["attach"] = step["attach"]
      BY <1>2, <2>5, <3>4 DEF Moves
    <3>6. \A x \in Undo \ at[Request].todo : step'[x] \notin Open
      <4>1. \A x \in Undo \ at[Request].todo : x \in Steps \ {s}
        BY <1>4
      <4> QED
        BY <1>2, <2>5, <4>1 DEF RequestBack, Undoing
    <3>7. Current(Request)' = s
      BY <1>6, <3>1, CurrentSame DEF Going
    <3>8. RequestBack'
      BY <1>2, <2>4, <2>5, <3>1, <3>5, <3>6, <3>7 DEF RequestBack, Undoing, Going
    <3>9. RequestInv'
      BY <1>2, <2>5, <3>1, <3>2, <3>3, <3>5, <3>8, BackInv DEF Going
    <3> QED
      BY <1>1, <1>4, <2>1, <2>2, <2>3, <2>4, <3>1, <3>9, RequestWrites DEF Going, Settled
  <2> QED
    BY <1>5, <2>6, <2>7 DEF Attempt
<1> QED
  BY <1>5, <1>7, <1>8 DEF Attempt

LEMMA RequestBegins ==
    ASSUME IInv, Begin(Request)
    PROVE  IInv'
<1>1. at[Request].pc = "begin"
  BY DEF Begin, At
<1>2. CASE at[Request].goal = "compensated"
  BY <1>2, RequestBeginsToUndo
<1>3. CASE Forward /\ \E s \in Moves \cup {"prepare", "commit"} : at[Request].todo = {s}
  BY <1>3, RequestBeginsToMove, RequestBeginsQuietly
<1> QED
  BY <1>1, <1>2, <1>3, Tasks

\* The mutation it is at.
LEMMA Mutation ==
    ASSUME IInv, at[Request].pc \in {"call", "complete"}
    PROVE  /\ Current(Request) \in Mutations /\ Current(Request) \in at[Request].todo
           /\ \/ /\ Forward /\ Current(Request) \in Moves
                 /\ at[Request].todo = {Current(Request)}
              \/ /\ at[Request].goal = "compensated" /\ Current(Request) \in Undo
                 /\ at[Request].todo \subseteq Undo /\ at[Request].todo # {}
<1>1. CASE at[Request].goal = "compensated"
  <2>1. at[Request].todo \subseteq Undo /\ at[Request].todo # {}
    BY <1>1, Tasks DEF Forward
  <2> QED
    BY <1>1, <2>1, CurrentUndo DEF Undo, Mutations
<1>2. ASSUME Forward, NEW s \in Moves, at[Request].todo = {s}
      PROVE  /\ Current(Request) \in Mutations /\ Current(Request) \in Moves
             /\ at[Request].todo = {Current(Request)}
  BY <1>2, CurrentOne DEF Moves, Steps, Mutations
<1>3. at[Request].pc \notin {"renewing", "begin"}
  OBVIOUS
<1> QED
  BY <1>1, <1>2, <1>3, Tasks

\* Its mutation of the document, on its way forward, is what it remembers of it.
LEMMA CallForward ==
    ASSUME IInv, at[Request].pc = "call", Forward, NEW s \in Moves, at[Request].todo = {s},
           at'[Request].pc = "complete", at'[Request].todo = at[Request].todo,
           at'[Request].goal = at[Request].goal, at'[Request].seen = at[Request].seen,
           at'[Request].got \in Good \cup {"failed", "unknown"},
           scene' = scene, lease' = lease, step' = step, workspace' = workspace,
           lease.owner = Request =>
              /\ at'[Request].got \in Good => member'[Side(s)] = Desired(s)
              /\ at'[Request].got = "failed" => member'[Side(s)] # Desired(s)
              /\ \A m \in Moves \ {s} : member'[Side(m)] = member[Side(m)]
    PROVE  RequestInv'
<1>1. RequestInv /\ at[Request].goal = "none" /\ at[Request].seen.row = "source"
  BY Forwarding
<1>2. Forward' /\ Answered(Request)' /\ RequestPlaced'
  BY <1>1 DEF Forward, Answered, RequestPlaced, Moves
<1>3. RequestCalledFor'
  BY <1>1 DEF RequestInv, RequestCalledFor
<1>4. RequestOpens'
  BY <1>1 DEF RequestInv, RequestOpens, Ended, Settled
<1>5. ASSUME lease.owner = Request
      PROVE  /\ step["attach"] \in Good => member'.target
             /\ step["detach"] \in Good => ~member'.source
             /\ Early' => \A m \in Moves : step[m] \notin Good
  <2>1. /\ step["attach"] \in Good => member.target
        /\ step["detach"] \in Good => ~member.source
        /\ Early => \A m \in Moves : step[m] \notin Good
        /\ step[s] = "started"
    BY <1>1, <1>5 DEF RequestInv, RequestForward
  <2>2. Early' => Early
    BY DEF Early
  <2>3. step[s] \notin Good
    BY <2>1 DEF Good
  <2>4. \A m \in Moves \ {s} : member'[Side(m)] = member[Side(m)]
    BY <1>5
  <2> QED
    BY <2>1, <2>2, <2>3, <2>4, Sides DEF Moves
<1> QED
  BY <1>2, <1>3, <1>4, <1>5, ForwardInv

\* Likewise on its way back.
LEMMA CallBack ==
    ASSUME IInv, at[Request].pc = "call", at[Request].goal = "compensated",
           NEW s \in Undo, s = Current(Request), s \in at[Request].todo,
           at'[Request].pc = "complete", at'[Request].todo = at[Request].todo,
           at'[Request].goal = at[Request].goal, at'[Request].seen = at[Request].seen,
           at'[Request].got \in Good \cup {"failed", "unknown"},
           scene' = scene, lease' = lease, step' = step,
           at'[Request].got \in Good => member'[Side(s)] = Desired(s),
           s = "undoSource" => member'.target = member.target,
           s = "undoTarget" => member'.source = member.source
    PROVE  RequestInv'
<1>1. /\ RequestHolds /\ RequestBack
      /\ at[Request].todo \subseteq Undo /\ at[Request].seen.row = "source"
      /\ step["attach"] \notin Open /\ step["detach"] \notin Open
      /\ "undoSource" \in at[Request].todo => scene.source
  BY Backing
<1>2. RequestPlaced' /\ Answered(Request)'
  BY <1>1 DEF RequestPlaced, Answered
<1>3. RequestHolds'
  BY <1>1 DEF RequestHolds, Forward, Undoing
<1>4. Current(Request)' = s
  BY CurrentSame
<1>5. /\ "undoTarget" \notin at[Request].todo => ~member'.target
      /\ "undoSource" \notin at[Request].todo => (scene.source => member'.source)
  BY <1>1 DEF RequestBack, Undoing, Undo
<1>6. RequestBack'
  BY <1>1, <1>4, <1>5 DEF RequestBack, Undoing
<1> QED
  BY <1>1, <1>2, <1>3, <1>6, BackInv

LEMMA RequestCallKeeps ==
    ASSUME IInv, Call(Request)
    PROVE  IInv'
<1> DEFINE s == Current(Request)
<1>1. at[Request].pc = "call"
  BY DEF Call, At
<1>2. TypeOK /\ LeaseInv /\ RequestInv /\ Request \in Threads
  BY <1>1, Tasks
<1>3. /\ s \in Mutations /\ s \in at[Request].todo /\ s = Current(Request)
      /\ \/ Forward /\ s \in Moves /\ at[Request].todo = {s}
         \/ at[Request].goal = "compensated" /\ s \in Undo
  BY <1>1, Mutation
<1>4. PICK got \in Good \cup {"failed", "unknown"} :
              /\ Moved(Request) /\ at'[Request].pc = "complete" /\ at'[Request].got = got
              /\ at'[Request].todo = at[Request].todo /\ at'[Request].goal = at[Request].goal
              /\ at'[Request].seen = at[Request].seen
              /\ \/ Effects(Request, s) /\ got \in Good \cup {"unknown"}
                 \/ /\ UNCHANGED <<scene, rows, remote, late>>
                    /\ got = "failed" => member[Side(s)] # Desired(s)
                    /\ got \in {"failed", "unknown"}
  BY <1>2, <1>3, CallCases
<1> HIDE DEF s
<1>5. "failed" \notin Good /\ "unknown" \notin Good /\ "failed" # "unknown"
  BY DEF Good
<1>6. CASE UNCHANGED <<scene, rows, remote, late>> /\ (got = "failed" => member[Side(s)] # Desired(s))
           /\ got \in {"failed", "unknown"}
  <2>1. Rests(Request)
    BY <1>2, <1>6, Idling
  <2>2. /\ scene' = scene /\ lease' = lease /\ step' = step /\ workspace' = workspace
        /\ member' = member
    BY <2>1 DEF Rests
  <2>3. got \notin Good
    BY <1>5, <1>6
  <2>4. RequestInv'
    <3>1. CASE Forward /\ s \in Moves /\ at[Request].todo = {s}
      BY <1>1, <1>4, <1>6, <2>2, <2>3, <3>1, CallForward
    <3>2. CASE at[Request].goal = "compensated" /\ s \in Undo
      BY <1>1, <1>3, <1>4, <2>2, <2>3, <3>2, CallBack
    <3> QED
      BY <1>3, <3>1, <3>2
  <2> QED
    BY <1>1, <1>4, <2>1, <2>4, RequestRests DEF Settled, Ended
<1>7. CASE Effects(Request, s) /\ got \in Good \cup {"unknown"}
  <2>1. /\ scene' = scene /\ lease' = lease /\ step' = step /\ workspace' = workspace
        /\ member'[Side(s)] = Desired(s) /\ Request \notin late
        /\ s \in {"detach", "undoSource"} => member'.target = member.target
        /\ s \in {"attach", "undoTarget"} => member'.source = member.source
    BY <1>7 DEF Effects, rows
  <2>2. lease.owner = Request
    BY <1>1, <1>2, <2>1, RequestInTime
  <2>3. got # "failed"
    BY <1>5, <1>7
  <2>4. CASE Forward /\ s \in Moves /\ at[Request].todo = {s}
    <3>1. \A m \in Moves \ {s} : member'[Side(m)] = member[Side(m)]
      BY <2>1, <2>4, Sides DEF Moves
    <3>2. RequestInv'
      BY <1>1, <1>4, <2>1, <2>3, <2>4, <3>1, CallForward
    <3>3. step[s] = "started"
      BY <1>1, <1>2, <2>2, <2>4 DEF RequestInv, RequestForward
    <3>4. s = "attach" => workspace
      BY <1>2, <2>4 DEF RequestInv, RequestCalledFor
    <3>5. s # "undoSource"
      BY <2>4 DEF Moves
    <3> QED
      BY <1>1, <1>3, <1>4, <1>7, <3>2, <3>3, <3>4, <3>5, RequestCalls
  <2>5. CASE at[Request].goal = "compensated" /\ s \in Undo
    <3>1. RequestInv'
      BY <1>1, <1>3, <1>4, <2>1, <2>5, CallBack
    <3>2. s = "undoSource" => scene.source /\ step["undoSource"] # "pending"
      BY <1>1, <1>3, <2>5, Backing DEF RequestBack, Undoing
    <3>3. s \notin Moves /\ s # "attach"
      BY <2>5 DEF Moves, Undo
    <3> QED
      BY <1>1, <1>3, <1>4, <1>7, <3>1, <3>2, <3>3, RequestCalls
  <2> QED
    BY <1>3, <2>4, <2>5
<1> QED
  BY <1>4, <1>6, <1>7

LEMMA TwoFields ==
    ASSUME NEW a \in Shape, NEW todo, todo \subseteq Steps
    PROVE  LET c == [a EXCEPT !.got = "none", !.todo = todo]
           IN  /\ c \in Shape /\ c.pc = a.pc /\ c.got = "none" /\ c.todo = todo
               /\ c.goal = a.goal /\ c.seen = a.seen
<1> DEFINE b == [a EXCEPT !.got = "none"]
           c == [b EXCEPT !.todo = todo]
<1>1. b = [a EXCEPT !.got = "none"] /\ "none" \in GotKinds
  BY DEF GotKinds
<1>2. c = [b EXCEPT !.todo = todo] /\ c = [a EXCEPT !.got = "none", !.todo = todo]
  OBVIOUS
<1> HIDE DEF b, c
<1>3. b \in Shape /\ b.pc = a.pc /\ b.got = "none" /\ b.goal = a.goal /\ b.seen = a.seen
  BY <1>1, GotFields
<1>4. c \in Shape /\ c.pc = b.pc /\ c.got = b.got /\ c.todo = todo /\ c.goal = b.goal
      /\ c.seen = b.seen
  BY <1>2, <1>3, TodoFields
<1> QED
  BY <1>2, <1>3, <1>4

\* It forgets its answer and goes on with something else to do.
LEMMA GoesOn ==
    ASSUME TypeOK, NEW place \in Places, NEW todo, todo \subseteq Steps,
           Put(Request, [Go(Request, place) EXCEPT !.got = "none", !.todo = todo])
    PROVE  /\ Moved(Request) /\ at'[Request].pc = place /\ at'[Request].got = "none"
           /\ at'[Request].todo = todo /\ at'[Request].goal = at[Request].goal
           /\ at'[Request].seen = at[Request].seen
<1> DEFINE c == [Go(Request, place) EXCEPT !.got = "none", !.todo = todo]
<1>1. Request \in Threads
  BY Who
<1>2. /\ Go(Request, place) \in Shape /\ Go(Request, place).pc = place
      /\ Go(Request, place).goal = at[Request].goal /\ Go(Request, place).seen = at[Request].seen
  BY <1>1, GoIs
<1>3. /\ c \in Shape /\ c.pc = Go(Request, place).pc /\ c.got = "none" /\ c.todo = todo
      /\ c.goal = Go(Request, place).goal /\ c.seen = Go(Request, place).seen
  BY <1>2, TwoFields
<1>4. Put(Request, c)
  OBVIOUS
<1> HIDE DEF c
<1>5. Moved(Request) /\ at'[Request] = c
  BY <1>1, <1>3, <1>4, Puts
<1> QED
  BY <1>2, <1>3, <1>5

\* What it goes on with when it has moved the document, or could not.
LEMMA CompleteForward ==
    ASSUME IInv, at[Request].pc = "complete", Forward, NEW s \in Moves, at[Request].todo = {s},
           lease.owner = Request, Moved(Request), Forward',
           scene' = scene, lease' = lease, member' = member, workspace' = workspace,
           step'[s] = at[Request].got, \A x \in Steps \ {s} : step'[x] = step[x],
           at[Request].got \in Good \cup {"failed"},
           \/ /\ at[Request].got \in Good /\ at'[Request].pc = "renewing"
              /\ at'[Request].todo = IF s = "detach" THEN {"prepare"} ELSE {"commit"}
           \/ /\ at[Request].got = "failed" /\ s = "detach" /\ at'[Request].pc = "give up"
              /\ at'[Request].todo = {},
           at'[Request].seen.row = "source"
    PROVE  RequestInv'
<1>1. TypeOK /\ RequestInv
  BY Forwarding
<1>2. Forward' /\ Answered(Request)' /\ RequestPlaced'
  BY DEF Answered, RequestPlaced, Forward
<1>3. s = "detach" => scene.remote
  BY <1>1, Scenery DEF RequestInv, RequestCalledFor
<1>4. RequestCalledFor'
  <2>1. CASE s = "detach"
    <3>1. /\ at'[Request].todo = {"prepare"} \/ at'[Request].todo = {}
          /\ at'[Request].pc = "renewing" \/ at'[Request].pc = "give up"
      BY <2>1
    <3>2. /\ "detach" \notin at'[Request].todo /\ "undoSource" \notin at'[Request].todo
          /\ "attach" \notin at'[Request].todo
          /\ at'[Request].pc # "claiming" /\ at'[Request].pc # "mapping"
      BY <3>1
    <3>3. scene'.remote
      BY <1>3, <2>1
    <3> QED
      BY <3>2, <3>3 DEF RequestCalledFor
  <2>2. CASE s = "attach"
    BY <2>2 DEF RequestCalledFor
  <2> QED
    BY <2>1, <2>2 DEF Moves
<1>5. Undo \cup Moves \subseteq Steps
  BY DEF Moves, Undo, Steps, Mutations
<1>6. step'[s] \notin Open
  BY DEF Good, Open
<1>7. \A m \in Moves \ {s} : step'[m] = step[m] /\ step[m] \notin Open
  <2>1. s = "detach" => at[Request].todo # {"attach"}
    OBVIOUS
  <2>2. s = "attach" => at[Request].todo # {"detach"}
    OBVIOUS
  <2> QED
    BY <1>1, <1>5, <2>1, <2>2 DEF RequestInv, RequestOpens, Moves, Ended, Settled
<1>8. RequestOpens'
  <2>1. \A m \in Moves : step'[m] \notin Open
    BY <1>6, <1>7
  <2> QED
    BY <2>1 DEF RequestOpens, Moves
<1>9. /\ \A x \in Undo : step'[x] = step[x]
      /\ \A m \in Moves : at'[Request].todo # {m}
  <2>1. \A x \in Undo : x \in Steps \ {s}
    BY <1>5 DEF Undo, Moves
  <2> QED
    BY <2>1 DEF Moves
<1>10. /\ step["attach"] \in Good => member.target
       /\ step["detach"] \in Good => ~member.source
       /\ Early => \A m \in Moves : step[m] \notin Good
       /\ at[Request].got \in Good => member[Side(s)] = Desired(s)
  BY <1>1 DEF RequestInv, RequestForward
<1>11. /\ step'["attach"] \in Good => member'.target
       /\ step'["detach"] \in Good => ~member'.source
  BY <1>7, <1>10, Sides DEF Moves
<1>12. Early' => \A m \in Moves : step'[m] \notin Good
  <2>1. SUFFICES ASSUME Early'
                 PROVE  \A m \in Moves : step'[m] \notin Good
    OBVIOUS
  <2>2. at[Request].got = "failed" /\ s = "detach"
    BY <2>1 DEF Early
  <2>3. Early /\ "failed" \notin Good
    BY <2>2 DEF Early, Good
  <2> QED
    BY <1>7, <1>10, <2>2, <2>3
<1> QED
  BY <1>2, <1>4, <1>8, <1>9, <1>11, <1>12, ForwardInv

\* What it goes on with when it has undone a mutation.
LEMMA CompleteBack ==
    ASSUME IInv, at[Request].pc = "complete", at[Request].goal = "compensated",
           NEW s \in Undo, s = Current(Request), at[Request].got \in Good,
           at'[Request].pc = "reread", at'[Request].todo = at[Request].todo \ {s},
           at'[Request].goal = at[Request].goal, at'[Request].seen = at[Request].seen,
           scene' = scene, lease' = lease, member' = member,
           step'[s] = at[Request].got, \A x \in Steps \ {s} : step'[x] = step[x]
    PROVE  RequestInv'
<1>1. /\ RequestHolds /\ RequestBack
      /\ at[Request].todo \subseteq Undo /\ at[Request].seen.row = "source"
      /\ step["attach"] \notin Open /\ step["detach"] \notin Open
      /\ "undoSource" \in at[Request].todo => scene.source
  BY Backing
<1>2. RequestPlaced' /\ Answered(Request)'
  BY <1>1 DEF RequestPlaced, Answered
<1>3. RequestHolds'
  BY <1>1 DEF RequestHolds, Forward, Undoing
<1>4. Undo \cup Moves \subseteq Steps /\ "attach" \in Steps \ {s} /\ "detach" \in Steps \ {s}
  BY DEF Undo, Moves, Steps, Mutations
<1>5. /\ step'["attach"] = step["attach"] /\ step'["detach"] = step["detach"]
  BY <1>4
<1>6. \A x \in Undo \ at'[Request].todo : step'[x] \notin Open
  <2>1. SUFFICES ASSUME NEW x \in Undo, x \notin at'[Request].todo
                 PROVE  step'[x] \notin Open
    OBVIOUS
  <2>2. CASE x = s
    BY <2>2 DEF Good, Open
  <2>3. CASE x # s
    BY <1>1, <1>4, <2>1, <2>3 DEF RequestBack, Undoing
  <2> QED
    BY <2>2, <2>3
<1>7. /\ "undoTarget" \notin at'[Request].todo => ~member.target
      /\ "undoSource" \notin at'[Request].todo => (scene.source => member.source)
  <2>1. /\ "undoTarget" \notin at[Request].todo => ~member.target
        /\ "undoSource" \notin at[Request].todo => (scene.source => member.source)
        /\ member[Side(s)] = Desired(s)
    BY <1>1 DEF RequestBack, Undoing
  <2>2. /\ s = "undoTarget" => ~member.target
        /\ s = "undoSource" => member.source
    BY <2>1, Sides
  <2> QED
    BY <2>1, <2>2
<1>8. "undoTarget" \in at'[Request].todo => step'["attach"] \in Good
  BY <1>1, <1>5 DEF RequestBack, Undoing
<1>9. RequestBack'
  BY <1>6, <1>7, <1>8 DEF RequestBack
<1> QED
  BY <1>1, <1>2, <1>3, <1>5, <1>9, BackInv

\* A result it may write down.
LEMMA Results ==
    ASSUME IInv, at[Request].pc = "complete", Writes(Request, Current(Request), at[Request].got)
    PROVE  /\ Fits(Current(Request), at[Request].got)
           /\ Forward \/ (Current(Request) \in Undo /\ lease.holders = {Request})
           /\ Forward => lease.owner = Request
<1> DEFINE s == Current(Request)
           got == at[Request].got
<1>1. /\ TypeOK /\ LeaseInv /\ RequestInv
      /\ \/ Forward /\ s \in Moves /\ at[Request].todo = {s}
         \/ at[Request].goal = "compensated" /\ s \in Undo
      /\ s \in at[Request].todo
  BY Mutation, Tasks
<1>2. Owns(Request)
  BY DEF Writes
<1>3. s = Current(Request) /\ got = at[Request].got
  OBVIOUS
<1> HIDE DEF s, got
<1>4. CASE Forward /\ s \in Moves /\ at[Request].todo = {s}
  <2>1. lease.owner = Request
    BY <1>1, <1>2, <1>4, RequestOwning DEF RequestInv
  <2>2. /\ \A u \in Undo : step[u] = "pending"
        /\ got = "failed" => member[Side(s)] # Desired(s)
    BY <1>1, <1>3, <1>4, <2>1 DEF RequestInv, RequestForward
  <2>3. /\ s = "detach" => scene.source
        /\ s = "attach" => scene.remote
    BY <1>1, <1>4 DEF RequestInv, RequestCalledFor
  <2>4. /\ s = "attach" /\ got = "failed" => ~member.target
        /\ s = "detach" /\ got = "failed" => member.source
    <3>1. member.target \in BOOLEAN /\ member.source \in BOOLEAN
      BY <1>1 DEF TypeOK
    <3> QED
      BY <2>2, <3>1, Sides
  <2>5. Fits(s, got)
    BY <1>4, <2>2, <2>3, <2>4 DEF Fits, Undo, Moves
  <2> QED
    BY <1>3, <1>4, <2>1, <2>5
<1>5. CASE at[Request].goal = "compensated" /\ s \in Undo
  <2>1. /\ RequestBack /\ RequestHolds /\ \A m \in Moves : step[m] \notin Open
        /\ "undoSource" \in at[Request].todo => scene.source
    BY <1>5, Backing
  <2>2. lease.holders = {Request}
    BY <1>2, <1>5, <2>1 DEF RequestHolds, Undoing, Owns
  <2>3. Fits(s, got)
    BY <1>1, <1>5, <2>1 DEF Fits, RequestBack, Undoing, Undo, Moves
  <2>4. ~Forward
    BY <1>5 DEF Forward
  <2> QED
    BY <1>3, <1>5, <2>2, <2>3, <2>4
<1> QED
  BY <1>1, <1>4, <1>5

\* What a result leads to.
Then(place, todo) == [Go(Request, place) EXCEPT !.got = "none", !.todo = todo]

LEMMA CompleteCases ==
    ASSUME IInv, Complete(Request), NEW s, s = Current(Request), NEW got, got = at[Request].got,
           NEW todo, todo = at[Request].todo \ {s}
    PROVE  /\ at[Request].pc = "complete" /\ UNCHANGED <<scene, remote, late>>
           /\ \/ UNCHANGED rows /\ Put(Request, Isolating)
              \/ SetStep(Request, s, got) /\ Put(Request, Isolating)
              \/ /\ SetStep(Request, s, got) /\ got \in Good /\ s = "detach"
                 /\ Put(Request, Then("renewing", {"prepare"}))
              \/ /\ SetStep(Request, s, got) /\ got \in Good /\ s = "attach"
                 /\ Put(Request, Then("renewing", {"commit"}))
              \/ /\ SetStep(Request, s, got) /\ got \in Good /\ s \in Undo
                 /\ Put(Request, Then("reread", todo))
              \/ /\ SetStep(Request, s, got) /\ got = "failed" /\ s = "detach"
                 /\ Put(Request, End("give up"))
              \/ /\ SetStep(Request, s, got) /\ got = "failed" /\ s = "attach"
                 /\ Put(Request, End("compensate"))
<1>1. at[Request].pc = "complete" /\ Abandon(Request) = Isolating
  BY DEF Complete, At, Abandon
<1>2. s \in Undo \cup Moves /\ got \in Good \cup {"failed", "unknown"}
  <2>1. RequestInv
    BY DEF IInv
  <2> QED
    BY <1>1, <2>1, Mutation DEF RequestInv, Answered
<1>3. Attempt(Request, SetStep(Request, s, got),
          CASE got \in Good /\ s = "detach" -> Then("renewing", {"prepare"})
            [] got \in Good /\ s = "attach" -> Then("renewing", {"commit"})
            [] got \in Good /\ s \in {"undoTarget", "undoSource"} ->
                 IF Request = Request THEN Then("reread", todo)
                                      ELSE [Go(Request, "look again") EXCEPT !.got = "done"]
            [] got = "failed" /\ s = "detach" -> End("give up")
            [] got = "failed" /\ s = "attach" -> End("compensate")
            [] OTHER -> Abandon(Request), Abandon(Request))
  BY DEF Complete, Then
<1>4. ASSUME NEW next, Attempt(Request, SetStep(Request, s, got), next, Isolating)
      PROVE  /\ UNCHANGED <<scene, remote, late>>
             /\ \/ UNCHANGED rows /\ Put(Request, Isolating)
                \/ SetStep(Request, s, got) /\ Put(Request, Isolating)
                \/ SetStep(Request, s, got) /\ Put(Request, next)
  BY <1>4 DEF Attempt
<1>5. CASE got \in Good /\ s = "detach"
  <2>1. Attempt(Request, SetStep(Request, s, got), Then("renewing", {"prepare"}), Isolating)
    BY <1>1, <1>5, <1>3 DEF Good
  <2> QED
    BY <1>1, <1>4, <1>5, <2>1
<1>6. CASE got \in Good /\ s = "attach"
  <2>1. Attempt(Request, SetStep(Request, s, got), Then("renewing", {"commit"}), Isolating)
    BY <1>1, <1>6, <1>3 DEF Good
  <2> QED
    BY <1>1, <1>4, <1>6, <2>1
<1>7. CASE got \in Good /\ s \in Undo
  <2>1. Attempt(Request, SetStep(Request, s, got), Then("reread", todo), Isolating)
    BY <1>1, <1>7, <1>3 DEF Undo
  <2> QED
    BY <1>1, <1>4, <1>7, <2>1
<1>8. CASE got = "failed" /\ s = "detach"
  <2>1. Attempt(Request, SetStep(Request, s, got), End("give up"), Isolating)
    BY <1>1, <1>8, <1>3 DEF Good
  <2> QED
    BY <1>1, <1>4, <1>8, <2>1
<1>9. CASE got = "failed" /\ s = "attach"
  <2>1. Attempt(Request, SetStep(Request, s, got), End("compensate"), Isolating)
    BY <1>1, <1>9, <1>3 DEF Good
  <2> QED
    BY <1>1, <1>4, <1>9, <2>1
<1>10. CASE got \notin Good /\ ~(got = "failed" /\ s \in Moves)
  <2>1. Attempt(Request, SetStep(Request, s, got), Isolating, Isolating)
    BY <1>1, <1>10, <1>3 DEF Moves
  <2> QED
    BY <1>1, <1>4, <2>1
<1> QED
  BY <1>2, <1>5, <1>6, <1>7, <1>8, <1>9, <1>10 DEF Moves

LEMMA RequestCompletes ==
    ASSUME IInv, Complete(Request)
    PROVE  IInv'
<1> DEFINE s    == Current(Request)
           got  == at[Request].got
           todo == at[Request].todo \ {s}
<1>1. at[Request].pc = "complete" /\ UNCHANGED <<scene, remote, late>>
  BY CompleteCases
<1>2. TypeOK /\ LeaseInv /\ RequestInv /\ Request \in Threads /\ at[Request].seen.row = "source"
  BY <1>1, Tasks
<1>3. s \in Mutations /\ s \in Steps /\ s \in at[Request].todo
  BY <1>1, Mutation DEF Steps
<1>4. got \in Good \cup {"failed", "unknown"}
  BY <1>1, <1>2 DEF RequestInv, Answered
<1>5. s = Current(Request) /\ got = at[Request].got /\ todo = at[Request].todo \ {s}
  OBVIOUS
<1>6. todo \subseteq Steps
  BY <1>2, Fields
<1>7. \/ UNCHANGED rows /\ Put(Request, Isolating)
      \/ SetStep(Request, s, got) /\ Put(Request, Isolating)
      \/ /\ SetStep(Request, s, got) /\ got \in Good /\ s = "detach"
         /\ Put(Request, Then("renewing", {"prepare"}))
      \/ /\ SetStep(Request, s, got) /\ got \in Good /\ s = "attach"
         /\ Put(Request, Then("renewing", {"commit"}))
      \/ /\ SetStep(Request, s, got) /\ got \in Good /\ s \in Undo
         /\ Put(Request, Then("reread", todo))
      \/ /\ SetStep(Request, s, got) /\ got = "failed" /\ s = "detach"
         /\ Put(Request, End("give up"))
      \/ /\ SetStep(Request, s, got) /\ got = "failed" /\ s = "attach"
         /\ Put(Request, End("compensate"))
  BY CompleteCases
<1> HIDE DEF s, got, todo
<1>8. CASE UNCHANGED rows /\ Put(Request, Isolating)
  BY <1>1, <1>2, <1>8, Idling, RequestLeaves DEF Leaving, Isolating
<1>9. CASE SetStep(Request, s, got)
  <2>1. got \in Good \cup Open \cup {"failed"} /\ got \in StepState
    BY <1>4 DEF Open, StepState
  <2>2. Writes(Request, s, got)
    BY <1>1, <1>2, <1>3, <1>9, <2>1, Setting
  <2>3. /\ Fits(s, got)
        /\ Forward \/ (s \in Undo /\ lease.holders = {Request})
        /\ Forward => lease.owner = Request
    BY <1>1, <1>5, <2>2, Results
  <2>4. /\ scene' = scene /\ lease' = lease /\ member' = member /\ workspace' = workspace
        /\ step'[s] = got /\ \A x \in Steps \ {s} : step'[x] = step[x]
    BY <2>2 DEF Writes
  <2>5. ASSUME Moved(Request), at'[Request].pc \notin Settled, RequestInv'
        PROVE  IInv'
    BY <1>1, <1>3, <2>1, <2>2, <2>3, <2>5, RequestWrites
  <2>6. s \in Moves => Forward /\ at[Request].todo = {s}
    BY <1>1, <1>5, Mutation DEF Undo, Moves
  <2>7. CASE Put(Request, Isolating)
    BY <1>1, <1>3, <2>1, <2>2, <2>3, <2>7, RequestQuits DEF Leaving, Isolating
  <2>8. CASE got = "failed" /\ s = "attach" /\ Put(Request, End("compensate"))
    <3>1. Moved(Request) /\ Anew(Request, "compensate")
      BY <1>2, <2>8, Ends DEF Places
    <3>2. step'["attach"] \notin Open
      BY <2>4, <2>8 DEF Open
    <3>3. step'["detach"] \notin Open
      <4>1. at[Request].todo # {"detach"} /\ "detach" \in Steps \ {s} /\ s \in Moves
        BY <2>6, <2>8 DEF Steps, Mutations, Moves
      <4>2. step["detach"] \notin Open
        BY <1>1, <1>2, <4>1 DEF RequestInv, RequestOpens, Ended, Settled
      <4> QED
        BY <2>4, <4>1, <4>2
    <3>4. RequestInv' /\ at'[Request].pc \notin Settled
      BY <3>1, <3>2, <3>3, CompensateInv DEF Anew, Settled
    <3> QED
      BY <2>5, <3>1, <3>4
  <2>9. CASE got = "failed" /\ s = "detach" /\ Put(Request, End("give up"))
    <3>1. Moved(Request) /\ Anew(Request, "give up")
      BY <1>2, <2>9, Ends DEF Places
    <3>2. s \in Moves /\ Forward /\ at[Request].todo = {s} /\ lease.owner = Request
      BY <2>3, <2>6, <2>9 DEF Moves
    <3>3. Forward' /\ at'[Request].pc \notin Settled
      BY <3>1 DEF Forward, Anew, Settled
    <3>4. RequestInv'
      BY <1>1, <1>5, <2>4, <2>9, <3>1, <3>2, <3>3, CompleteForward DEF Anew
    <3> QED
      BY <2>5, <3>1, <3>3, <3>4
  <2>10. ASSUME got \in Good, NEW t \in {"prepare", "commit"},
                t = IF s = "detach" THEN "prepare" ELSE "commit",
                s \in Moves, Put(Request, Then("renewing", {t}))
         PROVE  IInv'
    <3> DEFINE set == {t}
    <3>1. set \subseteq Steps /\ "renewing" \in Places /\ set = {t}
      BY <2>10 DEF Steps, Places
    <3>2. Put(Request, [Go(Request, "renewing") EXCEPT !.got = "none", !.todo = set])
      BY <2>10 DEF Then
    <3> HIDE DEF set
    <3>3. /\ Moved(Request) /\ at'[Request].pc = "renewing" /\ at'[Request].todo = set
          /\ at'[Request].goal = at[Request].goal /\ at'[Request].seen = at[Request].seen
      BY <1>2, <3>1, <3>2, GoesOn
    <3>4. Forward /\ at[Request].todo = {s} /\ lease.owner = Request
      BY <2>3, <2>6, <2>10
    <3>5. Forward' /\ at'[Request].pc \notin Settled
      BY <3>3, <3>4 DEF Forward, Settled
    <3>6. at'[Request].todo = IF s = "detach" THEN {"prepare"} ELSE {"commit"}
      BY <2>10, <3>1, <3>3
    <3>7. RequestInv'
      BY <1>1, <1>2, <1>5, <2>4, <2>10, <3>3, <3>4, <3>5, <3>6, CompleteForward
    <3> QED
      BY <2>5, <3>3, <3>5, <3>7
  <2>11. CASE got \in Good /\ s = "detach" /\ Put(Request, Then("renewing", {"prepare"}))
    BY <2>10, <2>11 DEF Moves
  <2>12. CASE got \in Good /\ s = "attach" /\ Put(Request, Then("renewing", {"commit"}))
    BY <2>10, <2>12 DEF Moves
  <2>13. CASE got \in Good /\ s \in Undo /\ Put(Request, Then("reread", todo))
    <3>1. "reread" \in Places
      BY DEF Places
    <3>2. /\ Moved(Request) /\ at'[Request].pc = "reread" /\ at'[Request].todo = todo
          /\ at'[Request].goal = at[Request].goal /\ at'[Request].seen = at[Request].seen
      BY <1>2, <1>6, <2>13, <3>1, GoesOn DEF Then
    <3>3. at[Request].goal = "compensated"
      BY <1>1, <1>5, <2>13, Mutation DEF Moves, Undo
    <3>4. RequestInv'
      BY <1>1, <1>5, <2>4, <2>13, <3>2, <3>3, CompleteBack
    <3>5. at'[Request].pc \notin Settled
      BY <3>2 DEF Settled
    <3> QED
      BY <2>5, <3>2, <3>4, <3>5
  <2> QED
    BY <1>9, <1>7, <2>7, <2>8, <2>9, <2>11, <2>12, <2>13
<1> QED
  BY <1>8, <1>9, <1>7

LEMMA RequestNotes ==
    ASSUME IInv, Note(Request)
    PROVE  IInv'
<1>1. at[Request].pc = "note" /\ TypeOK /\ Request \in Threads
  BY Who DEF Note, At, IInv
<1>2. /\ at[Request].goal = "compensated" /\ at[Request].todo = {}
      /\ at[Request].seen.row = "source"
  BY <1>1 DEF IInv, RequestInv, RequestPlaced, Ended, Settled
<1>3. Attempt(Request, Observe(Request), Go(Request, "finalize"), Isolating)
  BY <1>2 DEF Note
<1>4. Rests(Request)
  BY <1>1, <1>3, Observing, Idling DEF Attempt
<1>5. CASE Put(Request, Isolating)
  BY <1>1, <1>4, <1>5, RequestLeaves DEF Leaving, Isolating
<1>6. CASE Put(Request, Go(Request, "finalize"))
  <2>1. Moved(Request) /\ Going(Request, "finalize")
    BY <1>1, <1>6, Goes DEF Places
  <2> QED
    BY <1>2, <1>4, <2>1, BackOn DEF Going
<1> QED
  BY <1>3, <1>5, <1>6 DEF Attempt

LEMMA RequestFinalizes ==
    ASSUME IInv, Finalize(Request)
    PROVE  IInv'
<1>1. at[Request].pc = "finalize" /\ TypeOK /\ MemberInv /\ Request \in Threads
  BY Who DEF Finalize, At, IInv
<1>2. /\ at[Request].goal = "compensated" /\ at[Request].todo = {}
      /\ at[Request].seen.row = "source"
  BY <1>1 DEF IInv, RequestInv, RequestPlaced, Ended, Settled
<1>3. Attempt(Request, Finish(Request, "compensated"), End("compensated"), Isolating)
  BY <1>2 DEF Finalize
<1>4. UNCHANGED <<scene, remote, late>>
  BY <1>3 DEF Attempt
<1>5. CASE UNCHANGED rows /\ Put(Request, Isolating)
  BY <1>1, <1>4, <1>5, Idling, RequestLeaves DEF Leaving, Isolating
<1>6. CASE Finish(Request, "compensated")
  <2>1. /\ Settles(Request, "compensated") /\ row' = row /\ step' = step
    BY <1>1, <1>4, <1>6, Finishing DEF Settled
  <2>2. /\ ~member.target /\ (scene.source => member.source)
        /\ \A s \in Undo : step[s] \notin Open
        /\ \A m \in Moves : step[m] \notin Open
    BY <1>2, Backing DEF RequestBack, Undoing
  <2>3. \A s \in Mutations : step[s] \notin Open
    BY <2>2 DEF Mutations, Undo, Moves
  <2>4. row = "source"
    BY <1>2, <1>6 DEF Finish, Fresh
  <2>5. VerdictTrue'
    BY <2>1, <2>2, <2>4 DEF VerdictTrue, Settles
  <2>6. \E place \in {"isolate", "compensated"} : Put(Request, End(place))
    BY <1>3 DEF Attempt, Isolating
  <2>7. PICK place \in {"isolate", "compensated"} : Put(Request, End(place))
    BY <2>6
  <2>8. Moved(Request) /\ Anew(Request, place) /\ place \in Ended
    BY <1>1, <2>7, Ends DEF Places, Settled, Ended
  <2>9. RequestInv' /\ at'[Request].pc \in {"isolate", "compensated"}
    BY <2>8, RequestOut DEF Anew
  <2> QED
    BY <1>1, <2>1, <2>3, <2>5, <2>8, <2>9, RequestSettles DEF Settled
<1> QED
  BY <1>3, <1>5, <1>6 DEF Attempt

\* Whatever the request does keeps the invariant.
LEMMA RequestKeeps ==
    ASSUME IInv, RequestStep \/ ThreadStep(Request) \/ Die(Request)
    PROVE  IInv'
<1>1. Request \in Threads
  BY Who
<1>2. CASE RequestStep
  <2>1. CASE ReserveOp \/ Promote \/ Claim \/ GiveUp \/ Create \/ Mapping \/ Fact \/ Unprepared
    BY <2>1, ReserveKeeps, PromoteKeeps, ClaimKeeps, GiveUpKeeps, CreateKeeps, MappingKeeps,
       FactKeeps, UnpreparedKeeps
  <2>2. CASE Commit \/ Reconcile \/ Compensate \/ Entering \/ Reread \/ Recheck
    BY <2>2, CommitKeeps, ReconcileKeeps, CompensateKeeps, EnteringKeeps, RereadKeeps,
       RecheckKeeps
  <2> QED
    BY <1>2, <2>1, <2>2 DEF RequestStep
<1>3. CASE ThreadStep(Request)
  BY <1>1, <1>3, RequestRenews, RequestBegins, RequestCallKeeps, RequestCompletes,
     RequestNotes, RequestFinalizes, IsolateKeeps DEF ThreadStep
<1>4. CASE Die(Request)
  BY <1>1, <1>4, DieKeeps
<1> QED
  BY <1>2, <1>3, <1>4

-------------------------------------------------------------------------------
(***************************************************************************)
(* Time, other programs, and the theorems.                                 *)
(***************************************************************************)
LEMMA WorldKeeps ==
    ASSUME IInv, Assembly, \A r \in Recoverers : Undisturbed(r), Bystander
    PROVE  IInv'
<1>1. RequestInv'
  BY RequestKept DEF IInv
<1> QED
  BY <1>1, RequestAssembles

LEMMA ExpireKeeps ==
    ASSUME IInv, Expire
    PROVE  IInv'
<1>1. /\ scene' = scene /\ op' = op /\ step' = step /\ tried' = tried /\ observer' = observer
      /\ row' = row /\ member' = member /\ workspace' = workspace /\ at' = at
      /\ late' = Threads /\ lease' = [lease EXCEPT !.expired = TRUE]
      /\ op.status \in Protecting
  BY DEF Expire, remote
<1>2. TypeOK /\ LeaseInv /\ Document /\ AnswerIsVerdict /\ Answering
  BY DEF IInv, SettledInv, Document
<1>3. /\ lease' \in LeaseRow /\ lease'.owner = lease.owner /\ lease'.holders = lease.holders
      /\ lease'.expired
  <2>1. lease \in LeaseRow
    BY <1>2, Types
  <2> QED
    BY <1>1, <2>1 DEF LeaseRow
<1>4. TypeOK'
  BY <1>1, <1>2, <1>3, Types, TypesNext
<1>5. LeaseInv'
  BY <1>1, <1>2, <1>3 DEF LeaseInv, Protecting
<1>6. Document'
  BY <1>1, <1>2, <1>3, DocumentSpared DEF Spares
<1>7. AnswerIsVerdict' /\ Calm' /\ Answering'
  BY <1>1, <1>2, <1>3 DEF AnswerIsVerdict, Calm, Answering
<1>8. \A r \in Recoverers : Undisturbed(r)
  BY <1>1, <1>3, Who DEF Undisturbed
<1>9. Bystander
  BY <1>1, <1>2, <1>3 DEF Bystander, TypeOK
<1> QED
  BY <1>4, <1>5, <1>6, <1>7, <1>8, <1>9, WorldKeeps DEF Assembly

LEMMA ReclassifyKeeps ==
    ASSUME IInv, Reclassify
    PROVE  IInv'
<1>1. /\ scene' = scene /\ op' = op /\ step' = step /\ tried' = tried /\ observer' = observer
      /\ member' = member /\ workspace' = workspace /\ at' = at
      /\ late' = late /\ lease' = lease /\ row' = "other"
      /\ op.status \in Protecting
  BY DEF Reclassify, remote
<1>2. TypeOK /\ LeaseInv /\ Document /\ AnswerIsVerdict /\ Calm /\ Answering
  BY DEF IInv, SettledInv, Document
<1>3. op.status \notin Settled
  BY <1>1 DEF Protecting, Settled
<1>4. TypeOK'
  BY <1>1, <1>2, Types, TypesNext DEF Rows
<1>5. LeaseInv'
  BY <1>1, <1>2 DEF LeaseInv
<1>6. Document'
  BY <1>1, <1>2, <1>3 DEF Document, StepInv, MemberInv, EffectKnown, RowInv, VerdictTrue,
     SettledMeansResolved, Settled
<1>7. AnswerIsVerdict' /\ Calm' /\ Answering'
  BY <1>1, <1>2, <1>3 DEF AnswerIsVerdict, Calm, Answering
<1>8. \A r \in Recoverers : Undisturbed(r)
  BY <1>1 DEF Undisturbed
<1>9. Bystander
  BY <1>1, <1>2 DEF Bystander, TypeOK
<1> QED
  BY <1>4, <1>5, <1>6, <1>7, <1>8, <1>9, WorldKeeps DEF Assembly

LEMMA StutterKeeps ==
    ASSUME IInv, UNCHANGED vars
    PROVE  IInv'
<1>1. /\ scene' = scene /\ op' = op /\ step' = step /\ tried' = tried /\ observer' = observer
      /\ member' = member /\ workspace' = workspace /\ at' = at
      /\ late' = late /\ lease' = lease /\ row' = row
  BY DEF vars, rows, remote
<1>2. TypeOK /\ LeaseInv /\ Document /\ AnswerIsVerdict /\ Calm /\ Answering
  BY DEF IInv, SettledInv, Document
<1>3. TypeOK'
  BY <1>1, <1>2, Types, TypesNext
<1>4. LeaseInv'
  BY <1>1, <1>2 DEF LeaseInv
<1>5. Document'
  BY <1>1, <1>2, DocumentSpared DEF Spares
<1>6. AnswerIsVerdict' /\ Calm' /\ Answering'
  BY <1>1, <1>2 DEF AnswerIsVerdict, Calm, Answering
<1>7. \A r \in Recoverers : Undisturbed(r)
  BY <1>1 DEF Undisturbed
<1>8. Bystander
  BY <1>1, <1>2 DEF Bystander, TypeOK
<1> QED
  BY <1>3, <1>4, <1>5, <1>6, <1>7, <1>8, WorldKeeps DEF Assembly

LEMMA InitHolds ==
    ASSUME Init
    PROVE  IInv
<1>1. /\ scene \in Scenes /\ member = [source |-> scene.member, target |-> FALSE]
      /\ workspace = scene.exists
      /\ op = [status |-> "none", target |-> "none", newer |-> FALSE]
      /\ lease = [owner |-> None, holders |-> {}, expired |-> FALSE]
      /\ step = [s \in Steps |-> "pending"]
      /\ tried = {} /\ observer = None /\ row = "source" /\ late = {}
      /\ at = [t \in Threads |-> [Blank EXCEPT !.pc = IF t = Request THEN "idle" ELSE "out"]]
  BY DEF Init
<1>2. at = [t \in Threads |-> End(IF t = Request THEN "idle" ELSE "out")]
  BY <1>1 DEF End
<1>3. "idle" \in Places /\ "out" \in Places
  BY DEF Places
<1>4. at \in [Threads -> Shape]
  BY <1>2, <1>3, EndShape
<1>5. /\ scene.remote \in BOOLEAN /\ scene.source \in BOOLEAN /\ scene.member \in BOOLEAN
      /\ scene.exists \in BOOLEAN
      /\ scene.source => scene.remote
      /\ scene.member => scene.source
  BY <1>1, ReassignAssumption
<1>6. TypeOK
  <2>1. op \in OpRow /\ lease \in LeaseRow
    BY <1>1 DEF OpRow, LeaseRow, Statuses, Ownership
  <2>2. step \in [Steps -> StepState]
    BY <1>1 DEF StepState
  <2> QED
    BY <1>1, <1>4, <1>5, <2>1, <2>2, Types DEF Rows
<1>7. ASSUME NEW t \in Threads, NEW place \in {"idle", "out"},
             place = IF t = Request THEN "idle" ELSE "out"
      PROVE  /\ at[t].pc = place /\ at[t].todo = {} /\ at[t].got = "none"
             /\ at[t].goal = "none" /\ at[t].seen.row = "source"
  BY <1>2, <1>3, <1>7, EndShape
<1>8. /\ at[Request].pc = "idle" /\ at[Request].todo = {} /\ at[Request].got = "none"
      /\ at[Request].goal = "none" /\ at[Request].seen.row = "source"
  BY <1>7, Who
<1>9. \A r \in Recoverers : at[r].pc = "out" /\ at[r].seen.row = "source"
  BY <1>7, Who
<1>10. LeaseInv
  BY <1>1, <1>8, <1>9, Who DEF LeaseInv
<1>11. \A s \in Steps : step[s] = "pending"
  BY <1>1
<1>12. "pending" \notin Open /\ Undo \cup Moves \cup Mutations \subseteq Steps
       /\ op.status = "none" /\ op.status \notin Settled
  BY <1>1 DEF Open, Undo, Moves, Mutations, Steps, Settled
<1>13. StepInv
  BY <1>11, <1>12 DEF StepInv, Undo, Moves
<1>14. MemberInv
  BY <1>1, <1>5, <1>11, <1>12 DEF MemberInv, EffectKnown
<1>15. RowInv
  BY <1>1 DEF RowInv
<1>16. SettledInv
  <2>1. \A t \in Threads : at[t].pc \notin Settled
    BY <1>7 DEF Settled
  <2> QED
    BY <1>12, <2>1 DEF SettledInv, VerdictTrue, AnswerIsVerdict, SettledMeansResolved, Calm,
       Answering, Settled
<1>17. RequestInv
  <2>1. RequestPlaced /\ Answered(Request) /\ RequestCalledFor /\ RequestForward /\ RequestBack
    BY <1>8 DEF RequestPlaced, Answered, RequestCalledFor, RequestForward, Forward,
       RequestBack, Undoing
  <2>2. RequestHolds /\ RequestOpens
    BY <1>1, <1>11, <1>12 DEF RequestHolds, RequestOpens, Moves
  <2> QED
    BY <2>1, <2>2 DEF RequestInv
<1>18. \A r \in Recoverers : RecovererInv(r)
  <2> SUFFICES ASSUME NEW r \in Recoverers
               PROVE  RecovererInv(r)
    OBVIOUS
  <2>1. at[r].pc = "out" /\ at[r].seen.row = "source"
    BY <1>9
  <2> QED
    BY <2>1 DEF RecovererInv, RecovererPlaced, Answered, LookHolds, Needed, Resolved, Alone,
       Decided, Ended, Mutating, Sighted, Settled
<1> QED
  BY <1>6, <1>10, <1>13, <1>14, <1>15, <1>16, <1>17, <1>18 DEF IInv

LEMMA NextKeeps ==
    ASSUME IInv, [Next]_vars
    PROVE  IInv'
<1>1. CASE RequestStep
  BY <1>1, RequestKeeps
<1>2. ASSUME NEW r \in Recoverers, RecovererStep(r)
      PROVE  IInv'
  BY <1>2, RecovererKeeps
<1>3. ASSUME NEW t \in Threads, ThreadStep(t) \/ Die(t)
      PROVE  IInv'
  BY <1>3, RequestKeeps, RecovererKeeps, Who
<1>4. CASE Expire
  BY <1>4, ExpireKeeps
<1>5. CASE Reclassify
  BY <1>5, ReclassifyKeeps
<1>6. CASE UNCHANGED vars
  BY <1>6, StutterKeeps
<1> QED
  BY <1>1, <1>2, <1>3, <1>4, <1>5, <1>6 DEF Next

\* Whatever the request and the recoverers do, whenever the lease expires, whoever dies,
\* and whatever other programs do to the document row, the invariant holds: the lease
\* names the only thread in time, the document is where the steps say it may be, and
\* whoever acts on what it has seen has seen the truth.
THEOREM ReassignKept == Spec => []IInv
<1>1. IInv /\ [Next]_vars => IInv'
  BY NextKeeps
<1> QED
  BY <1>1, InitHolds, PTL DEF Spec

\* The row, the lease, the steps, the memberships and what the threads remember are of
\* their types.
THEOREM ReassignTypes == Spec => []TypeOK
BY ReassignKept, PTL DEF IInv

\* A settled operation says of the document what is so, for ever, and every thread that
\* answers with a verdict answers with that one: transition_operation, the commit of the
\* local row and the recovery's last check of what it has observed.
THEOREM VerdictsHold == Spec => []VerdictHolds
<1>1. IInv => VerdictHolds
  BY DEF IInv, SettledInv, VerdictHolds
<1> QED
  BY <1>1, ReassignKept, PTL

\* No mutation of the memberships goes unrecorded, and no operation is settled while one
\* is open: begin_step_mutation before the call, complete_step after it.
THEOREM EffectsRecorded == Spec => []EffectRecorded
<1>1. IInv => EffectRecorded
  BY DEF IInv, MemberInv, SettledInv, EffectRecorded
<1> QED
  BY <1>1, ReassignKept, PTL

\* Of all the threads whose remote budget is not spent at most one is at a mutation: the
\* lease outlives the call begun under it, and a takeover waits for it to expire.
THEOREM OneMutates == Spec => []OneMutator
<1>1. ASSUME IInv
      PROVE  OneMutator
  <2>1. TypeOK /\ LeaseInv
    BY <1>1 DEF IInv
  <2>2. SUFFICES ASSUME NEW t \in Threads \ late, NEW u \in Threads \ late,
                        at[t].pc = "call", at[u].pc = "call"
                 PROVE  t = u
    BY DEF OneMutator, At
  <2>3. CASE t \in Recoverers
    BY <2>1, <2>2, <2>3, InTime
  <2>4. CASE u \in Recoverers
    BY <2>1, <2>2, <2>4, InTime
  <2> QED
    BY <2>3, <2>4, Who
<1> QED
  BY <1>1, ReassignKept, PTL
===============================================================================
