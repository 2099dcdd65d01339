------------------------ MODULE AnalysisResourcesProofs ------------------------
(***************************************************************************)
(* What holds of the resource records for every number of executions,      *)
(* deferrals and failing writes: the sweep leaves a worker's record alone, *)
(* and records and remote side implement ResourceDisposal.  The invariant  *)
(* says, place by place, what a worker knows of its record and of the      *)
(* remote side, and what a copy the sweep has kept still says when it is   *)
(* acted on.                                                               *)
(***************************************************************************)
EXTENDS AnalysisResources, TLAPS

\* the sweep has decided what it will do with a record
Acting == {"append", "quarantine", "unknown", "clean", "defer"}

\* the worker opens its session, is in the middle of its work, gives it up, closes, or has
\* asked for the close
Before  == {"idle", "register", "recall", "open"}
Opening == {"opened", "executed", "isolate"}
Working == {"upload", "execute", "recalled", "interact", "latest", "knowledge", "stored"}
Failing == {"fail recall", "fail audit", "audit pending", "conclude"}
Closing == {"prepare", "mark", "close"}
After   == {"closed", "append", "appended", "close failed", "leave", "done"}

\* the places at which a worker holds its record
Holding == Places \ {"idle", "register", "conclude", "leave", "done"}

GoneAt(s, d) == s = "closed" /\ d # "temporary"
Gone(e)      == GoneAt(session[e], document[e])

\* a close with what this worker knows may not take a document from the knowledge base
MayClose(r, d) == \/ r.retain /\ d = "permanent"
                  \/ ~r.retain /\ d \in {"none", "temporary"}

\* whose record it is: a worker's while it works, the sweep's once it has left
Owned(e) ==
    /\ e \in active => at[e].pc \notin {"idle", "done"}
    /\ e \in active /\ at[e].pc # "register" => row[e] = mine[e]
    /\ e \notin active => at[e].pc \in {"idle", "conclude", "leave", "done"} /\ ~at[e].opened
    /\ at[e].pc \in {"idle", "register"} => row[e].state = "none"
    /\ row[e].state # "none" /\ e \notin active => at[e].pc = "done"
    /\ sweep[e].stage # "none" => row[e].state # "none"
    /\ sweep[e].stage = "read" => sweep[e].copy.state # "none"
    /\ sweep[e].stage \in Acting => at[e].pc = "done" /\ sweep[e].copy.state \in Unsettled

\* what the remote side is when a worker is at r
RemoteAt(r, s, d) ==
    /\ r.pc \in Before => s = "none" /\ ~r.opened
    /\ r.pc \in Before \cup {"opened", "upload", "execute", "isolate"} => d = "none"
    /\ r.pc \in Before \cup Working \cup {"finish"} => ~r.preserve /\ ~r.failed
    /\ r.pc \in {"opened", "executed"} => r.failed \/ ~r.preserve
    /\ r.pc \in Before \cup Opening \cup Working => ~r.retain
    /\ r.pc = "isolate" => ~r.opened
    /\ r.pc = "opened" => r.failed \/ r.opened
    /\ r.pc \in Working \cup Closing \cup {"executed", "finish"} => r.opened
    /\ r.opened /\ r.pc \notin After => s = "open"
    /\ s = "closed" => r.pc \in After
    /\ r.pc = "executed" => IF r.failed THEN d \in {"none", "temporary"} ELSE d = "temporary"
    /\ r.pc \in {"recalled", "interact", "latest", "knowledge"} => d = "temporary"
    /\ r.pc = "stored" /\ r.reply = "committed" => d = "permanent"
    /\ r.pc = "stored" /\ r.reply = "not_applied" => d = "temporary"
    /\ r.pc = "finish" => r.retain /\ d = "permanent"
    /\ r.pc \in Failing => r.preserve \/ MayClose(r, d)
    /\ r.pc \in Closing => MayClose(r, d)
    /\ r.reply = "confirmed" => GoneAt(s, d)

\* how far its record is when a worker is at r
RecordAt(r, state) ==
    /\ r.pc \in Holding => state # "none"
    /\ r.pc \in {"recall", "open", "finish"} \cup Opening \cup Working => state = "tracking"
    /\ r.pc \in Failing \cup {"prepare"} => state # "cleaned"
    /\ r.pc \in {"mark", "close", "closed"} => state = "cleanup_pending"
    /\ r.pc \in {"append", "appended"} =>
         state = "quarantined" \/ (state = "cleanup_pending" /\ r.reply = "confirmed")
    /\ r.pc = "close failed" => state \in {"cleanup_pending", "quarantined"}
    /\ r.pc = "conclude" /\ r.opened => state # "none"

\* a record or a copy that says the close is confirmed is right
Truthful(e) ==
    /\ row[e].close = "confirmed" => Gone(e)
    /\ sweep[e].copy.close = "confirmed" => Gone(e)
    /\ sweep[e].stage \in {"append", "clean"} => sweep[e].copy.close = "confirmed"

Inv(e) == /\ Owned(e) /\ Truthful(e)
          /\ RemoteAt(at[e], session[e], document[e]) /\ RecordAt(at[e], row[e].state)

IInv == TypeOK /\ \A e \in Executions : Inv(e)

Refines == [Disposal!Next]_(Disposal!vars)

\* a record may become cleaned or quarantined once, and cleaned when nothing is left
Legal(e, from, to) == from = to \/ (from \notin Settled /\ (to = "cleaned" => Gone(e)))

\* r is where a worker may be next, with the remote side and its record as they are then
Fits(r, s, d, state) ==
    /\ r \in Spots /\ r.pc \in Holding \cup {"conclude", "leave"}
    /\ RemoteAt(r, s, d) /\ RecordAt(r, state)

\* what there is to know of a worker that holds its record at p
Knows(e, p) ==
    /\ TypeOK /\ p \in Holding /\ at[e].pc = p /\ at[e] \in Spots
    /\ mine[e] \in Rows /\ mine[e].state # "none" /\ row[e] = mine[e]
    /\ RemoteAt(at[e], session[e], document[e]) /\ RecordAt(at[e], mine[e].state)
    /\ mine[e].close = "confirmed" => Gone(e)

\* r is at p and otherwise like q; or it is so and the scene is kept
Like(r, q, p) ==
    /\ r \in Spots /\ r.pc = p /\ r.failed = q.failed /\ r.opened = q.opened
    /\ r.preserve = q.preserve /\ r.retain = q.retain /\ r.reply = q.reply

LikeKept(r, q, p) ==
    /\ r \in Spots /\ r.pc = p /\ r.failed = q.failed /\ r.opened = q.opened
    /\ r.preserve /\ r.retain = q.retain /\ r.reply = q.reply

\* a step that does not concern an execution
Same(d) ==
    /\ row'[d] = row[d] /\ mine'[d] = mine[d] /\ at'[d] = at[d] /\ sweep'[d] = sweep[d]
    /\ session'[d] = session[d] /\ document'[d] = document[d]
    /\ (d \in active)' = (d \in active)

-----------------------------------------------------------------------------
(* The shapes of a step.                                                   *)

LEMMA Frame == ASSUME NEW d \in Executions, Inv(d), Same(d) PROVE Inv(d)'
<1> USE DEF Same
<1>1. Owned(d)'
  BY DEF Inv, Owned
<1>2. Truthful(d)'
  BY DEF Inv, Truthful, Gone
<1> QED
  BY <1>1, <1>2 DEF Inv

\* One execution changes, and its invariant still holds.
LEMMA OneStep ==
    ASSUME IInv, TypeOK', NEW e \in Executions, Inv(e)', \A d \in Executions \ {e} : Same(d)
    PROVE  IInv'
BY Frame DEF IInv

\* A record that changes legally passes a verdict, or none.
LEMMA VerdictStep ==
    ASSUME TypeOK, TypeOK', NEW e \in Executions, \A d \in Executions \ {e} : Same(d),
           UNCHANGED <<session, document>>, Legal(e, row[e].state, row'[e].state)
    PROVE  Refines
<1> DEFINE V == [d \in Executions |-> IF row[d].state \in Settled THEN row[d].state ELSE "open"]
<1>1. /\ row[e].state \in {"none"} \cup Unsettled \cup Settled
      /\ row'[e].state \in {"none"} \cup Unsettled \cup Settled
  BY DEF TypeOK, Rows
<1>2. \A d \in Executions \ {e} : V'[d] = V[d]
  BY DEF Same
<1>3. CASE V'[e] = V[e]
  <2>1. V' = V
    BY <1>2, <1>3
  <2> QED
    BY <2>1 DEF Refines, Disposal!vars
<1>4. CASE V'[e] # V[e]
  <2>1. V[e] = "open" /\ V'[e] = row'[e].state /\ row'[e].state \in Settled
        /\ (row'[e].state = "cleaned" => Gone(e))
    BY <1>1, <1>4 DEF Legal, Settled, Unsettled
  <2>2. V' = [V EXCEPT ![e] = row'[e].state]
    BY <1>2, <2>1
  <2>3. Disposal!Clean(e) \/ Disposal!Quarantine(e)
    BY <2>1, <2>2 DEF Disposal!Clean, Disposal!Quarantine, Settled, Gone, GoneAt
  <2> QED
    BY <2>3 DEF Refines, Disposal!Next
<1> QED
  BY <1>3, <1>4

\* what Go and Kept leave alone
LEMMA GoShape ==
    ASSUME TypeOK, NEW e \in Executions, NEW p \in Places
    PROVE  Like(Go(e, p), at[e], p)
<1>1. at[e] \in Spots
  BY DEF TypeOK
<1> QED
  BY <1>1 DEF Go, Like, Spots

LEMMA KeptShape ==
    ASSUME TypeOK, NEW e \in Executions, NEW p \in Places
    PROVE  LikeKept(Kept(Go(e, p)), at[e], p)
<1> DEFINE r == Go(e, p)
<1>1. Like(r, at[e], p)
  BY GoShape
<1> HIDE DEF r
<1>2. LikeKept(Kept(r), at[e], p)
  BY <1>1 DEF Like, LikeKept, Kept, Spots
<1> QED
  BY <1>2 DEF r

LEMMA WrittenShape ==
    ASSUME NEW rec \in Rows
    PROVE  /\ Quarantined(rec) \in Rows /\ Quarantined(rec).state = "quarantined"
           /\ Quarantined(rec).close = rec.close
           /\ Unknown(rec) \in Rows /\ Unknown(rec).state = "quarantined"
           /\ Unknown(rec).close = "outcome_unknown"
<1>1. /\ Quarantined(rec) \in Rows /\ Quarantined(rec).state = "quarantined"
      /\ Quarantined(rec).close = rec.close
  BY DEF Quarantined, Rows, Settled
<1> DEFINE lost == [Quarantined(rec) EXCEPT !.own = "unknown"]
<1>2. lost \in Rows /\ lost.state = "quarantined"
  BY <1>1 DEF Rows
<1>3. Unknown(rec) = [lost EXCEPT !.close = "outcome_unknown"]
  BY DEF Unknown
<1> HIDE DEF lost
<1>4. /\ Unknown(rec) \in Rows /\ Unknown(rec).state = "quarantined"
      /\ Unknown(rec).close = "outcome_unknown"
  BY <1>2, <1>3 DEF Rows
<1> QED
  BY <1>1, <1>4

\* what a worker knows while it holds its record
LEMMA Held ==
    ASSUME IInv, NEW e \in Executions, at[e].pc \in Holding
    PROVE  /\ e \in active /\ row[e] = mine[e] /\ mine[e] \in Rows /\ at[e] \in Spots
           /\ mine[e].state # "none" /\ sweep[e].stage \notin Acting
           /\ RemoteAt(at[e], session[e], document[e]) /\ RecordAt(at[e], mine[e].state)
           /\ (mine[e].close = "confirmed" => Gone(e))
           /\ (sweep[e].copy.close = "confirmed" => Gone(e))
<1>1. Inv(e) /\ TypeOK
  BY DEF IInv
<1>2. Owned(e) /\ Truthful(e)
      /\ RemoteAt(at[e], session[e], document[e]) /\ RecordAt(at[e], row[e].state)
  BY <1>1 DEF Inv
<1>3. e \in active /\ row[e] = mine[e] /\ sweep[e].stage \notin Acting
  BY <1>2 DEF Owned, Holding
<1>4. mine[e].state # "none"
  BY <1>2, <1>3 DEF RecordAt
<1> QED
  BY <1>1, <1>2, <1>3, <1>4 DEF TypeOK, Truthful

\* a worker that holds its record goes on, and writes nothing or what it holds
LEMMA OwnedStep ==
    ASSUME IInv, NEW e \in Executions, at[e].pc \in Holding,
           at'[e].pc \in Holding \cup {"conclude", "leave"}, UNCHANGED <<active, sweep>>,
           \/ row'[e] = row[e] /\ mine'[e] = mine[e]
           \/ row'[e] = mine'[e] /\ row'[e].state # "none"
    PROVE  Owned(e)'
<1>1. Owned(e) /\ e \in active /\ row[e] = mine[e] /\ sweep[e].stage \notin Acting
  BY Held DEF IInv, Inv
<1>2. e \in active' /\ sweep'[e] = sweep[e]
  BY <1>1
<1>3. row'[e] = mine'[e] /\ (sweep[e].stage # "none" => row'[e].state # "none")
  BY <1>1 DEF Owned
<1> QED
  BY <1>1, <1>2, <1>3 DEF Owned, Holding

\* Save, read off: the record and its copy are the new one, or nothing is written.
LEMMA SaveShape ==
    ASSUME TypeOK, NEW e \in Executions, NEW new \in Rows, NEW ok \in Spots, NEW ko \in Spots,
           Save(e, new, ok, ko)
    PROVE  /\ TypeOK'
           /\ \A d \in Executions \ {e} : Same(d)
           /\ UNCHANGED <<session, document, active, sweep>>
           /\ \/ /\ at'[e] = ok /\ mine'[e] = row'[e]
                 /\ row'[e].state = new.state /\ row'[e].close = new.close
                 /\ row[e].state = mine[e].state
              \/ row' = row /\ mine' = mine /\ at'[e] = ko
<1> DEFINE rec == [[new EXCEPT !.version = mine[e].version + 1] EXCEPT !.tries = 0]
<1>1. /\ rec \in Rows /\ rec.state = new.state /\ rec.close = new.close
  <2>1. mine[e].version + 1 \in Nat
    BY DEF TypeOK, Rows
  <2>2. [new EXCEPT !.version = mine[e].version + 1] \in Rows
    BY <2>1 DEF Rows
  <2> QED
    BY <2>1, <2>2 DEF Rows
<1> HIDE DEF rec
<1>2. CASE /\ row[e].state = mine[e].state /\ row' = [row EXCEPT ![e] = rec]
           /\ waiting' = waiting \ {e}
           /\ mine' = [mine EXCEPT ![e] = row'[e]] /\ at' = [at EXCEPT ![e] = ok]
           /\ UNCHANGED faults /\ UNCHANGED <<task, expired, remote, active, sweep, crashed>>
  BY <1>1, <1>2 DEF TypeOK, Same, remote
<1>3. CASE /\ faults' \in Nat /\ at' = [at EXCEPT ![e] = ko] /\ UNCHANGED <<record, mine>>
           /\ UNCHANGED <<task, expired, remote, active, sweep, crashed>>
  BY <1>3 DEF TypeOK, Same, remote, record
<1> QED
  BY <1>2, <1>3 DEF Save, Advance, Store, Put, rec, TypeOK

\* A worker that holds its record saves it: what must be true of the two places it can be
\* at next, and of what it writes.
LEMMA SaveStep ==
    ASSUME IInv, NEW e \in Executions, at[e].pc \in Holding,
           NEW new \in Rows, NEW ok, NEW ko, Save(e, new, ok, ko),
           new.state # "none", new.close = "confirmed" => Gone(e),
           Legal(e, mine[e].state, new.state),
           Fits(ok, session[e], document[e], new.state),
           Fits(ko, session[e], document[e], mine[e].state)
    PROVE  IInv' /\ Refines
<1>1. TypeOK /\ Inv(e) /\ row[e] = mine[e] /\ ok \in Spots /\ ko \in Spots
  BY Held DEF IInv, Fits
<1>2. /\ TypeOK' /\ \A d \in Executions \ {e} : Same(d)
      /\ UNCHANGED <<session, document, active, sweep>>
      /\ \/ /\ at'[e] = ok /\ mine'[e] = row'[e]
            /\ row'[e].state = new.state /\ row'[e].close = new.close
            /\ row[e].state = mine[e].state
         \/ row' = row /\ mine' = mine /\ at'[e] = ko
  BY <1>1, SaveShape
<1>3. Owned(e)'
  BY <1>2, OwnedStep DEF Fits
<1>4. Truthful(e)'
  BY <1>1, <1>2 DEF Inv, Truthful, Gone
<1>5. RemoteAt(at[e], session[e], document[e])' /\ RecordAt(at[e], row[e].state)'
  BY <1>1, <1>2 DEF Fits
<1>6. IInv'
  BY <1>2, <1>3, <1>4, <1>5, OneStep DEF Inv
<1>7. Legal(e, row[e].state, row'[e].state)
  <2>1. CASE row' = row
    BY <2>1 DEF Legal
  <2>2. CASE row[e].state = mine[e].state /\ row'[e].state = new.state
    BY <2>2
  <2> QED
    BY <1>2, <2>1, <2>2
<1> QED
  BY <1>1, <1>2, <1>6, <1>7, VerdictStep

\* A worker that holds its record goes on by itself.
LEMMA LocalStep ==
    ASSUME IInv, NEW e \in Executions, at[e].pc \in Holding, NEW to, Put(e, to),
           task' \in [Executions -> {"running", "superseded", "over"}], faults' \in Nat,
           UNCHANGED <<record, expired, remote, mine, active, sweep, crashed>>,
           Fits(to, session[e], document[e], mine[e].state)
    PROVE  IInv' /\ Refines
<1>1. TypeOK /\ Inv(e) /\ row[e] = mine[e] /\ to \in Spots
  BY Held DEF IInv, Fits
<1>2. /\ TypeOK' /\ at'[e] = to /\ \A d \in Executions \ {e} : Same(d)
      /\ UNCHANGED <<session, document, active, sweep, row, mine>>
  BY <1>1 DEF Put, TypeOK, Same, remote, record
<1>3. Owned(e)'
  BY <1>2, OwnedStep DEF Fits
<1>4. Truthful(e)'
  BY <1>1, <1>2 DEF Inv, Truthful, Gone
<1>5. IInv'
  BY <1>1, <1>2, <1>3, <1>4, OneStep DEF Inv, Fits
<1>6. Legal(e, row[e].state, row'[e].state)
  BY <1>2 DEF Legal
<1> QED
  BY <1>1, <1>2, <1>5, <1>6, VerdictStep

\* A worker that holds its record changes the remote side.
LEMMA CallStep ==
    ASSUME IInv, NEW e \in Executions, at[e].pc \in Holding \ After, NEW to, Call(e, to),
           NEW s \in {"none", "open", "closed"},
           NEW d \in {"none", "temporary", "permanent", "deleted"},
           session' = [session EXCEPT ![e] = s], document' = [document EXCEPT ![e] = d],
           Fits(to, s, d, mine[e].state)
    PROVE  IInv'
<1>1. TypeOK /\ Inv(e) /\ row[e] = mine[e] /\ to \in Spots
  BY Held DEF IInv, Fits
<1>2. /\ TypeOK' /\ at'[e] = to /\ \A f \in Executions \ {e} : Same(f)
      /\ session'[e] = s /\ document'[e] = d /\ UNCHANGED <<active, sweep, row, mine>>
  BY <1>1 DEF Call, Put, TypeOK, Same, remote, record
<1>3. Owned(e)'
  BY <1>2, OwnedStep DEF Fits
<1>4. session[e] # "closed"
  BY <1>1 DEF Inv, RemoteAt
<1>5. Truthful(e)'
  BY <1>1, <1>2, <1>4 DEF Inv, Truthful, Gone, GoneAt
<1> QED
  BY <1>1, <1>2, <1>3, <1>5, OneStep DEF Inv, Fits

\* A remote step before the verdict is one ResourceDisposal has.
LEMMA CallRefines ==
    ASSUME NEW e \in Executions, row[e].state \notin Settled, row' = row,
           \/ UNCHANGED <<session, document>>
           \/ /\ session[e] = "none" /\ session' = [session EXCEPT ![e] = "open"]
              /\ document' = document
           \/ /\ session[e] = "open" /\ document[e] = "none" /\ session' = session
              /\ document' = [document EXCEPT ![e] = "temporary"]
           \/ /\ session[e] = "open" /\ document[e] = "temporary" /\ session' = session
              /\ document' = [document EXCEPT ![e] = "permanent"]
           \/ /\ session[e] = "open"
              /\ session' \in {session, [session EXCEPT ![e] = "closed"]}
              /\ \/ document' = document
                 \/ /\ document[e] = "temporary"
                    /\ document' = [document EXCEPT ![e] = "deleted"]
    PROVE  Refines
BY DEF Refines, Disposal!vars, Disposal!Next, Disposal!Open, Disposal!Upload,
       Disposal!Adopt, Disposal!Close

-----------------------------------------------------------------------------
(* The worker, up to the remote session.                                   *)

LEMMA Known ==
    ASSUME IInv, NEW e \in Executions, NEW p \in Holding, At(e, p)
    PROVE  Knows(e, p)
BY Held DEF At, IInv, Knows

LEMMA AcquireStep ==
    ASSUME IInv, NEW e \in Executions, Acquire(e)
    PROVE  IInv' /\ Refines
<1>1. Inv(e) /\ TypeOK /\ at[e].pc = "idle"
  BY DEF IInv, Acquire, At
<1>2. Like(Go(e, "register"), at[e], "register")
  <2>1. "register" \in Places
    BY DEF Places
  <2> QED
    BY <1>1, <2>1, GoShape
<1>3. /\ TypeOK' /\ at'[e] = Go(e, "register") /\ \A d \in Executions \ {e} : Same(d)
      /\ active' = active \cup {e}
      /\ UNCHANGED <<session, document, sweep, row, mine>>
  BY <1>1, <1>2 DEF Acquire, Put, Like, TypeOK, Same, remote, record
<1>4. Owned(e)'
  BY <1>1, <1>2, <1>3 DEF Inv, Owned, Like, Acting
<1>5. Truthful(e)'
  BY <1>1, <1>3 DEF Inv, Truthful, Gone
<1>6. RemoteAt(at[e], session[e], document[e])' /\ RecordAt(at[e], row[e].state)'
  BY <1>1, <1>2, <1>3 DEF Inv, Like, RemoteAt, RecordAt, MayClose,
       Before, Opening, Working, Failing, Closing, After, Holding, Places
<1>7. Legal(e, row[e].state, row'[e].state)
  BY <1>3 DEF Legal
<1> QED
  BY <1>1, <1>3, <1>4, <1>5, <1>6, <1>7, OneStep, VerdictStep DEF Inv

LEMMA RegisterStep ==
    ASSUME IInv, NEW e \in Executions, Register(e)
    PROVE  IInv' /\ Refines
<1>1. Inv(e) /\ TypeOK /\ at[e].pc = "register" /\ row[e].state = "none"
  BY DEF IInv, Register, At, Inv, Owned
<1>2. Like(Go(e, "recall"), at[e], "recall") /\ Like(Go(e, "conclude"), at[e], "conclude")
  <2>1. "recall" \in Places /\ "conclude" \in Places
    BY DEF Places
  <2> QED
    BY <1>1, <2>1, GoShape
<1> DEFINE rec == [NoRow EXCEPT !.state = "tracking"]
<1>3. rec \in Rows /\ rec.state = "tracking" /\ rec.close = "not_planned"
  BY DEF NoRow, Rows, Unsettled
<1> HIDE DEF rec
<1>4. CASE /\ Store(e, rec) /\ mine' = [mine EXCEPT ![e] = row'[e]]
           /\ Put(e, Go(e, "recall")) /\ UNCHANGED <<waiting, active, faults>>
           /\ UNCHANGED <<task, expired, remote, sweep, crashed>>
  <2>1. /\ TypeOK' /\ at'[e] = Go(e, "recall") /\ \A d \in Executions \ {e} : Same(d)
        /\ row'[e] = rec /\ mine'[e] = rec
        /\ UNCHANGED <<session, document, sweep, active>>
    BY <1>1, <1>2, <1>3, <1>4 DEF Store, Put, Like, TypeOK, Same, remote
  <2>2. Owned(e)'
    BY <1>1, <1>2, <1>3, <2>1 DEF Inv, Owned, Like, Acting
  <2>3. Truthful(e)'
    BY <1>1, <1>3, <2>1 DEF Inv, Truthful, Gone
  <2>4. RemoteAt(at[e], session[e], document[e])' /\ RecordAt(at[e], row[e].state)'
    BY <1>1, <1>2, <1>3, <2>1 DEF Inv, Like, RemoteAt, RecordAt, MayClose,
         Before, Opening, Working, Failing, Closing, After, Holding, Places
  <2>5. Legal(e, row[e].state, row'[e].state)
    BY <1>1, <1>3, <2>1 DEF Legal, Settled
  <2> QED
    BY <1>1, <2>1, <2>2, <2>3, <2>4, <2>5, OneStep, VerdictStep DEF Inv
<1>5. CASE /\ Fails /\ active' = active \ {e} /\ Put(e, Go(e, "conclude"))
           /\ UNCHANGED <<record, mine>> /\ UNCHANGED <<task, expired, remote, sweep, crashed>>
  <2>1. /\ TypeOK' /\ at'[e] = Go(e, "conclude") /\ \A d \in Executions \ {e} : Same(d)
        /\ active' = active \ {e}
        /\ UNCHANGED <<session, document, sweep, row, mine>>
    BY <1>1, <1>2, <1>5 DEF Fails, Put, Like, TypeOK, Same, remote, record
  <2>2. Owned(e)'
    BY <1>1, <1>2, <2>1 DEF Inv, Owned, Like, RemoteAt, Before, Acting
  <2>3. Truthful(e)'
    BY <1>1, <2>1 DEF Inv, Truthful, Gone
  <2>4. RemoteAt(at[e], session[e], document[e])' /\ RecordAt(at[e], row[e].state)'
    BY <1>1, <1>2, <2>1 DEF Inv, Like, RemoteAt, RecordAt, MayClose,
         Before, Opening, Working, Failing, Closing, After, Holding, Places
  <2>5. Legal(e, row[e].state, row'[e].state)
    BY <2>1 DEF Legal
  <2> QED
    BY <1>1, <2>1, <2>2, <2>3, <2>4, <2>5, OneStep, VerdictStep DEF Inv
<1> QED
  BY <1>4, <1>5 DEF Register, rec

LEMMA RecordRecallStep ==
    ASSUME IInv, NEW e \in Executions, RecordRecall(e)
    PROVE  IInv' /\ Refines
<1> DEFINE ok == Go(e, "open")
           ko == Go(e, "isolate")
<1> HIDE DEF ok, ko
<1>1. Knows(e, "recall")
  BY Known DEF RecordRecall, Holding, Places
<1>2. Like(ok, at[e], "open") /\ Like(ko, at[e], "isolate")
  <2>1. "open" \in Places /\ "isolate" \in Places
    BY DEF Places
  <2> QED
    BY <1>1, <2>1, GoShape, KeptShape DEF Knows, ok, ko
<1>3. /\ Fits(ok, session[e], document[e], mine[e].state)
      /\ Fits(ko, session[e], document[e], mine[e].state)
  BY <1>1, <1>2
       DEF Knows, Like, LikeKept, Fits, RemoteAt, RecordAt, MayClose,
       Before, Opening, Working, Failing, Closing, After, Holding, Places
<1> QED
  BY <1>1, <1>3, SaveStep DEF RecordRecall, Knows, Legal, ok, ko

LEMMA IsolateStep ==
    ASSUME IInv, NEW e \in Executions, Isolate(e)
    PROVE  IInv' /\ Refines
<1> DEFINE to  == Go(e, "conclude")
           new == Quarantined(mine[e])
<1> HIDE DEF to, new
<1>1. Knows(e, "isolate")
  BY Known DEF Isolate, Holding, Places
<1>2. Like(to, at[e], "conclude")
  <2>1. "conclude" \in Places
    BY DEF Places
  <2> QED
    BY <1>1, <2>1, GoShape DEF Knows, to
<1>3. new \in Rows /\ new.state = "quarantined" /\ new.close = mine[e].close
  BY <1>1, WrittenShape DEF Knows, new
<1>4. Legal(e, mine[e].state, new.state)
  BY <1>1, <1>3 DEF Legal, Knows, RecordAt, Opening, Settled
<1>5. /\ Fits(to, session[e], document[e], new.state)
      /\ Fits(to, session[e], document[e], mine[e].state)
  BY <1>1, <1>2, <1>3
       DEF Knows, Like, LikeKept, Fits, RemoteAt, RecordAt, MayClose,
       Before, Opening, Working, Failing, Closing, After, Holding, Places
<1> QED
  BY <1>1, <1>3, <1>4, <1>5, SaveStep DEF Isolate, Knows, to, new

LEMMA PrepareUploadStep ==
    ASSUME IInv, NEW e \in Executions, PrepareUpload(e)
    PROVE  IInv' /\ Refines
<1> DEFINE ok == Go(e, "execute")
           ko == Kept(Go(e, "fail recall"))
<1> HIDE DEF ok, ko
<1>1. Knows(e, "upload")
  BY Known DEF PrepareUpload, Holding, Places
<1>2. Like(ok, at[e], "execute") /\ LikeKept(ko, at[e], "fail recall")
  <2>1. "execute" \in Places /\ "fail recall" \in Places
    BY DEF Places
  <2> QED
    BY <1>1, <2>1, GoShape, KeptShape DEF Knows, ok, ko
<1>3. /\ Fits(ok, session[e], document[e], mine[e].state)
      /\ Fits(ko, session[e], document[e], mine[e].state)
  BY <1>1, <1>2
       DEF Knows, Like, LikeKept, Fits, RemoteAt, RecordAt, MayClose,
       Before, Opening, Working, Failing, Closing, After, Holding, Places
<1> QED
  BY <1>1, <1>3, SaveStep DEF PrepareUpload, Knows, Legal, ok, ko

LEMMA FinalizeRecallStep ==
    ASSUME IInv, NEW e \in Executions, FinalizeRecall(e)
    PROVE  IInv' /\ Refines
<1> DEFINE ok == Go(e, "interact")
           ko == Kept(Go(e, "fail recall"))
<1> HIDE DEF ok, ko
<1>1. Knows(e, "recalled")
  BY Known DEF FinalizeRecall, Holding, Places
<1>2. Like(ok, at[e], "interact") /\ LikeKept(ko, at[e], "fail recall")
  <2>1. "interact" \in Places /\ "fail recall" \in Places
    BY DEF Places
  <2> QED
    BY <1>1, <2>1, GoShape, KeptShape DEF Knows, ok, ko
<1>3. /\ Fits(ok, session[e], document[e], mine[e].state)
      /\ Fits(ko, session[e], document[e], mine[e].state)
  BY <1>1, <1>2
       DEF Knows, Like, LikeKept, Fits, RemoteAt, RecordAt, MayClose,
       Before, Opening, Working, Failing, Closing, After, Holding, Places
<1> QED
  BY <1>1, <1>3, SaveStep DEF FinalizeRecall, Knows, Legal, ok, ko

-----------------------------------------------------------------------------
(* The worker: calls to the remote side, and the knowledge base.           *)

\* a call that fails, and perhaps nobody knows what it has done
Failed(r, unknown) == [r EXCEPT !.failed = TRUE, !.preserve = unknown]

LEMMA FailedShape ==
    ASSUME NEW r \in Spots, NEW unknown \in BOOLEAN
    PROVE  /\ Failed(r, unknown) \in Spots /\ Failed(r, unknown).pc = r.pc
           /\ Failed(r, unknown).failed /\ Failed(r, unknown).opened = r.opened
           /\ Failed(r, unknown).preserve = unknown
           /\ Failed(r, unknown).retain = r.retain /\ Failed(r, unknown).reply = r.reply
<1> DEFINE f == [r EXCEPT !.failed = TRUE]
           q == [f EXCEPT !.preserve = unknown]
<1>1. /\ f \in Spots /\ f.pc = r.pc /\ f.failed /\ f.opened = r.opened
      /\ f.retain = r.retain /\ f.reply = r.reply
  BY DEF Spots
<1> HIDE DEF f
<1>2. /\ q \in Spots /\ q.pc = r.pc /\ q.failed /\ q.opened = r.opened
      /\ q.preserve = unknown /\ q.retain = r.retain /\ q.reply = r.reply
  BY <1>1 DEF Spots
<1> QED
  BY <1>2 DEF Failed, f

LEMMA Asis ==
    ASSUME TypeOK, NEW e \in Executions
    PROVE  /\ session = [session EXCEPT ![e] = session[e]]
           /\ document = [document EXCEPT ![e] = document[e]]
           /\ session[e] \in {"none", "open", "closed"}
           /\ document[e] \in {"none", "temporary", "permanent", "deleted"}
BY DEF TypeOK

LEMMA OpenSessionStep ==
    ASSUME IInv, NEW e \in Executions, OpenSession(e)
    PROVE  IInv' /\ Refines
<1> DEFINE here == Go(e, "opened")
           none == Go(e, "isolate")
           ok   == [here EXCEPT !.opened = TRUE]
<1> HIDE DEF here, none, ok
<1>1. Knows(e, "open")
  BY Known DEF OpenSession, Holding, Places
<1>2. Like(here, at[e], "opened") /\ Like(none, at[e], "isolate")
  <2>1. "opened" \in Places /\ "isolate" \in Places
    BY DEF Places
  <2> QED
    BY <1>1, <2>1, GoShape DEF Knows, here, none
<1>3. /\ session[e] = "none" /\ document[e] = "none" /\ mine[e].state = "tracking"
      /\ row[e].state \notin Settled /\ at[e].pc \in Holding \ After
      /\ TypeOK /\ ~at[e].opened /\ ~at[e].retain /\ at[e].reply # "confirmed"
  BY <1>1 DEF Knows, RemoteAt, RecordAt, Before, Opening, Working, After, Settled, GoneAt
<1>4. document' = [document EXCEPT ![e] = "none"] /\ document' = document
  BY <1>3, Asis DEF OpenSession
<1>5. session = [session EXCEPT ![e] = "none"]
  BY <1>3, Asis
<1>6. CASE session' = [session EXCEPT ![e] = "open"] /\ Call(e, ok)
  <2>1. /\ ok \in Spots /\ ok.pc = "opened" /\ ok.opened /\ ok.failed = at[e].failed
        /\ ok.preserve = at[e].preserve /\ ok.retain = at[e].retain /\ ok.reply = at[e].reply
    BY <1>2 DEF Like, Spots, ok
  <2>2. Fits(ok, "open", "none", mine[e].state)
    BY <1>1, <1>3, <2>1
       DEF Knows, Like, LikeKept, Fits, RemoteAt, RecordAt, MayClose,
       Before, Opening, Working, Failing, Closing, After, Holding, Places
  <2>3. IInv'
    BY <1>3, <1>4, <1>6, <2>2, CallStep
  <2> QED
    BY <1>3, <1>4, <1>6, <2>3, CallRefines DEF Call, record
<1>7. ASSUME NEW s \in {"none", "open"}, session' = [session EXCEPT ![e] = s],
             NEW unknown \in BOOLEAN,
             Call(e, Failed(here, unknown))
      PROVE  IInv' /\ Refines
  <2> DEFINE to == Failed(here, unknown)
  <2>1. /\ to \in Spots /\ to.pc = "opened" /\ to.failed /\ ~to.opened
        /\ to.preserve = unknown /\ ~to.retain /\ to.reply # "confirmed"
    BY <1>2, <1>3, FailedShape DEF Like
  <2> HIDE DEF to
  <2>2. Fits(to, s, "none", mine[e].state)
    BY <1>3, <2>1
       DEF Knows, Like, LikeKept, Fits, RemoteAt, RecordAt, MayClose,
       Before, Opening, Working, Failing, Closing, After, Holding, Places
  <2>3. IInv'
    BY <1>3, <1>4, <1>7, <2>2, CallStep DEF to
  <2> QED
    BY <1>3, <1>4, <1>5, <1>7, <2>3, CallRefines DEF Call, record
<1>8. CASE session' = session /\ Call(e, none)
  <2>1. Fits(none, "none", "none", mine[e].state)
    BY <1>1, <1>2, <1>3
       DEF Knows, Like, LikeKept, Fits, RemoteAt, RecordAt, MayClose,
       Before, Opening, Working, Failing, Closing, After, Holding, Places
  <2>2. IInv'
    BY <1>3, <1>4, <1>5, <1>8, <2>1, CallStep
  <2> QED
    BY <1>3, <1>4, <1>8, <2>2, CallRefines DEF Call, record
<1> QED
  BY <1>5, <1>6, <1>7, <1>8 DEF OpenSession, Failed, here, none, ok

LEMMA ExecuteStep ==
    ASSUME IInv, NEW e \in Executions, Execute(e)
    PROVE  IInv' /\ Refines
<1> DEFINE ok == Go(e, "executed")
<1> HIDE DEF ok
<1>1. Knows(e, "execute")
  BY Known DEF Execute, Holding, Places
<1>2. Like(ok, at[e], "executed")
  <2>1. "executed" \in Places
    BY DEF Places
  <2> QED
    BY <1>1, <2>1, GoShape DEF Knows, ok
<1>3. /\ session[e] = "open" /\ document[e] = "none" /\ mine[e].state = "tracking"
      /\ row[e].state \notin Settled /\ at[e].pc \in Holding \ After
      /\ TypeOK /\ at[e].opened /\ ~at[e].retain /\ ~at[e].preserve /\ ~at[e].failed
      /\ at[e].reply # "confirmed"
  BY <1>1 DEF Knows, RemoteAt, RecordAt, Before, Opening, Working, After, Settled, GoneAt
<1>4. session' = [session EXCEPT ![e] = "open"] /\ session' = session
  BY <1>3, Asis DEF Execute
<1>5. document = [document EXCEPT ![e] = "none"]
  BY <1>3, Asis
<1>6. CASE document' = [document EXCEPT ![e] = "temporary"] /\ Call(e, ok)
  <2>1. Fits(ok, "open", "temporary", mine[e].state)
    BY <1>2, <1>3
       DEF Knows, Like, LikeKept, Fits, RemoteAt, RecordAt, MayClose,
       Before, Opening, Working, Failing, Closing, After, Holding, Places
  <2>2. IInv'
    BY <1>3, <1>4, <1>6, <2>1, CallStep
  <2> QED
    BY <1>3, <1>4, <1>6, <2>2, CallRefines DEF Call, record
<1>7. ASSUME NEW d \in {"none", "temporary"}, document' = [document EXCEPT ![e] = d],
             NEW unknown \in BOOLEAN,
             Call(e, Failed(ok, unknown))
      PROVE  IInv' /\ Refines
  <2> DEFINE to == Failed(ok, unknown)
  <2>1. /\ to \in Spots /\ to.pc = "executed" /\ to.failed /\ to.opened
        /\ to.preserve = unknown /\ ~to.retain /\ to.reply # "confirmed"
    BY <1>2, <1>3, FailedShape DEF Like
  <2> HIDE DEF to
  <2>2. Fits(to, "open", d, mine[e].state)
    BY <1>3, <2>1
       DEF Knows, Like, LikeKept, Fits, RemoteAt, RecordAt, MayClose,
       Before, Opening, Working, Failing, Closing, After, Holding, Places
  <2>3. IInv'
    BY <1>3, <1>4, <1>7, <2>2, CallStep DEF to
  <2> QED
    BY <1>3, <1>4, <1>5, <1>7, <2>3, CallRefines DEF Call, record
<1> QED
  BY <1>5, <1>6, <1>7 DEF Execute, Failed, ok

LEMMA CheckpointStep ==
    ASSUME IInv, NEW e \in Executions, Checkpoint(e)
    PROVE  IInv' /\ Refines
<1> DEFINE next == IF at[e].failed THEN "fail recall"
                   ELSE IF At(e, "opened") THEN "upload" ELSE "recalled"
           ok   == Go(e, next)
           fail == Kept(Go(e, "fail recall"))
           new  == Quarantined(mine[e])
<1> HIDE DEF next, ok, fail, new
<1>1. /\ Knows(e, at[e].pc) /\ at[e].pc \in {"opened", "executed"} /\ mine[e].state = "tracking"
  <2>1. at[e].pc \in {"opened", "executed"} /\ at[e].pc \in Holding
    BY DEF Checkpoint, Holding, Places
  <2>2. Knows(e, at[e].pc)
    BY <2>1, Known DEF At
  <2> QED
    BY <2>1, <2>2 DEF Knows, RecordAt, Opening
<1>2. Like(ok, at[e], next) /\ LikeKept(fail, at[e], "fail recall")
  <2>1. next \in Places /\ "fail recall" \in Places
    BY DEF Places, next
  <2> QED
    BY <1>1, <2>1, GoShape, KeptShape DEF Knows, ok, fail
<1>3. new \in Rows /\ new.state = "quarantined" /\ new.close = mine[e].close
  BY <1>1, WrittenShape DEF Knows, new
<1>4. /\ Fits(fail, session[e], document[e], new.state)
      /\ Fits(fail, session[e], document[e], mine[e].state)
  BY <1>1, <1>2, <1>3
       DEF Knows, Like, LikeKept, Fits, RemoteAt, RecordAt, MayClose,
       Before, Opening, Working, Failing, Closing, After, Holding, Places
<1>5. CASE at[e].preserve
  <2>1. Save(e, new, fail, fail)
    BY <1>5 DEF Checkpoint, fail, new
  <2>2. Legal(e, mine[e].state, new.state)
    BY <1>1, <1>3 DEF Legal, Settled
  <2> QED
    BY <1>1, <1>3, <1>4, <2>1, <2>2, SaveStep DEF Knows
<1>6. CASE ~at[e].preserve
  <2>1. Save(e, mine[e], ok, fail)
    BY <1>6 DEF Checkpoint, ok, fail, next
  <2>2. Fits(ok, session[e], document[e], mine[e].state)
    <3>1. CASE at[e].failed
      <4>1. next = "fail recall"
        BY <3>1 DEF next
      <4> QED
        BY <1>1, <1>2, <1>6, <3>1, <4>1
       DEF Knows, Like, LikeKept, Fits, RemoteAt, RecordAt, MayClose,
       Before, Opening, Working, Failing, Closing, After, Holding, Places
    <3>2. CASE ~at[e].failed /\ at[e].pc = "opened"
      <4>1. next = "upload"
        BY <3>2 DEF next, At
      <4> QED
        BY <1>1, <1>2, <1>6, <3>2, <4>1
       DEF Knows, Like, LikeKept, Fits, RemoteAt, RecordAt, MayClose,
       Before, Opening, Working, Failing, Closing, After, Holding, Places
    <3>3. CASE ~at[e].failed /\ at[e].pc = "executed"
      <4>1. next = "recalled"
        BY <3>3 DEF next, At
      <4> QED
        BY <1>1, <1>2, <1>6, <3>3, <4>1
       DEF Knows, Like, LikeKept, Fits, RemoteAt, RecordAt, MayClose,
       Before, Opening, Working, Failing, Closing, After, Holding, Places
    <3> QED
      BY <1>1, <3>1, <3>2, <3>3 DEF Knows, Spots
  <2> QED
    BY <1>1, <1>4, <2>1, <2>2, SaveStep DEF Knows, Legal
<1> QED
  BY <1>5, <1>6

LEMMA PersistInteractionStep ==
    ASSUME IInv, NEW e \in Executions, PersistInteraction(e)
    PROVE  IInv' /\ Refines
<1> DEFINE there == Go(e, "latest")
           fail  == Go(e, "fail recall")
           held  == [there EXCEPT !.receipt = "held"]
           went  == [held EXCEPT !.pc = "fail recall"]
           kept  == Kept(went)
           tried == [fail EXCEPT !.receipt = "attempted"]
           new   == [mine[e] EXCEPT !.receipt = TRUE]
<1> HIDE DEF there, fail, held, went, kept, tried, new
<1>1. Knows(e, "interact")
  BY Known DEF PersistInteraction, Holding, Places
<1>2. Like(there, at[e], "latest") /\ Like(fail, at[e], "fail recall")
  <2>1. "latest" \in Places /\ "fail recall" \in Places
    BY DEF Places
  <2> QED
    BY <1>1, <2>1, GoShape DEF Knows, there, fail
<1>3. Like(held, at[e], "latest") /\ Like(tried, at[e], "fail recall")
  BY <1>2 DEF Like, Spots, held, tried
<1>4. LikeKept(kept, at[e], "fail recall")
  <2>1. Like(went, at[e], "fail recall")
    BY <1>3 DEF Like, Spots, Places, went
  <2> QED
    BY <2>1 DEF Like, LikeKept, Kept, Spots, kept
<1>5. new \in Rows /\ new.state = mine[e].state /\ new.close = mine[e].close
  BY <1>1 DEF Knows, Rows, new
<1>6. /\ Fits(held, session[e], document[e], new.state)
      /\ Fits(kept, session[e], document[e], mine[e].state)
  BY <1>1, <1>3, <1>4, <1>5
       DEF Knows, Like, LikeKept, Fits, RemoteAt, RecordAt, MayClose,
       Before, Opening, Working, Failing, Closing, After, Holding, Places
<1>7. Fits(tried, session[e], document[e], mine[e].state)
  BY <1>1, <1>3
       DEF Knows, Like, LikeKept, Fits, RemoteAt, RecordAt, MayClose,
       Before, Opening, Working, Failing, Closing, After, Holding, Places
<1>8. CASE Save(e, new, held, kept)
  BY <1>1, <1>5, <1>6, <1>8, SaveStep DEF Knows, Legal
<1>9. CASE Fails /\ Local(e, tried)
  <2>1. faults' \in Nat
    BY <1>1, <1>9 DEF Fails, Knows, TypeOK
  <2>2. task' \in [Executions -> {"running", "superseded", "over"}]
    BY <1>1, <1>9 DEF Local, Knows, TypeOK
  <2> QED
    BY <1>1, <1>7, <1>9, <2>1, <2>2, LocalStep DEF Local, Knows, record
<1> QED
  BY <1>8, <1>9 DEF PersistInteraction, there, fail, held, went, kept, tried, new

LEMMA LatestStep ==
    ASSUME IInv, NEW e \in Executions, Latest(e)
    PROVE  IInv' /\ Refines
<1> DEFINE next == IF task[e] = "superseded" THEN "prepare" ELSE "knowledge"
           ok == Go(e, next)
           ko == Go(e, "leave")
<1> HIDE DEF next, ok, ko
<1>1. Knows(e, "latest")
  BY Known DEF Latest, Holding, Places
<1>2. Like(ok, at[e], next) /\ Like(ko, at[e], "leave")
  <2>1. next \in Places /\ "leave" \in Places
    BY DEF Places, next
  <2> QED
    BY <1>1, <2>1, GoShape DEF Knows, ok, ko
<1>3. next \in {"prepare", "knowledge"}
  BY DEF next
<1>4. /\ Fits(ok, session[e], document[e], mine[e].state)
      /\ Fits(ko, session[e], document[e], mine[e].state)
  BY <1>1, <1>2, <1>3
       DEF Knows, Like, LikeKept, Fits, RemoteAt, RecordAt, MayClose,
       Before, Opening, Working, Failing, Closing, After, Holding, Places
<1>5. \/ Local(e, ok) /\ UNCHANGED faults
      \/ Local(e, ko) /\ Fails
  BY DEF Latest, next, ok, ko
<1>6. /\ faults' \in Nat /\ task' \in [Executions -> {"running", "superseded", "over"}]
  BY <1>1, <1>5 DEF Fails, Local, Knows, TypeOK
<1> QED
  BY <1>1, <1>4, <1>5, <1>6, LocalStep DEF Local, Knows, record

LEMMA FinishStep ==
    ASSUME IInv, NEW e \in Executions, Finish(e)
    PROVE  IInv' /\ Refines
<1>1. Knows(e, "finish")
  BY Known DEF Finish, Holding, Places
<1>5. faults \in Nat /\ task \in [Executions -> {"running", "superseded", "over"}]
  BY <1>1 DEF Knows, TypeOK
<1>7. faults' \in Nat
  <2>1. CASE UNCHANGED faults
    BY <1>5, <2>1
  <2>2. CASE Fails
    BY <1>5, <2>2 DEF Fails
  <2> QED
    BY <2>1, <2>2 DEF Finish
<1>8. task' \in [Executions -> {"running", "superseded", "over"}]
  BY <1>5 DEF Finish
<1>2. PICK to \in {"prepare", "fail recall", "leave"} : Put(e, Go(e, to))
  BY DEF Finish
<1>3. Like(Go(e, to), at[e], to)
  <2>1. to \in Places
    BY DEF Places
  <2> QED
    BY <1>1, <2>1, GoShape DEF Knows
<1>4. Fits(Go(e, to), session[e], document[e], mine[e].state)
  BY <1>1, <1>3
       DEF Knows, Like, LikeKept, Fits, RemoteAt, RecordAt, MayClose,
       Before, Opening, Working, Failing, Closing, After, Holding, Places
<1>6. UNCHANGED <<record, expired, remote, mine, active, sweep, crashed>>
  BY DEF Finish
<1> QED
  BY <1>1, <1>2, <1>4, <1>6, <1>7, <1>8, LocalStep DEF Knows

LEMMA StoreDocumentStep ==
    ASSUME IInv, NEW e \in Executions, StoreDocument(e)
    PROVE  IInv' /\ Refines
<1> DEFINE there == Go(e, "stored")
           fail  == Go(e, "fail recall")
<1> HIDE DEF there, fail
<1>1. Knows(e, "knowledge")
  BY Known DEF StoreDocument, Holding, Places
<1>2. Like(there, at[e], "stored") /\ Like(fail, at[e], "fail recall")
  <2>1. "stored" \in Places /\ "fail recall" \in Places
    BY DEF Places
  <2> QED
    BY <1>1, <2>1, GoShape DEF Knows, there, fail
<1>3. /\ session[e] = "open" /\ document[e] = "temporary" /\ mine[e].state = "tracking"
      /\ row[e].state \notin Settled /\ at[e].pc \in Holding \ After
      /\ TypeOK /\ at[e].opened /\ ~at[e].retain /\ ~at[e].preserve /\ ~at[e].failed
      /\ at[e].reply # "confirmed"
  BY <1>1 DEF Knows, RemoteAt, RecordAt, Before, Opening, Working, After, Settled, GoneAt
<1>4. session' = [session EXCEPT ![e] = "open"] /\ session' = session
  BY <1>3, Asis DEF StoreDocument
<1>5. document = [document EXCEPT ![e] = "temporary"]
  BY <1>3, Asis
<1>6. ASSUME NEW answer \in {"committed", "not_applied", "unknown"},
             NEW d \in {"temporary", "permanent"}, document' = [document EXCEPT ![e] = d],
             answer = "committed" => d = "permanent",
             answer = "not_applied" => d = "temporary",
             Call(e, [there EXCEPT !.reply = answer])
      PROVE  IInv' /\ Refines
  <2> DEFINE to == [there EXCEPT !.reply = answer]
  <2>1. /\ to \in Spots /\ to.pc = "stored" /\ to.failed = at[e].failed
        /\ to.opened = at[e].opened /\ to.preserve = at[e].preserve
        /\ to.retain = at[e].retain /\ to.reply = answer
    BY <1>2 DEF Like, Spots
  <2> HIDE DEF to
  <2>2. Fits(to, "open", d, mine[e].state)
    BY <1>3, <1>6, <2>1
       DEF Knows, Like, LikeKept, Fits, RemoteAt, RecordAt, MayClose,
       Before, Opening, Working, Failing, Closing, After, Holding, Places
  <2>3. IInv'
    BY <1>3, <1>4, <1>6, <2>2, CallStep DEF to
  <2> QED
    BY <1>3, <1>4, <1>5, <1>6, <2>3, CallRefines DEF Call, record
<1>7. CASE document' = document /\ Call(e, fail)
  <2>1. Fits(fail, "open", "temporary", mine[e].state)
    BY <1>2, <1>3
       DEF Knows, Like, LikeKept, Fits, RemoteAt, RecordAt, MayClose,
       Before, Opening, Working, Failing, Closing, After, Holding, Places
  <2>2. IInv'
    BY <1>3, <1>4, <1>5, <1>7, <2>1, CallStep
  <2> QED
    BY <1>3, <1>4, <1>7, <2>2, CallRefines DEF Call, record
<1> QED
  BY <1>5, <1>6, <1>7 DEF StoreDocument, there, fail

LEMMA RecordKnowledgeStep ==
    ASSUME IInv, NEW e \in Executions, RecordKnowledge(e)
    PROVE  IInv' /\ Refines
<1> DEFINE asked == [at[e] EXCEPT !.reply = "none"]
           fail  == [asked EXCEPT !.pc = "fail recall"]
           lost  == Kept(fail)
           held  == [fail EXCEPT !.retain = TRUE]
           kept  == Kept(held)
           fini  == [asked EXCEPT !.pc = "finish", !.retain = TRUE]
           new(own) == [mine[e] EXCEPT !.own = own]
           doubt == [Quarantined(mine[e]) EXCEPT !.own = "unknown"]
<1>1. Knows(e, "stored")
  BY Known DEF RecordKnowledge, Holding, Places
<1>2. at[e] \in Spots /\ at[e].pc = "stored" /\ mine[e] \in Rows /\ mine[e].state = "tracking"
      /\ session[e] = "open" /\ at[e].opened /\ ~at[e].retain
      /\ (at[e].reply = "committed" => document[e] = "permanent")
      /\ (at[e].reply = "not_applied" => document[e] = "temporary")
      /\ at[e].pc \in Holding /\ (mine[e].close = "confirmed" => Gone(e))
  BY <1>1 DEF Knows, RemoteAt, RecordAt, Working, After
<1>3. /\ asked \in Spots /\ asked.opened /\ ~asked.retain /\ asked.reply = "none"
  BY <1>2 DEF Spots
<1> HIDE DEF asked
<1>4. /\ fail \in Spots /\ fail.pc = "fail recall" /\ fail.opened /\ ~fail.retain
      /\ fail.reply = "none"
  BY <1>3 DEF Spots, Places
<1>5. /\ fini \in Spots /\ fini.pc = "finish" /\ fini.opened /\ fini.retain
      /\ fini.reply = "none" /\ fini.failed = at[e].failed /\ fini.preserve = at[e].preserve
  <2> DEFINE f == [asked EXCEPT !.pc = "finish"]
  <2>1. /\ f \in Spots /\ f.pc = "finish" /\ f.opened /\ f.reply = "none"
        /\ f.failed = at[e].failed /\ f.preserve = at[e].preserve
    BY <1>2, <1>3 DEF Spots, Places, asked
  <2> HIDE DEF f
  <2>2. LET g == [f EXCEPT !.retain = TRUE] IN
        /\ g \in Spots /\ g.pc = "finish" /\ g.opened /\ g.retain /\ g.reply = "none"
        /\ g.failed = at[e].failed /\ g.preserve = at[e].preserve
    BY <2>1 DEF Spots
  <2> QED
    BY <2>2 DEF f
<1> HIDE DEF fail, fini
<1>6. /\ held \in Spots /\ held.pc = "fail recall" /\ held.opened /\ held.reply = "none"
  BY <1>4 DEF Spots
<1> HIDE DEF held
<1>7. /\ lost \in Spots /\ lost.pc = "fail recall" /\ lost.opened /\ lost.preserve
      /\ lost.reply = "none"
      /\ kept \in Spots /\ kept.pc = "fail recall" /\ kept.opened /\ kept.preserve
      /\ kept.reply = "none"
  BY <1>4, <1>6 DEF Kept, Spots
<1> HIDE DEF lost, kept
<1>8. /\ Fits(lost, session[e], document[e], mine[e].state)
      /\ Fits(kept, session[e], document[e], "quarantined")
  BY <1>2, <1>7
       DEF Knows, Like, LikeKept, Fits, RemoteAt, RecordAt, MayClose,
       Before, Opening, Working, Failing, Closing, After, Holding, Places
<1>9. \A own \in {"permanent", "temporary"} :
         new(own) \in Rows /\ new(own).state = mine[e].state /\ new(own).close = mine[e].close
  BY <1>2 DEF Rows
<1>10. doubt \in Rows /\ doubt.state = "quarantined" /\ doubt.close = mine[e].close
  <2> DEFINE q == Quarantined(mine[e])
  <2>1. q \in Rows /\ q.state = "quarantined" /\ q.close = mine[e].close
    BY <1>2, WrittenShape
  <2> HIDE DEF q
  <2>2. LET g == [q EXCEPT !.own = "unknown"] IN
        g \in Rows /\ g.state = "quarantined" /\ g.close = mine[e].close
    BY <2>1 DEF Rows
  <2> QED
    BY <2>2 DEF q
<1> HIDE DEF new, doubt
<1>11. CASE at[e].reply = "committed"
  <2>1. Save(e, new("permanent"), fini, lost)
    BY <1>11 DEF RecordKnowledge, new, fini, lost, fail, asked
  <2>2. at[e].failed = FALSE /\ at[e].preserve = FALSE
    BY <1>1 DEF Knows, RemoteAt, Working, Spots
  <2>3. Fits(fini, session[e], document[e], mine[e].state)
    BY <1>2, <1>5, <1>11, <2>2
       DEF Knows, Like, LikeKept, Fits, RemoteAt, RecordAt, MayClose,
       Before, Opening, Working, Failing, Closing, After, Holding, Places
  <2> QED
    BY <1>2, <1>8, <1>9, <2>1, <2>3, SaveStep DEF Legal
<1>12. CASE at[e].reply = "not_applied"
  <2>1. Save(e, new("temporary"), fail, lost)
    BY <1>12 DEF RecordKnowledge, new, lost, fail, asked
  <2>2. Fits(fail, session[e], document[e], mine[e].state)
    BY <1>2, <1>4, <1>12
       DEF Knows, Like, LikeKept, Fits, RemoteAt, RecordAt, MayClose,
       Before, Opening, Working, Failing, Closing, After, Holding, Places
  <2> QED
    BY <1>2, <1>8, <1>9, <2>1, <2>2, SaveStep DEF Legal
<1>13. CASE at[e].reply \notin {"committed", "not_applied"}
  <2>1. Save(e, doubt, kept, lost)
    BY <1>13 DEF RecordKnowledge, doubt, kept, held, lost, fail, asked
  <2>2. Legal(e, mine[e].state, doubt.state)
    BY <1>2, <1>10 DEF Legal, Settled
  <2> QED
    BY <1>2, <1>8, <1>10, <2>1, <2>2, SaveStep
<1> QED
  BY <1>11, <1>12, <1>13

-----------------------------------------------------------------------------
(* The worker: convergence of a failure.                                   *)

\* what LocalStep asks of the rest of the state
LEMMA LocalFrame ==
    ASSUME TypeOK, NEW e \in Executions, NEW to, Local(e, to), UNCHANGED faults \/ Fails
    PROVE  /\ Put(e, to) /\ faults' \in Nat
           /\ task' \in [Executions -> {"running", "superseded", "over"}]
           /\ UNCHANGED <<record, expired, remote, mine, active, sweep, crashed>>
<1>1. faults \in Nat /\ task \in [Executions -> {"running", "superseded", "over"}]
  BY DEF TypeOK
<1>2. faults' \in Nat
  <2>1. CASE UNCHANGED faults
    BY <1>1, <2>1
  <2>2. CASE Fails
    BY <1>1, <2>2 DEF Fails
  <2> QED
    BY <2>1, <2>2
<1> QED
  BY <1>1, <1>2 DEF Local, record

LEMMA FailRecallStep ==
    ASSUME IInv, NEW e \in Executions, FailRecall(e)
    PROVE  IInv' /\ Refines
<1> DEFINE next == Go(e, "fail audit")
           kept == Kept(Go(e, "fail audit"))
<1> HIDE DEF next, kept
<1>1. Knows(e, "fail recall")
  BY Known DEF FailRecall, Holding, Places
<1>2. Like(next, at[e], "fail audit") /\ LikeKept(kept, at[e], "fail audit")
  <2>1. "fail audit" \in Places
    BY DEF Places
  <2> QED
    BY <1>1, <2>1, GoShape, KeptShape DEF Knows, next, kept
<1>3. /\ Fits(next, session[e], document[e], mine[e].state)
      /\ Fits(kept, session[e], document[e], mine[e].state)
  BY <1>1, <1>2
       DEF Knows, Like, LikeKept, Fits, RemoteAt, RecordAt, MayClose,
       Before, Opening, Working, Failing, Closing, After, Holding, Places
<1>4. CASE Save(e, mine[e], next, kept)
  BY <1>1, <1>3, <1>4, SaveStep DEF Knows, Legal
<1>5. CASE Local(e, kept) /\ UNCHANGED faults
  BY <1>1, <1>3, <1>5, LocalStep, LocalFrame DEF Knows
<1> QED
  BY <1>4, <1>5 DEF FailRecall, next, kept

LEMMA FailAuditStep ==
    ASSUME IInv, NEW e \in Executions, FailAudit(e)
    PROVE  IInv' /\ Refines
<1> DEFINE there == Go(e, "conclude")
           plain == Go(e, "audit pending")
           held  == [there EXCEPT !.receipt = "held"]
           went  == [held EXCEPT !.pc = "audit pending"]
           lost  == Kept(Go(e, "audit pending"))
           both  == Kept(went)
           new   == [mine[e] EXCEPT !.receipt = TRUE]
<1> HIDE DEF there, plain, held, went, lost, both, new
<1>1. Knows(e, "fail audit")
  BY Known DEF FailAudit, Holding, Places
<1>2. /\ Like(there, at[e], "conclude") /\ Like(plain, at[e], "audit pending")
      /\ LikeKept(lost, at[e], "audit pending")
  <2>1. "conclude" \in Places /\ "audit pending" \in Places
    BY DEF Places
  <2> QED
    BY <1>1, <2>1, GoShape, KeptShape DEF Knows, there, plain, lost
<1>3. Like(held, at[e], "conclude")
  BY <1>2 DEF Like, Spots, held
<1>4. LikeKept(both, at[e], "audit pending")
  <2>1. Like(went, at[e], "audit pending")
    BY <1>3 DEF Like, Spots, Places, went
  <2> QED
    BY <2>1 DEF Like, LikeKept, Kept, Spots, both
<1>5. new \in Rows /\ new.state = mine[e].state /\ new.close = mine[e].close
  BY <1>1 DEF Knows, Rows, new
<1>6. /\ Fits(held, session[e], document[e], mine[e].state)
      /\ Fits(both, session[e], document[e], mine[e].state)
  BY <1>1, <1>3, <1>4
       DEF Knows, Like, LikeKept, Fits, RemoteAt, RecordAt, MayClose,
       Before, Opening, Working, Failing, Closing, After, Holding, Places
<1>7. /\ Fits(lost, session[e], document[e], mine[e].state)
      /\ Fits(plain, session[e], document[e], mine[e].state)
  BY <1>1, <1>2
       DEF Knows, Like, LikeKept, Fits, RemoteAt, RecordAt, MayClose,
       Before, Opening, Working, Failing, Closing, After, Holding, Places
<1>8. CASE Save(e, new, held, both)
  BY <1>1, <1>5, <1>6, <1>8, SaveStep DEF Knows, Legal
<1>9. ASSUME NEW to \in {held, both, lost, plain}, Local(e, to), UNCHANGED faults \/ Fails
      PROVE  IInv' /\ Refines
  <2>1. Fits(to, session[e], document[e], mine[e].state)
    BY <1>6, <1>7
  <2>2. TypeOK /\ at[e].pc \in Holding
    BY <1>1 DEF Knows
  <2> QED
    BY <1>9, <2>1, <2>2, LocalStep, LocalFrame
<1>10. \/ Save(e, new, held, both)
       \/ Local(e, held) /\ UNCHANGED faults
       \/ Local(e, both) /\ UNCHANGED faults
       \/ Local(e, lost) /\ UNCHANGED faults
       \/ Local(e, lost) /\ Fails
       \/ Local(e, plain) /\ UNCHANGED faults
  <2>1. CASE at[e].receipt = "held"
    BY <2>1 DEF FailAudit, held, there
  <2>2. CASE at[e].receipt = "attempted"
    BY <2>2 DEF FailAudit, lost
  <2>3. CASE at[e].receipt \notin {"held", "attempted"}
    BY <2>3 DEF FailAudit, new, held, both, went, there, lost, plain
  <2> QED
    BY <2>1, <2>2, <2>3
<1> QED
  BY <1>8, <1>9, <1>10

LEMMA MarkAuditPendingStep ==
    ASSUME IInv, NEW e \in Executions, MarkAuditPending(e)
    PROVE  IInv' /\ Refines
<1> DEFINE next == Go(e, "conclude")
           kept == Kept(Go(e, "conclude"))
           new  == [mine[e] EXCEPT !.state = "audit_pending"]
<1> HIDE DEF next, kept, new
<1>1. Knows(e, "audit pending")
  BY Known DEF MarkAuditPending, Holding, Places
<1>2. Like(next, at[e], "conclude") /\ LikeKept(kept, at[e], "conclude")
  <2>1. "conclude" \in Places
    BY DEF Places
  <2> QED
    BY <1>1, <2>1, GoShape, KeptShape DEF Knows, next, kept
<1>3. new \in Rows /\ new.state = "audit_pending" /\ new.close = mine[e].close
  BY <1>1 DEF Knows, Rows, Unsettled, new
<1>4. /\ Fits(next, session[e], document[e], mine[e].state)
      /\ Fits(next, session[e], document[e], new.state)
      /\ Fits(kept, session[e], document[e], mine[e].state)
  BY <1>1, <1>2, <1>3
       DEF Knows, Like, LikeKept, Fits, RemoteAt, RecordAt, MayClose,
       Before, Opening, Working, Failing, Closing, After, Holding, Places
<1>5. CASE mine[e].state = "quarantined" /\ Local(e, next) /\ UNCHANGED faults
  BY <1>1, <1>4, <1>5, LocalStep, LocalFrame DEF Knows
<1>6. CASE mine[e].state # "quarantined" /\ Save(e, new, next, kept)
  <2>1. Legal(e, mine[e].state, new.state)
    BY <1>1, <1>3, <1>6 DEF Legal, Knows, RecordAt, Failing, Settled
  <2> QED
    BY <1>1, <1>3, <1>4, <1>6, <2>1, SaveStep DEF Knows
<1> QED
  BY <1>5, <1>6 DEF MarkAuditPending, next, kept, new

LEMMA ConcludeStep ==
    ASSUME IInv, NEW e \in Executions, Conclude(e)
    PROVE  IInv' /\ Refines
<1>1. Inv(e) /\ TypeOK /\ at[e].pc = "conclude"
  BY DEF IInv, Conclude, At
<1>2. PICK to \in {"prepare", "leave"} :
         /\ Put(e, Go(e, to)) /\ (to = "prepare" => at[e].opened /\ ~at[e].preserve)
         /\ task' \in {task, [task EXCEPT ![e] = "over"]}
  BY DEF Conclude
<1>3. Like(Go(e, to), at[e], to)
  <2>1. to \in Places
    BY DEF Places
  <2> QED
    BY <1>1, <2>1, GoShape
<1>4. faults' \in Nat
  <2>1. CASE UNCHANGED faults
    BY <1>1, <2>1 DEF TypeOK
  <2>2. CASE Fails
    BY <1>1, <2>2 DEF TypeOK, Fails
  <2> QED
    BY <2>1, <2>2 DEF Conclude
<1>5. UNCHANGED <<record, expired, remote, mine, active, sweep, crashed>>
  BY DEF Conclude
<1>6. /\ TypeOK' /\ at'[e] = Go(e, to) /\ \A d \in Executions \ {e} : Same(d)
      /\ UNCHANGED <<session, document, active, sweep, row, mine>>
  BY <1>1, <1>2, <1>3, <1>4, <1>5 DEF Put, Like, TypeOK, Same, remote, record
<1>7. Owned(e)'
  BY <1>1, <1>2, <1>3, <1>6 DEF Inv, Owned, Like
<1>8. Truthful(e)'
  BY <1>1, <1>6 DEF Inv, Truthful, Gone
<1>9. RemoteAt(at[e], session[e], document[e])' /\ RecordAt(at[e], row[e].state)'
  BY <1>1, <1>2, <1>3, <1>6 DEF Inv, Like, RemoteAt, RecordAt, MayClose,
       Before, Opening, Working, Failing, Closing, After, Holding, Places
<1>10. Legal(e, row[e].state, row'[e].state)
  BY <1>6 DEF Legal
<1> QED
  BY <1>1, <1>6, <1>7, <1>8, <1>9, <1>10, OneStep, VerdictStep DEF Inv

-----------------------------------------------------------------------------
(* The worker: intent, remote close, audit, cleaned.                       *)

LEMMA PrepareCloseStep ==
    ASSUME IInv, NEW e \in Executions, PrepareClose(e)
    PROVE  IInv' /\ Refines
<1> DEFINE leave == Go(e, "leave")
           mark  == Go(e, "mark")
           new   == [mine[e] EXCEPT !.state = "cleanup_pending", !.close = "planned",
                                    !.deadline = @ + 1]
           doubt == [Quarantined(mine[e]) EXCEPT !.own = "unknown"]
<1> HIDE DEF leave, mark, new, doubt
<1>1. Knows(e, "prepare")
  BY Known DEF PrepareClose, Holding, Places
<1>2. Like(leave, at[e], "leave") /\ Like(mark, at[e], "mark")
  <2>1. "leave" \in Places /\ "mark" \in Places
    BY DEF Places
  <2> QED
    BY <1>1, <2>1, GoShape DEF Knows, leave, mark
<1>3. new \in Rows /\ new.state = "cleanup_pending" /\ new.close = "planned"
  <2> DEFINE f == [mine[e] EXCEPT !.state = "cleanup_pending"]
             g == [f EXCEPT !.close = "planned"]
  <2>1. f \in Rows /\ f.state = "cleanup_pending"
    BY <1>1 DEF Knows, Rows, Unsettled
  <2> HIDE DEF f
  <2>2. g \in Rows /\ g.state = "cleanup_pending" /\ g.close = "planned"
    BY <2>1 DEF Rows
  <2> HIDE DEF g
  <2>3. LET h == [g EXCEPT !.deadline = @ + 1] IN
        h \in Rows /\ h.state = "cleanup_pending" /\ h.close = "planned"
    BY <2>2 DEF Rows
  <2> QED
    BY <2>3 DEF new, f, g
<1>4. doubt \in Rows /\ doubt.state = "quarantined" /\ doubt.close = mine[e].close
  <2> DEFINE q == Quarantined(mine[e])
  <2>1. q \in Rows /\ q.state = "quarantined" /\ q.close = mine[e].close
    BY <1>1, WrittenShape DEF Knows
  <2> HIDE DEF q
  <2>2. LET g == [q EXCEPT !.own = "unknown"] IN
        g \in Rows /\ g.state = "quarantined" /\ g.close = mine[e].close
    BY <2>1 DEF Rows
  <2> QED
    BY <2>2 DEF q, doubt
<1>5. /\ Fits(leave, session[e], document[e], mine[e].state)
      /\ Fits(leave, session[e], document[e], "quarantined")
      /\ Fits(mark, session[e], document[e], "cleanup_pending")
  BY <1>1, <1>2
       DEF Knows, Like, LikeKept, Fits, RemoteAt, RecordAt, MayClose,
       Before, Opening, Working, Failing, Closing, After, Holding, Places
<1>6. CASE Local(e, leave) /\ UNCHANGED faults
  BY <1>1, <1>5, <1>6, LocalStep, LocalFrame DEF Knows
<1>7. CASE mine[e].state = "tracking" /\ Save(e, new, mark, leave)
  BY <1>1, <1>3, <1>5, <1>7, SaveStep DEF Knows, Legal, Settled
<1>8. CASE mine[e].state = "tracking" /\ Save(e, doubt, leave, leave)
  BY <1>1, <1>4, <1>5, <1>8, SaveStep DEF Knows, Legal, Settled
<1> QED
  BY <1>6, <1>7, <1>8 DEF PrepareClose, leave, mark, new, doubt

LEMMA MarkRunningStep ==
    ASSUME IInv, NEW e \in Executions, MarkRunning(e)
    PROVE  IInv' /\ Refines
<1> DEFINE ok  == Go(e, "close")
           ko  == Go(e, "leave")
           new == [mine[e] EXCEPT !.close = "running", !.deadline = @ + 1]
<1> HIDE DEF ok, ko, new
<1>1. Knows(e, "mark")
  BY Known DEF MarkRunning, Holding, Places
<1>2. Like(ok, at[e], "close") /\ Like(ko, at[e], "leave")
  <2>1. "close" \in Places /\ "leave" \in Places
    BY DEF Places
  <2> QED
    BY <1>1, <2>1, GoShape DEF Knows, ok, ko
<1>3. new \in Rows /\ new.state = mine[e].state /\ new.close = "running"
  <2> DEFINE f == [mine[e] EXCEPT !.close = "running"]
  <2>1. f \in Rows /\ f.state = mine[e].state /\ f.close = "running"
    BY <1>1 DEF Knows, Rows
  <2> HIDE DEF f
  <2>2. LET g == [f EXCEPT !.deadline = @ + 1] IN
        g \in Rows /\ g.state = mine[e].state /\ g.close = "running"
    BY <2>1 DEF Rows
  <2> QED
    BY <2>2 DEF new, f
<1>4. /\ Fits(ok, session[e], document[e], mine[e].state)
      /\ Fits(ko, session[e], document[e], mine[e].state)
  BY <1>1, <1>2
       DEF Knows, Like, LikeKept, Fits, RemoteAt, RecordAt, MayClose,
       Before, Opening, Working, Failing, Closing, After, Holding, Places
<1> QED
  BY <1>1, <1>3, <1>4, SaveStep DEF MarkRunning, Knows, Legal, ok, ko, new

LEMMA CloseSessionStep ==
    ASSUME IInv, NEW e \in Executions, CloseSession(e)
    PROVE  IInv' /\ Refines
<1> DEFINE there == Go(e, "closed")
           fail  == Go(e, "close failed")
           gone  == IF at[e].retain \/ document[e] = "none" THEN document
                    ELSE [document EXCEPT ![e] = "deleted"]
           left  == IF at[e].retain \/ document[e] = "none" THEN document[e] ELSE "deleted"
           sure  == [there EXCEPT !.reply = "confirmed"]
           doubt == [there EXCEPT !.reply = "unknown"]
<1> HIDE DEF there, fail, gone, left, sure, doubt
<1>1. Knows(e, "close")
  BY Known DEF CloseSession, Holding, Places
<1>2. Like(there, at[e], "closed") /\ Like(fail, at[e], "close failed")
  <2>1. "closed" \in Places /\ "close failed" \in Places
    BY DEF Places
  <2> QED
    BY <1>1, <2>1, GoShape DEF Knows, there, fail
<1>3. /\ session[e] = "open" /\ MayClose(at[e], document[e]) /\ mine[e].state = "cleanup_pending"
      /\ row[e].state \notin Settled /\ at[e].pc \in Holding \ After /\ TypeOK
      /\ at[e].opened /\ at[e].reply # "confirmed"
  BY <1>1 DEF Knows, RemoteAt, RecordAt, Closing, After, Settled, GoneAt
<1>4. /\ sure \in Spots /\ sure.pc = "closed" /\ sure.reply = "confirmed"
      /\ doubt \in Spots /\ doubt.pc = "closed" /\ doubt.reply = "unknown"
  BY <1>2 DEF Like, Spots, sure, doubt
<1>5. /\ session = [session EXCEPT ![e] = "open"]
      /\ document = [document EXCEPT ![e] = document[e]]
      /\ document[e] \in {"none", "temporary", "permanent", "deleted"}
  BY <1>3, Asis
<1>6. /\ gone = [document EXCEPT ![e] = left] /\ GoneAt("closed", left)
      /\ left = document[e] \/ (document[e] = "temporary" /\ left = "deleted")
  BY <1>3, <1>5 DEF MayClose, GoneAt, gone, left
<1>7. ASSUME NEW s \in {"open", "closed"}, session' = [session EXCEPT ![e] = s],
             NEW d \in {document[e], left}, document' = [document EXCEPT ![e] = d],
             NEW to, Call(e, to), Fits(to, s, d, mine[e].state)
      PROVE  IInv' /\ Refines
  <2>5. d \in {"none", "temporary", "permanent", "deleted"}
    BY <1>5, <1>6
  <2>1. IInv'
    BY <1>3, <1>7, <2>5, CallStep
  <2>2. session' \in {session, [session EXCEPT ![e] = "closed"]}
    BY <1>5, <1>7
  <2>3. document' = document \/ (document[e] = "temporary"
                                 /\ document' = [document EXCEPT ![e] = "deleted"])
    BY <1>5, <1>6, <1>7
  <2>4. row' = row
    BY <1>7 DEF Call, record
  <2> QED
    BY <1>3, <2>1, <2>2, <2>3, <2>4, CallRefines
<1>8. CASE session' = [session EXCEPT ![e] = "closed"] /\ document' = gone /\ Call(e, sure)
  <2>1. Fits(sure, "closed", left, mine[e].state)
    BY <1>3, <1>4, <1>6 DEF Fits, RemoteAt, RecordAt,
         Before, Opening, Working, Failing, Closing, After, Holding, Places
  <2> QED
    BY <1>6, <1>7, <1>8, <2>1
<1>9. ASSUME session' \in {session, [session EXCEPT ![e] = "closed"]},
             document' \in {document, gone}, NEW to \in {doubt, fail}, Call(e, to)
      PROVE  IInv' /\ Refines
  <2>1. PICK s \in {"open", "closed"} : session' = [session EXCEPT ![e] = s]
    BY <1>5, <1>9
  <2>2. PICK d \in {document[e], left} : document' = [document EXCEPT ![e] = d]
    BY <1>5, <1>6, <1>9
  <2>3. to \in Spots /\ to.pc \in {"closed", "close failed"} /\ to.reply # "confirmed"
    BY <1>2, <1>3, <1>4 DEF Like
  <2>4. Fits(to, s, d, mine[e].state)
    BY <1>3, <2>3 DEF Fits, RemoteAt, RecordAt,
         Before, Opening, Working, Failing, Closing, After, Holding, Places
  <2> QED
    BY <1>7, <1>9, <2>1, <2>2, <2>4
<1> QED
  BY <1>8, <1>9 DEF CloseSession, there, fail, gone, sure, doubt

LEMMA ConfirmedShape ==
    ASSUME TypeOK, NEW e \in Executions
    PROVE  /\ Confirmed(e) \in Rows /\ Confirmed(e).state = mine[e].state
           /\ Confirmed(e).close = "confirmed"
<1> DEFINE f == [mine[e] EXCEPT !.close = "confirmed"]
           g == [f EXCEPT !.own = IF at[e].retain THEN @ ELSE "released"]
<1>1. f \in Rows /\ f.state = mine[e].state /\ f.close = "confirmed"
  BY DEF TypeOK, Rows
<1> HIDE DEF f
<1>2. g \in Rows /\ g.state = mine[e].state /\ g.close = "confirmed"
  BY <1>1 DEF Rows
<1>3. Confirmed(e) = g
  BY DEF Confirmed, f
<1> HIDE DEF g
<1> QED
  BY <1>2, <1>3

LEMMA RecordCloseStep ==
    ASSUME IInv, NEW e \in Executions, RecordClose(e)
    PROVE  IInv' /\ Refines
<1> DEFINE ok  == Go(e, "append")
           ko  == Go(e, "close failed")
           new == IF at[e].reply = "confirmed" THEN Confirmed(e) ELSE Unknown(mine[e])
<1> HIDE DEF ok, ko, new
<1>1. Knows(e, "closed")
  BY Known DEF RecordClose, Holding, Places
<1>2. Like(ok, at[e], "append") /\ Like(ko, at[e], "close failed")
  <2>1. "append" \in Places /\ "close failed" \in Places
    BY DEF Places
  <2> QED
    BY <1>1, <2>1, GoShape DEF Knows, ok, ko
<1>3. /\ mine[e].state = "cleanup_pending"
      /\ (at[e].reply = "confirmed" => GoneAt(session[e], document[e]))
  BY <1>1 DEF Knows, RemoteAt, RecordAt
<1>4. new \in Rows /\ \/ /\ new.state = "cleanup_pending" /\ at[e].reply = "confirmed"
                      \/ new.state = "quarantined" /\ new.close = "outcome_unknown"
  <2>1. CASE at[e].reply = "confirmed"
    BY <1>1, <1>3, <2>1, ConfirmedShape DEF Knows, new
  <2>2. CASE at[e].reply # "confirmed"
    BY <1>1, <2>2, WrittenShape DEF Knows, new
  <2> QED
    BY <2>1, <2>2
<1>5. /\ new.state # "none" /\ (new.close = "confirmed" => Gone(e))
      /\ Legal(e, mine[e].state, new.state)
  BY <1>3, <1>4 DEF Gone, Legal, Settled
<1>6. /\ Fits(ok, session[e], document[e], new.state)
      /\ Fits(ko, session[e], document[e], mine[e].state)
  BY <1>1, <1>2, <1>4
       DEF Knows, Like, LikeKept, Fits, RemoteAt, RecordAt, MayClose,
       Before, Opening, Working, Failing, Closing, After, Holding, Places
<1>7. Save(e, new, ok, ko)
  BY DEF RecordClose, ok, ko, new
<1>8. at[e].pc \in Holding
  BY <1>1 DEF Knows
<1> QED
  BY <1>4, <1>5, <1>6, <1>7, <1>8, SaveStep

LEMMA AppendEventsStep ==
    ASSUME IInv, NEW e \in Executions, AppendEvents(e)
    PROVE  IInv' /\ Refines
<1> DEFINE ok == Go(e, "appended")
           ko == Go(e, "close failed")
<1> HIDE DEF ok, ko
<1>1. Knows(e, "append")
  BY Known DEF AppendEvents, Holding, Places
<1>2. Like(ok, at[e], "appended") /\ Like(ko, at[e], "close failed")
  <2>1. "appended" \in Places /\ "close failed" \in Places
    BY DEF Places
  <2> QED
    BY <1>1, <2>1, GoShape DEF Knows, ok, ko
<1>3. /\ Fits(ok, session[e], document[e], mine[e].state)
      /\ Fits(ko, session[e], document[e], mine[e].state)
  BY <1>1, <1>2
       DEF Knows, Like, LikeKept, Fits, RemoteAt, RecordAt, MayClose,
       Before, Opening, Working, Failing, Closing, After, Holding, Places
<1>4. \/ Local(e, ok) /\ UNCHANGED faults
      \/ Local(e, ko) /\ Fails
  BY DEF AppendEvents, ok, ko
<1> QED
  BY <1>1, <1>3, <1>4, LocalStep, LocalFrame DEF Knows

LEMMA MarkAuditedStep ==
    ASSUME IInv, NEW e \in Executions, MarkAudited(e)
    PROVE  IInv' /\ Refines
<1> DEFINE ok  == Go(e, "leave")
           ko  == Go(e, "close failed")
           new == [mine[e] EXCEPT !.state = "cleaned"]
<1> HIDE DEF ok, ko, new
<1>1. Knows(e, "appended")
  BY Known DEF MarkAudited, Holding, Places
<1>2. Like(ok, at[e], "leave") /\ Like(ko, at[e], "close failed")
  <2>1. "leave" \in Places /\ "close failed" \in Places
    BY DEF Places
  <2> QED
    BY <1>1, <2>1, GoShape DEF Knows, ok, ko
<1>3. new \in Rows /\ new.state = "cleaned" /\ new.close = mine[e].close
  BY <1>1 DEF Knows, Rows, Settled, new
<1>4. /\ Fits(ok, session[e], document[e], mine[e].state)
      /\ Fits(ok, session[e], document[e], "cleaned")
      /\ Fits(ko, session[e], document[e], mine[e].state)
  BY <1>1, <1>2
       DEF Knows, Like, LikeKept, Fits, RemoteAt, RecordAt, MayClose,
       Before, Opening, Working, Failing, Closing, After, Holding, Places
<1>5. CASE Local(e, ok) /\ UNCHANGED faults
  BY <1>1, <1>4, <1>5, LocalStep, LocalFrame DEF Knows
<1>6. CASE mine[e].state # "quarantined" /\ Save(e, new, ok, ko)
  <2>1. mine[e].state = "cleanup_pending" /\ Gone(e)
    BY <1>1, <1>6 DEF Knows, RemoteAt, RecordAt, Gone
  <2>2. Legal(e, mine[e].state, new.state)
    BY <1>3, <2>1 DEF Legal, Settled
  <2> QED
    BY <1>1, <1>3, <1>4, <1>6, <2>1, <2>2, SaveStep DEF Knows
<1> QED
  BY <1>5, <1>6 DEF MarkAudited, ok, ko, new

LEMMA RecordCloseFailureStep ==
    ASSUME IInv, NEW e \in Executions, RecordCloseFailure(e)
    PROVE  IInv' /\ Refines
<1> DEFINE leave == Go(e, "leave")
           new == IF at[e].reply = "confirmed"
                  THEN [Confirmed(e) EXCEPT !.state = "audit_pending", !.deadline = 0]
                  ELSE Unknown(mine[e])
<1> HIDE DEF leave, new
<1>1. Knows(e, "close failed")
  BY Known DEF RecordCloseFailure, Holding, Places
<1>2. Like(leave, at[e], "leave")
  <2>1. "leave" \in Places
    BY DEF Places
  <2> QED
    BY <1>1, <2>1, GoShape DEF Knows, leave
<1>3. \A state : Fits(leave, session[e], document[e], state)
  BY <1>1, <1>2
       DEF Knows, Like, LikeKept, Fits, RemoteAt, RecordAt, MayClose,
       Before, Opening, Working, Failing, Closing, After, Holding, Places
<1>4. CASE Local(e, leave) /\ UNCHANGED faults
  BY <1>1, <1>3, <1>4, LocalStep, LocalFrame DEF Knows
<1>5. CASE mine[e].state # "quarantined" /\ Save(e, new, leave, leave)
  <2>1. /\ mine[e].state = "cleanup_pending"
        /\ (at[e].reply = "confirmed" => GoneAt(session[e], document[e]))
    BY <1>1, <1>5 DEF Knows, RemoteAt, RecordAt
  <2>2. new \in Rows /\ \/ new.state = "audit_pending" /\ at[e].reply = "confirmed"
                        \/ new.state = "quarantined" /\ new.close = "outcome_unknown"
    <3>1. CASE at[e].reply = "confirmed"
      <4> DEFINE f == Confirmed(e)
                 g == [f EXCEPT !.state = "audit_pending"]
      <4>1. f \in Rows
        BY <1>1, ConfirmedShape DEF Knows
      <4> HIDE DEF f
      <4>2. g \in Rows /\ g.state = "audit_pending"
        BY <4>1 DEF Rows, Unsettled
      <4> HIDE DEF g
      <4>3. LET h == [g EXCEPT !.deadline = 0] IN h \in Rows /\ h.state = "audit_pending"
        BY <4>2 DEF Rows
      <4>4. new = [g EXCEPT !.deadline = 0]
        BY <3>1 DEF new, f, g
      <4> QED
        BY <3>1, <4>3, <4>4
    <3>2. CASE at[e].reply # "confirmed"
      BY <1>1, <3>2, WrittenShape DEF Knows, new
    <3> QED
      BY <3>1, <3>2
  <2>3. /\ new.state # "none" /\ (new.close = "confirmed" => Gone(e))
        /\ Legal(e, mine[e].state, new.state)
    BY <2>1, <2>2 DEF Gone, Legal, Settled
  <2> QED
    BY <1>1, <1>3, <1>5, <2>2, <2>3, SaveStep DEF Knows
<1> QED
  BY <1>4, <1>5 DEF RecordCloseFailure, leave, new

LEMMA LeaveStep ==
    ASSUME IInv, NEW e \in Executions, Leave(e)
    PROVE  IInv' /\ Refines
<1> DEFINE done == [Blank EXCEPT !.pc = "done"]
<1>1. Inv(e) /\ TypeOK /\ at[e].pc = "leave"
  BY DEF IInv, Leave, At
<1>2. /\ done \in Spots /\ done.pc = "done" /\ ~done.opened /\ done.reply = "none"
  BY DEF Blank, Spots, Places
<1>3. NoRow \in Rows
  BY DEF NoRow, Rows
<1> HIDE DEF done
<1>4. /\ TypeOK' /\ at'[e] = done /\ \A d \in Executions \ {e} : Same(d)
      /\ active' = active \ {e}
      /\ UNCHANGED <<session, document, sweep, row>>
  BY <1>1, <1>2, <1>3 DEF Leave, Put, TypeOK, Same, remote, record, done
<1>5. Owned(e)'
  BY <1>1, <1>2, <1>4 DEF Inv, Owned
<1>6. Truthful(e)'
  BY <1>1, <1>4 DEF Inv, Truthful, Gone
<1>7. RemoteAt(at[e], session[e], document[e])' /\ RecordAt(at[e], row[e].state)'
  BY <1>1, <1>2, <1>4 DEF Inv, RemoteAt, RecordAt, MayClose,
       Before, Opening, Working, Failing, Closing, After, Holding, Places
<1>8. Legal(e, row[e].state, row'[e].state)
  BY <1>4 DEF Legal
<1> QED
  BY <1>1, <1>4, <1>5, <1>6, <1>7, <1>8, OneStep, VerdictStep DEF Inv

LEMMA WorkerStep ==
    ASSUME IInv, NEW e \in Executions, Worker(e)
    PROVE  IInv' /\ Refines
BY AcquireStep, RegisterStep, RecordRecallStep, IsolateStep, OpenSessionStep, CheckpointStep,
   PrepareUploadStep, ExecuteStep, FinalizeRecallStep, PersistInteractionStep, LatestStep,
   StoreDocumentStep, RecordKnowledgeStep, FinishStep, FailRecallStep, FailAuditStep,
   MarkAuditPendingStep, ConcludeStep, PrepareCloseStep, MarkRunningStep, CloseSessionStep,
   RecordCloseStep, AppendEventsStep, MarkAuditedStep, RecordCloseFailureStep, LeaveStep
   DEF Worker

-----------------------------------------------------------------------------
(* The sweep.                                                              *)

\* The sweep goes on with an execution and writes nothing.
LEMMA SweepGoesOn ==
    ASSUME IInv, NEW e \in Executions, NEW stage \in Stages, NEW copy \in Rows,
           Sweeps(e, stage, copy), UNCHANGED record, faults' \in Nat,
           stage # "none" => row[e].state # "none",
           stage = "read" => copy.state # "none",
           stage \in Acting => at[e].pc = "done" /\ copy.state \in Unsettled,
           copy.close = "confirmed" => Gone(e),
           stage \in {"append", "clean"} => copy.close = "confirmed"
    PROVE  IInv' /\ Refines
<1> DEFINE to == [stage |-> stage, copy |-> copy]
<1>1. Inv(e) /\ TypeOK
  BY DEF IInv
<1>2. to \in Sweeping /\ to.stage = stage /\ to.copy = copy
  BY DEF Sweeping
<1>3. sweep' = [sweep EXCEPT ![e] = to] /\ UNCHANGED <<task, expired, remote, worker, crashed>>
  BY DEF Sweeps
<1> HIDE DEF to
<1>4. /\ TypeOK' /\ sweep'[e] = to /\ \A d \in Executions \ {e} : Same(d)
      /\ UNCHANGED <<session, document, row, mine, at, active>>
  BY <1>1, <1>2, <1>3 DEF TypeOK, Same, remote, worker, record
<1>5. Owned(e)'
  BY <1>1, <1>2, <1>4 DEF Inv, Owned
<1>6. Truthful(e)'
  BY <1>1, <1>2, <1>4 DEF Inv, Truthful, Gone
<1>7. Legal(e, row[e].state, row'[e].state)
  BY <1>4 DEF Legal
<1> QED
  BY <1>1, <1>4, <1>5, <1>6, <1>7, OneStep, VerdictStep DEF Inv

\* The sweep writes a record nobody works on, and is done with it.
LEMMA SweepWrites ==
    ASSUME IInv, NEW e \in Executions, sweep[e].stage \in Acting, NEW new \in Rows,
           row' = [row EXCEPT ![e] = new], waiting' \subseteq Executions, faults' \in Nat,
           Done(e), new.state # "none", new.close = "confirmed" => Gone(e),
           Legal(e, row[e].state, new.state)
    PROVE  IInv' /\ Refines
<1> DEFINE to == [stage |-> "none", copy |-> NoRow]
<1>1. Inv(e) /\ TypeOK /\ at[e].pc = "done" /\ e \notin active
  BY DEF IInv, Inv, Owned
<1>2. to \in Sweeping /\ to.stage = "none" /\ to.copy.close = "not_planned"
  BY DEF Sweeping, Stages, NoRow, Rows
<1>3. sweep' = [sweep EXCEPT ![e] = to] /\ UNCHANGED <<task, expired, remote, worker, crashed>>
  BY DEF Sweeps, Done
<1> HIDE DEF to
<1>4. /\ TypeOK' /\ sweep'[e] = to /\ row'[e] = new /\ \A d \in Executions \ {e} : Same(d)
      /\ UNCHANGED <<session, document, mine, at, active>>
  BY <1>1, <1>2, <1>3 DEF TypeOK, Same, remote, worker
<1>5. Owned(e)'
  BY <1>1, <1>2, <1>4 DEF Inv, Owned, Acting
<1>6. Truthful(e)'
  BY <1>1, <1>2, <1>4 DEF Inv, Truthful, Gone
<1>7. RemoteAt(at[e], session[e], document[e])' /\ RecordAt(at[e], row[e].state)'
  BY <1>1, <1>4 DEF Inv, RemoteAt, RecordAt,
       Before, Opening, Working, Failing, Closing, After, Holding, Places
<1> QED
  BY <1>1, <1>4, <1>5, <1>6, <1>7, OneStep, VerdictStep DEF Inv

\* what the sweep knows while it acts on an execution
LEMMA SweepKnows ==
    ASSUME IInv, NEW e \in Executions, sweep[e].stage \in Acting
    PROVE  /\ TypeOK /\ faults \in Nat /\ sweep[e].copy \in Rows /\ row[e].state # "none"
           /\ at[e].pc = "done" /\ sweep[e].copy.state \in Unsettled
           /\ (sweep[e].copy.close = "confirmed" => Gone(e))
           /\ (sweep[e].stage \in {"append", "clean"} => sweep[e].copy.close = "confirmed")
<1>1. Owned(e) /\ Truthful(e) /\ TypeOK
  BY DEF IInv, Inv
<1>2. sweep[e].copy \in Rows /\ faults \in Nat
  BY <1>1 DEF TypeOK, Sweeping
<1> QED
  BY <1>1, <1>2 DEF Owned, Truthful, Acting

LEMMA ListStep ==
    ASSUME IInv, List
    PROVE  IInv' /\ Refines
<1> DEFINE first == [Passed EXCEPT !.stage = "listed"]
<1>1. TypeOK /\ \A d \in Executions : Inv(d)
  BY DEF IInv
<1>2. /\ Passed \in Sweeping /\ Passed.stage = "none" /\ Passed.copy.close = "not_planned"
      /\ first \in Sweeping /\ first.stage = "listed" /\ first.copy.close = "not_planned"
  BY DEF Passed, Sweeping, Stages, NoRow, Rows
<1> HIDE DEF first
<1>3. /\ sweep' = [e \in Executions |-> IF e \in Recoverable THEN first ELSE Passed]
      /\ UNCHANGED <<task, record, expired, remote, worker, faults, crashed>>
  BY DEF List, first
<1>4. TypeOK' /\ UNCHANGED <<session, document, row, mine, at, active>>
  BY <1>1, <1>2, <1>3 DEF TypeOK, remote, worker, record
<1>5. ASSUME NEW d \in Executions PROVE Inv(d)'
  <2>1. /\ sweep'[d].stage \in {"none", "listed"} /\ sweep'[d].copy.close = "not_planned"
        /\ (sweep'[d].stage = "listed" => row[d].state # "none")
    BY <1>2, <1>3 DEF Recoverable
  <2>2. Owned(d)'
    BY <1>1, <1>4, <2>1 DEF Inv, Owned, Acting
  <2>3. Truthful(d)'
    BY <1>1, <1>4, <2>1 DEF Inv, Truthful, Gone
  <2> QED
    BY <1>1, <1>4, <2>2, <2>3 DEF Inv
<1>6. Refines
  BY <1>4 DEF Refines, Disposal!vars
<1> QED
  BY <1>4, <1>5, <1>6 DEF IInv

LEMMA ReadRowStep ==
    ASSUME IInv, NEW e \in Executions, ReadRow(e)
    PROVE  IInv' /\ Refines
<1>1. Inv(e) /\ TypeOK /\ sweep[e].stage = "listed"
  BY DEF IInv, ReadRow
<1>2. row[e].state # "none" /\ (row[e].close = "confirmed" => Gone(e)) /\ row[e] \in Rows
  BY <1>1 DEF Inv, Owned, Truthful, TypeOK
<1>3. "read" \in Stages /\ "read" \notin Acting
  BY DEF Stages, Acting
<1>4. Sweeps(e, "read", row[e]) /\ UNCHANGED record /\ faults' \in Nat
  BY <1>1 DEF ReadRow, TypeOK
<1> QED
  BY <1>2, <1>3, <1>4, SweepGoesOn

LEMMA Decided ==
    ASSUME NEW e \in Executions, NEW rec
    PROVE  /\ Decide(e, rec) \in {"none", "quarantine", "append", "unknown"}
           /\ (Decide(e, rec) # "none" => rec.state \notin Settled /\ e \notin active)
           /\ (Decide(e, rec) = "append" => rec.close = "confirmed")
BY DEF Decide

LEMMA CheckStep ==
    ASSUME IInv, NEW e \in Executions, Check(e)
    PROVE  IInv' /\ Refines
<1> DEFINE rec  == sweep[e].copy
           plan == Decide(e, rec)
<1> HIDE DEF rec, plan
<1>1. Inv(e) /\ TypeOK /\ sweep[e].stage = "read"
  BY DEF IInv, Check
<1>2. /\ rec \in Rows /\ rec.state # "none" /\ row[e].state # "none"
      /\ (rec.close = "confirmed" => Gone(e))
  BY <1>1 DEF Inv, Owned, Truthful, TypeOK, Sweeping, rec
<1>3. /\ plan \in {"none", "quarantine", "append", "unknown"}
      /\ (plan # "none" => rec.state \notin Settled /\ e \notin active)
      /\ (plan = "append" => rec.close = "confirmed")
  BY Decided DEF plan
<1>4. plan # "none" => rec.state \in Unsettled /\ at[e].pc = "done"
  BY <1>1, <1>2, <1>3 DEF Inv, Owned, Rows
<1>5. \/ Done(e)
      \/ plan # "none" /\ Next1(e, plan)
      \/ plan # "none" /\ Next1(e, "defer")
  BY DEF Check, plan, rec
<1>6. UNCHANGED <<record, faults>>
  BY DEF Check, Next1
<1>7. faults' \in Nat
  BY <1>1, <1>6 DEF TypeOK
<1>8. CASE Done(e)
  <2>1. Sweeps(e, "none", NoRow) /\ "none" \in Stages /\ "none" \notin Acting /\ NoRow \in Rows
        /\ NoRow.close = "not_planned"
    BY <1>8 DEF Done, Stages, Acting, NoRow, Rows
  <2> QED
    BY <1>6, <1>7, <2>1, SweepGoesOn
<1>9. CASE plan # "none" /\ Next1(e, plan)
  <2>1. Sweeps(e, plan, rec) /\ plan \in Stages /\ plan # "read" /\ plan # "clean"
    BY <1>3, <1>9 DEF Next1, Stages, rec
  <2> QED
    BY <1>2, <1>3, <1>4, <1>6, <1>7, <1>9, <2>1, SweepGoesOn
<1>10. CASE plan # "none" /\ Next1(e, "defer")
  <2>1. Sweeps(e, "defer", rec) /\ "defer" \in Stages
    BY <1>10 DEF Next1, Stages, rec
  <2> QED
    BY <1>2, <1>4, <1>6, <1>7, <1>10, <2>1, SweepGoesOn
<1> QED
  BY <1>5, <1>8, <1>9, <1>10

LEMMA AppendAgainStep ==
    ASSUME IInv, NEW e \in Executions, AppendAgain(e)
    PROVE  IInv' /\ Refines
<1>1. sweep[e].stage = "append" /\ sweep[e].stage \in Acting
  BY DEF AppendAgain, Acting
<1>2. /\ TypeOK /\ sweep[e].copy \in Rows /\ row[e].state # "none" /\ faults \in Nat
      /\ at[e].pc = "done" /\ sweep[e].copy.state \in Unsettled
      /\ sweep[e].copy.close = "confirmed" /\ Gone(e)
  BY <1>1, SweepKnows
<1>3. PICK stage \in {"clean", "defer"} : Next1(e, stage)
  BY DEF AppendAgain
<1>4. Sweeps(e, stage, sweep[e].copy) /\ UNCHANGED record /\ UNCHANGED faults
  BY <1>3 DEF Next1
<1>5. stage \in Stages /\ stage # "none" /\ stage # "read" /\ faults' \in Nat
  BY <1>2, <1>4 DEF Stages
<1> QED
  BY <1>2, <1>4, <1>5, SweepGoesOn

LEMMA SettleStep ==
    ASSUME IInv, NEW e \in Executions, Settle(e)
    PROVE  IInv' /\ Refines
<1> DEFINE rec  == sweep[e].copy
           next == CASE sweep[e].stage = "clean"      -> [rec EXCEPT !.state = "cleaned"]
                     [] sweep[e].stage = "quarantine" -> Quarantined(rec)
                     [] OTHER                         -> Unknown(rec)
           new  == [next EXCEPT !.version = rec.version + 1, !.tries = 0]
<1> HIDE DEF rec, next, new
<1>1. sweep[e].stage \in {"quarantine", "unknown", "clean"} /\ sweep[e].stage \in Acting
  BY DEF Settle, Acting
<1>2. /\ TypeOK /\ rec \in Rows /\ row[e].state # "none" /\ faults \in Nat
      /\ at[e].pc = "done" /\ rec.state \in Unsettled /\ (rec.close = "confirmed" => Gone(e))
      /\ (sweep[e].stage = "clean" => rec.close = "confirmed")
  BY <1>1, SweepKnows DEF rec
<1>3. /\ next \in Rows /\ next.state \in Settled /\ (next.close = "confirmed" => Gone(e))
      /\ (next.state = "cleaned" => Gone(e))
  <2>1. CASE sweep[e].stage = "clean"
    <3>1. LET c == [rec EXCEPT !.state = "cleaned"]
          IN  c \in Rows /\ c.state = "cleaned" /\ c.close = rec.close
      BY <1>2 DEF Rows, Settled
    <3>2. next = [rec EXCEPT !.state = "cleaned"]
      BY <2>1 DEF next
    <3> QED
      BY <1>2, <2>1, <3>1, <3>2 DEF Settled
  <2>2. CASE sweep[e].stage = "quarantine"
    <3>1. next = Quarantined(rec)
      BY <2>2 DEF next
    <3> QED
      BY <1>2, <3>1, WrittenShape DEF Settled
  <2>3. CASE sweep[e].stage = "unknown"
    <3>1. next = Unknown(rec)
      BY <2>3 DEF next
    <3> QED
      BY <1>2, <3>1, WrittenShape DEF Settled
  <2> QED
    BY <1>1, <2>1, <2>2, <2>3
<1>4. new \in Rows /\ new.state = next.state /\ new.close = next.close
  <2> DEFINE v == [next EXCEPT !.version = rec.version + 1]
  <2>1. rec.version + 1 \in Nat
    BY <1>2 DEF Rows
  <2>2. v \in Rows /\ v.state = next.state /\ v.close = next.close
    BY <1>3, <2>1 DEF Rows
  <2> HIDE DEF v
  <2>3. LET z == [v EXCEPT !.tries = 0]
        IN  z \in Rows /\ z.state = next.state /\ z.close = next.close
    BY <2>2 DEF Rows
  <2> QED
    BY <2>3 DEF new, v
<1>5. CASE Advance(e, rec, next) /\ Done(e) /\ UNCHANGED faults
  <2>1. /\ row' = [row EXCEPT ![e] = new] /\ row[e].state = rec.state
        /\ waiting' = waiting \ {e}
    BY <1>5 DEF Advance, Store, new
  <2>2. waiting' \subseteq Executions /\ faults' \in Nat
    BY <1>2, <1>5, <2>1 DEF TypeOK
  <2>3. Legal(e, row[e].state, new.state) /\ new.state # "none"
    BY <1>2, <1>3, <1>4, <2>1 DEF Legal, Unsettled, Settled
  <2> QED
    BY <1>1, <1>3, <1>4, <1>5, <2>1, <2>2, <2>3, SweepWrites
<1>6. CASE /\ UNCHANGED faults \/ Fails
           /\ UNCHANGED record
           /\ Done(e) \/ (sweep[e].stage = "clean" /\ Sweeps(e, "defer", rec))
  <2>1. faults' \in Nat
    <3>1. CASE UNCHANGED faults
      BY <1>2, <3>1
    <3>2. CASE Fails
      BY <1>2, <3>2 DEF Fails
    <3> QED
      BY <1>6, <3>1, <3>2
  <2>2. CASE Done(e)
    <3>1. Sweeps(e, "none", NoRow) /\ "none" \in Stages /\ "none" \notin Acting /\ NoRow \in Rows
          /\ NoRow.close = "not_planned"
      BY <2>2 DEF Done, Stages, Acting, NoRow, Rows
    <3> QED
      BY <1>6, <2>1, <3>1, SweepGoesOn
  <2>3. CASE sweep[e].stage = "clean" /\ Sweeps(e, "defer", rec)
    <3>1. "defer" \in Stages
      BY DEF Stages
    <3> QED
      BY <1>2, <1>6, <2>1, <2>3, <3>1, SweepGoesOn
  <2> QED
    BY <1>6, <2>2, <2>3
<1> QED
  BY <1>5, <1>6 DEF Settle, rec, next

LEMMA DeferStep ==
    ASSUME IInv, NEW e \in Executions, Defer(e)
    PROVE  IInv' /\ Refines
<1> DEFINE rec   == sweep[e].copy
           given == [Quarantined(rec) EXCEPT !.version = @ + 1]
           put   == [rec EXCEPT !.version = @ + 1, !.tries = @ + 1]
<1> HIDE DEF rec, given, put
<1>1. sweep[e].stage \in Acting /\ Done(e)
  BY DEF Defer, Acting
<1>2. /\ TypeOK /\ rec \in Rows /\ row[e].state # "none" /\ faults \in Nat
      /\ at[e].pc = "done" /\ rec.state \in Unsettled /\ (rec.close = "confirmed" => Gone(e))
  BY <1>1, SweepKnows DEF rec
<1>3. given \in Rows /\ given.state = "quarantined" /\ given.close = rec.close
  <2> DEFINE q == Quarantined(rec)
  <2>1. q \in Rows /\ q.state = "quarantined" /\ q.close = rec.close
    BY <1>2, WrittenShape
  <2> HIDE DEF q
  <2>2. LET v == [q EXCEPT !.version = @ + 1]
        IN  v \in Rows /\ v.state = "quarantined" /\ v.close = rec.close
    BY <2>1 DEF Rows
  <2> QED
    BY <2>2 DEF given, q
<1>4. put \in Rows /\ put.state = rec.state /\ put.close = rec.close
  <2> DEFINE v == [rec EXCEPT !.version = @ + 1]
  <2>1. v \in Rows /\ v.state = rec.state /\ v.close = rec.close
    BY <1>2 DEF Rows
  <2> HIDE DEF v
  <2>2. LET z == [v EXCEPT !.tries = @ + 1]
        IN  z \in Rows /\ z.state = rec.state /\ z.close = rec.close
    BY <2>1 DEF Rows
  <2> QED
    BY <2>2 DEF put, v
<1>5. ASSUME NEW new \in {given, put}, Store(e, new), row[e].state = rec.state,
             waiting' \in {waiting, waiting \cup {e}}, UNCHANGED faults
      PROVE  IInv' /\ Refines
  <2>1. waiting' \subseteq Executions /\ faults' \in Nat
    BY <1>2, <1>5 DEF TypeOK
  <2>2. new \in Rows /\ new.close = rec.close /\ new.state # "none"
        /\ Legal(e, row[e].state, new.state)
    BY <1>2, <1>3, <1>4, <1>5 DEF Legal, Unsettled, Settled
  <2> QED
    BY <1>1, <1>2, <1>5, <2>1, <2>2, SweepWrites DEF Store
<1>6. CASE (UNCHANGED faults \/ Fails) /\ UNCHANGED record
  <2>1. faults' \in Nat
    <3>1. CASE UNCHANGED faults
      BY <1>2, <3>1
    <3>2. CASE Fails
      BY <1>2, <3>2 DEF Fails
    <3> QED
      BY <1>6, <3>1, <3>2
  <2>2. Sweeps(e, "none", NoRow) /\ "none" \in Stages /\ "none" \notin Acting /\ NoRow \in Rows
        /\ NoRow.close = "not_planned"
    BY <1>1 DEF Done, Stages, Acting, NoRow, Rows
  <2> QED
    BY <1>6, <2>1, <2>2, SweepGoesOn
<1> QED
  BY <1>5, <1>6 DEF Defer, rec, given, put

LEMMA SweepStep ==
    ASSUME IInv, Sweep
    PROVE  IInv' /\ Refines
BY ListStep, ReadRowStep, CheckStep, AppendAgainStep, SettleStep, DeferStep DEF Sweep

-----------------------------------------------------------------------------
(* The rest of the program, time, the process; and the theorems.           *)

\* A step that concerns no record, no worker and nothing remote.
LEMMA QuietStep ==
    ASSUME IInv, TypeOK', UNCHANGED <<row, mine, at, sweep, session, document, active>>
    PROVE  IInv' /\ Refines
<1>1. \A d \in Executions : Same(d) /\ Inv(d)
  BY DEF Same, IInv
<1>2. \A d \in Executions : Inv(d)'
  BY <1>1, Frame
<1>3. Refines
  BY DEF Refines, Disposal!vars
<1> QED
  BY <1>2, <1>3 DEF IInv

LEMMA OtherStep ==
    ASSUME IInv, NEW e \in Executions, Supersede(e) \/ DeadlinePasses(e) \/ RetryDue(e)
    PROVE  IInv' /\ Refines
<1>1. TypeOK
  BY DEF IInv
<1>2. UNCHANGED <<row, mine, at, sweep, session, document, active>>
  BY DEF Supersede, DeadlinePasses, RetryDue, record, remote, worker
<1>3. TypeOK'
  <2>1. CASE Supersede(e)
    BY <1>1, <2>1 DEF Supersede, TypeOK, record, remote, worker
  <2>2. CASE DeadlinePasses(e)
    BY <1>1, <2>2 DEF DeadlinePasses, TypeOK, record, remote, worker
  <2>3. CASE RetryDue(e)
    BY <1>1, <2>3 DEF RetryDue, TypeOK, remote, worker
  <2> QED
    BY <2>1, <2>2, <2>3
<1> QED
  BY <1>2, <1>3, QuietStep

LEMMA CrashStep ==
    ASSUME IInv, Crash
    PROVE  IInv' /\ Refines
<1> DEFINE done == [Blank EXCEPT !.pc = "done"]
<1>1. TypeOK /\ \A d \in Executions : Inv(d)
  BY DEF IInv
<1>2. /\ done \in Spots /\ done.pc = "done" /\ ~done.opened /\ done.reply = "none"
      /\ NoRow \in Rows /\ Passed \in Sweeping
      /\ Passed.stage = "none" /\ Passed.copy.close = "not_planned"
  BY DEF Blank, Spots, Places, NoRow, Rows, Passed, Sweeping, Stages
<1> HIDE DEF done
<1>3. /\ at' = [e \in Executions |-> IF At(e, "idle") THEN at[e] ELSE done]
      /\ mine' = [e \in Executions |-> NoRow] /\ sweep' = [e \in Executions |-> Passed]
      /\ active' = {} /\ crashed' = TRUE
      /\ UNCHANGED <<task, record, expired, remote, faults>>
  BY DEF Crash, done
<1>4. TypeOK' /\ UNCHANGED <<session, document, row>>
  BY <1>1, <1>2, <1>3 DEF TypeOK, remote, record
<1>5. ASSUME NEW d \in Executions PROVE Inv(d)'
  <2>1. \/ at'[d] = at[d] /\ at[d].pc = "idle"
        \/ at'[d] = done
    BY <1>3 DEF At
  <2>2. sweep'[d].stage = "none" /\ sweep'[d].copy.close = "not_planned" /\ d \notin active'
    BY <1>2, <1>3
  <2>3. Inv(d)
    BY <1>1
  <2>4. Owned(d)'
    BY <1>2, <1>4, <2>1, <2>2, <2>3 DEF Inv, Owned, RemoteAt, Before, Acting
  <2>5. Truthful(d)'
    BY <1>4, <2>2, <2>3 DEF Inv, Truthful, Gone
  <2>6. RemoteAt(at[d], session[d], document[d])' /\ RecordAt(at[d], row[d].state)'
    BY <1>2, <1>4, <2>1, <2>3 DEF Inv, RemoteAt, RecordAt,
         Before, Opening, Working, Failing, Closing, After, Holding, Places
  <2> QED
    BY <2>4, <2>5, <2>6 DEF Inv
<1>6. Refines
  BY <1>4 DEF Refines, Disposal!vars
<1> QED
  BY <1>4, <1>5, <1>6 DEF IInv

LEMMA InitIInv == Init => IInv /\ Disposal!Init
<1> SUFFICES ASSUME Init PROVE IInv /\ Disposal!Init
  OBVIOUS
<1>1. /\ NoRow \in Rows /\ NoRow.state = "none" /\ NoRow.close = "not_planned"
      /\ Blank \in Spots /\ Blank.pc = "idle" /\ ~Blank.opened /\ ~Blank.failed
      /\ ~Blank.preserve /\ ~Blank.retain /\ Blank.reply = "none"
      /\ Passed \in Sweeping /\ Passed.stage = "none" /\ Passed.copy = NoRow
  BY DEF Blank, Spots, Places, NoRow, Rows, Passed, Sweeping, Stages
<1>2. TypeOK
  BY <1>1 DEF Init, TypeOK
<1>3. ASSUME NEW d \in Executions PROVE Inv(d)
  <2>1. /\ at[d] = Blank /\ row[d] = NoRow /\ sweep[d] = Passed /\ d \notin active
        /\ session[d] = "none" /\ document[d] = "none"
    BY DEF Init
  <2>2. Owned(d) /\ Truthful(d)
    BY <1>1, <2>1 DEF Owned, Truthful, Acting
  <2>3. RemoteAt(at[d], session[d], document[d]) /\ RecordAt(at[d], row[d].state)
    BY <1>1, <2>1 DEF RemoteAt, RecordAt,
         Before, Opening, Working, Failing, Closing, After, Holding, Places
  <2> QED
    BY <2>2, <2>3 DEF Inv
<1>4. Disposal!Init
  BY <1>1 DEF Init, Disposal!Init, Settled
<1> QED
  BY <1>2, <1>3, <1>4 DEF IInv

LEMMA NextIInv == IInv /\ [Next]_vars => IInv' /\ Refines
<1> SUFFICES ASSUME IInv, [Next]_vars PROVE IInv' /\ Refines
  OBVIOUS
<1>1. CASE Next
  BY <1>1, WorkerStep, OtherStep, SweepStep, CrashStep DEF Next
<1>2. CASE UNCHANGED vars
  <2>1. TypeOK' /\ UNCHANGED <<row, mine, at, sweep, session, document, active>>
    BY <1>2 DEF vars, record, remote, worker, IInv, TypeOK
  <2> QED
    BY <2>1, QuietStep
<1> QED
  BY <1>1, <1>2

\* The inductive invariant: whose record it is, what a worker knows of the remote side and
\* of its record at every place it can be at, and that a record, or a copy the sweep has
\* kept, that says the close is confirmed is right.
THEOREM Invariance == Spec => []IInv
<1>1. Init => IInv
  BY InitIInv
<1>2. IInv /\ [Next]_vars => IInv'
  BY NextIInv
<1> QED
  BY <1>1, <1>2, PTL DEF Spec

\* Every variable keeps its type, for every number of executions, deferrals and failures.
THEOREM TypeCorrect == Spec => []TypeOK
<1>1. IInv => TypeOK
  BY DEF IInv
<1> QED
  BY <1>1, Invariance, PTL

\* The sweep never writes the record of a worker that is alive: between begin_worker and
\* finish_worker the worker's copy is the record.
THEOREM Undisturbed == Spec => []WorkerUndisturbed
<1>1. IInv => WorkerUndisturbed
  BY DEF IInv, TypeOK, Inv, Owned, WorkerUndisturbed, At
<1> QED
  BY <1>1, Invariance, PTL

\* Records and remote side implement ResourceDisposal: one verdict, nothing remote after
\* it, "cleaned" only when nothing is left, no close of a document handed over.
THEOREM Implements == Spec => ImplementsDisposal
<1>1. Init => Disposal!Init
  BY InitIInv
<1>2. IInv /\ [Next]_vars => [Disposal!Next]_(Disposal!vars)
  BY NextIInv DEF Refines
<1> QED
  BY <1>1, <1>2, Invariance, PTL DEF Spec, ImplementsDisposal, Disposal!Spec

============
